--------------------------- MODULE DeployLifecycle ---------------------------
(***************************************************************************)
(* The life of deployment rows: the HTTP handlers that create, retry and   *)
(* cancel deployments and delete applications (handlers/deploy.go,         *)
(* handlers/apps_write_delete.go), the goroutine that runs a deployment    *)
(* (handlers/deploy_runner.go), the monitor it may leave behind            *)
(* (handlers/deploy_pipeline_network.go) and the rows they share           *)
(* (store/store_deploys.go, store/store_apps.go).                          *)
(*                                                                         *)
(* Every database call is a step of its own, so whatever can run between   *)
(* two calls of a handler does.  Database calls may fail (most of the code *)
(* ignores the error) and the process may crash and restart: both count as *)
(* faults and are bounded by MaxFaults.                                    *)
(***************************************************************************)
EXTENDS Naturals

CONSTANTS
  Apps,            \* applications that exist at the start
  NoApp,           \* stands for "no application"
  Requests,        \* slots for HTTP requests served at the same time
  MaxDeployments,  \* bound on the deployment rows ever inserted
  MaxFaults        \* bound on failed database calls and crashes together

ASSUME LifecycleAssumption ==
  /\ NoApp \notin Apps
  /\ MaxDeployments \in Nat
  /\ MaxFaults \in Nat

Deployments == 1 .. MaxDeployments

VARIABLES
  apps,        \* rows of table apps
  status,      \* deployments.status, "absent" when there is no row
  siteURL,     \* deployments.site_url is not empty
  finishedAt,  \* deployments.finished_at is not null
  appOf,       \* deployments.app_id
  logs,        \* deployment ids that occur in table deployment_logs
  nextId,      \* the AUTOINCREMENT counter of table deployments
  worker,      \* where the goroutine of each deployment is
  req,         \* where each HTTP request is, and what it has read so far
  faults       \* failed database calls and crashes so far

row  == <<status, siteURL, finishedAt>>
vars == <<apps, status, siteURL, finishedAt, appOf, logs, nextId, worker, req,
          faults>>

Status == {"absent", "queued", "running", "awaiting_site_url", "succeeded",
           "failed", "canceled"}

(***************************************************************************)
(* "start" to "fail_log" are the points of runManualDeployment between two *)
(* database calls, "watch_log" to "confirm_log" those of                   *)
(* monitorAwaitingSiteURL, which the runner starts as it returns.          *)
(***************************************************************************)
WorkerPC == {"none", "start", "pipeline", "ok_write", "fail_log", "watch_log",
             "probe", "confirm", "confirm_log", "done"}

RequestPC == {"idle", "insert", "trigger", "retry_app", "cancel_write",
              "cancel_log", "teardown"}

Idle == [pc |-> "idle", app |-> NoApp, dep |-> 0, url |-> FALSE]

Init ==
  /\ apps = Apps
  /\ status = [d \in Deployments |-> "absent"]
  /\ siteURL = [d \in Deployments |-> FALSE]
  /\ finishedAt = [d \in Deployments |-> FALSE]
  /\ appOf = [d \in Deployments |-> NoApp]
  /\ logs = {}
  /\ nextId = 1
  /\ worker = [d \in Deployments |-> "none"]
  /\ req = [r \in Requests |-> Idle]
  /\ faults = 0

(***************************************************************************)
(* The store.                                                              *)
(***************************************************************************)
Fault == faults < MaxFaults /\ faults' = faults + 1

\* Mutant: the finish time is overwritten, without COALESCE.
UpdateWithoutCoalesce(d, s, url, finished) ==
  IF status[d] = "absent"
  THEN UNCHANGED row
  ELSE /\ status' = [status EXCEPT ![d] = s]
       /\ siteURL' = [siteURL EXCEPT ![d] = url]
       /\ finishedAt' = [finishedAt EXCEPT ![d] = finished]

\* Mutant: INSERT OR REPLACE instead of UPDATE.
UpsertDeploymentStatus(d, s, url, finished) ==
  /\ status' = [status EXCEPT ![d] = s]
  /\ siteURL' = [siteURL EXCEPT ![d] = url]
  /\ finishedAt' = [finishedAt EXCEPT ![d] = @ \/ finished]

(***************************************************************************)
(* UPDATE deployments ... WHERE id = ?: whatever the row says is replaced; *)
(* finished_at is kept when the caller passes none (COALESCE); a missing   *)
(* row is left missing.                                                    *)
(***************************************************************************)
UpdateDeploymentStatus(d, s, url, finished) ==
  IF status[d] = "absent"
  THEN UNCHANGED row
  ELSE /\ status' = [status EXCEPT ![d] = s]
       /\ siteURL' = [siteURL EXCEPT ![d] = url]
       /\ finishedAt' = [finishedAt EXCEPT ![d] = @ \/ finished]

\* The same call from the goroutine, which ignores its error.
ReportStatus(d, s, url, finished) ==
  \/ UpdateDeploymentStatus(d, s, url, finished) /\ UNCHANGED faults
  \/ Fault /\ UNCHANGED row

\* INSERT INTO deployment_logs; every caller ignores the error.
CreateDeploymentLog(d) ==
  \/ logs' = logs \cup {d} /\ UNCHANGED faults
  \/ Fault /\ UNCHANGED logs

(***************************************************************************)
(* HTTP requests.                                                          *)
(***************************************************************************)
Goto(r, pc)  == req' = [req EXCEPT ![r].pc = pc]
Finish(r)    == req' = [req EXCEPT ![r] = Idle]
At(r, pc)    == req[r].pc = pc

(***************************************************************************)
(* POST /v1/apps/:id/deploy, and the webhook's reload of one application:  *)
(* the application is read and found eligible.  Create and patch only      *)
(* accept static applications with an output directory, so eligibility is  *)
(* existence.  Whether app.site_url is set depends on earlier deployments  *)
(* and patches, hence the choice of url.                                   *)
(***************************************************************************)
LoadAppForDeploy(r, a) ==
  /\ At(r, "idle") /\ a \in apps /\ nextId <= MaxDeployments
  /\ \E url \in BOOLEAN :
       req' = [req EXCEPT ![r] = [pc |-> "insert", app |-> a, dep |-> 0, url |-> url]]
  /\ UNCHANGED <<apps, row, appOf, logs, nextId, worker, faults>>

\* The statuses POST /v1/deploys/:id/retry accepts.
RetryableStatus == {"failed", "canceled"}

\* POST /v1/deploys/:id/retry reads the deployment to copy.
RetryRead(r, d) ==
  /\ At(r, "idle") /\ status[d] \in RetryableStatus /\ nextId <= MaxDeployments
  /\ req' = [req EXCEPT ![r] = [pc |-> "retry_app", app |-> appOf[d], dep |-> d, url |-> FALSE]]
  /\ UNCHANGED <<apps, row, appOf, logs, nextId, worker, faults>>

\* ... and then its application, which may be gone.
RetryLoadApp(r) ==
  /\ At(r, "retry_app")
  /\ \/ /\ req[r].app \in apps
        /\ \E url \in BOOLEAN :
             req' = [req EXCEPT ![r].pc = "insert", ![r].url = url]
     \/ req[r].app \notin apps /\ Finish(r)
  /\ UNCHANGED <<apps, row, appOf, logs, nextId, worker, faults>>

\* Mutant: the id of the new row is not read back.
CreateWithoutInsertId(r) ==
  /\ At(r, "insert") /\ nextId <= MaxDeployments
  /\ status' = [status EXCEPT ![nextId] = "queued"]
  /\ siteURL' = [siteURL EXCEPT ![nextId] = req[r].url]
  /\ appOf' = [appOf EXCEPT ![nextId] = req[r].app]
  /\ nextId' = nextId + 1
  /\ req' = [req EXCEPT ![r].pc = "trigger"]
  /\ UNCHANGED <<apps, finishedAt, logs, worker, faults>>

\* Mutant: the row is inserted as running.
CreateAsRunning(r) ==
  /\ At(r, "insert") /\ nextId <= MaxDeployments
  /\ status' = [status EXCEPT ![nextId] = "running"]
  /\ siteURL' = [siteURL EXCEPT ![nextId] = req[r].url]
  /\ appOf' = [appOf EXCEPT ![nextId] = req[r].app]
  /\ nextId' = nextId + 1
  /\ req' = [req EXCEPT ![r].pc = "trigger", ![r].dep = nextId]
  /\ UNCHANGED <<apps, finishedAt, logs, worker, faults>>

(***************************************************************************)
(* queueDeployment inserts the row, logs, and starts the goroutine.        *)
(***************************************************************************)
CreateDeployment(r) ==
  /\ At(r, "insert") /\ nextId <= MaxDeployments
  /\ status' = [status EXCEPT ![nextId] = "queued"]
  /\ siteURL' = [siteURL EXCEPT ![nextId] = req[r].url]
  /\ appOf' = [appOf EXCEPT ![nextId] = req[r].app]
  /\ nextId' = nextId + 1
  /\ req' = [req EXCEPT ![r].pc = "trigger", ![r].dep = nextId]
  /\ UNCHANGED <<apps, finishedAt, logs, worker, faults>>

\* The insert fails; once the ids of the model are used up it fails for free.
CreateDeploymentFails(r) ==
  /\ At(r, "insert")
  /\ Fault \/ (nextId > MaxDeployments /\ UNCHANGED faults)
  /\ Finish(r)
  /\ UNCHANGED <<apps, row, appOf, logs, nextId, worker>>

\* Mutant: the handler starts the goroutine and goes round again.
TriggerAgain(r) ==
  /\ At(r, "trigger")
  /\ CreateDeploymentLog(req[r].dep)
  /\ worker' = [worker EXCEPT ![req[r].dep] = "start"]
  /\ UNCHANGED <<apps, row, appOf, nextId, req>>

\* Mutant: the goroutine is not started when the first log line fails.
TriggerOnlyIfLogged(r) ==
  /\ At(r, "trigger")
  /\ \/ /\ logs' = logs \cup {req[r].dep} /\ UNCHANGED faults
        /\ worker' = [worker EXCEPT ![req[r].dep] = "start"]
     \/ UNCHANGED <<logs, faults, worker>>
  /\ Finish(r)
  /\ UNCHANGED <<apps, row, appOf, nextId>>

TriggerDeployment(r) ==
  /\ At(r, "trigger")
  /\ CreateDeploymentLog(req[r].dep)
  /\ worker' = [worker EXCEPT ![req[r].dep] = "start"]
  /\ Finish(r)
  /\ UNCHANGED <<apps, row, appOf, nextId>>

(***************************************************************************)
(* POST /v1/deploys/:id/cancel reads the row, decides, and writes later    *)
(* without looking again; the site URL it read is written back.            *)
(***************************************************************************)
CancelableStatus == {"queued", "running"}

CancelRead(r, d) ==
  /\ At(r, "idle") /\ status[d] \in CancelableStatus
  /\ req' = [req EXCEPT ![r] = [pc |-> "cancel_write", app |-> NoApp, dep |-> d, url |-> siteURL[d]]]
  /\ UNCHANGED <<apps, row, appOf, logs, nextId, worker, faults>>

\* A row deleted meanwhile or a failed update ends the request with an error.
CancelWrite(r) ==
  /\ At(r, "cancel_write")
  /\ UpdateDeploymentStatus(req[r].dep, "canceled", req[r].url, TRUE)
  /\ IF status[req[r].dep] = "absent" THEN Finish(r) ELSE Goto(r, "cancel_log")
  /\ UNCHANGED <<apps, appOf, logs, nextId, worker, faults>>

CancelWriteFails(r) ==
  /\ At(r, "cancel_write") /\ Fault /\ Finish(r)
  /\ UNCHANGED <<apps, row, appOf, logs, nextId, worker>>

CancelLog(r) ==
  /\ At(r, "cancel_log")
  /\ CreateDeploymentLog(req[r].dep)
  /\ Finish(r)
  /\ UNCHANGED <<apps, row, appOf, nextId, worker>>

(***************************************************************************)
(* DELETE /v1/apps/:id: the application is read, its cloud resources are   *)
(* torn down (which takes minutes and may fail), and one transaction       *)
(* removes the application with every row found for it at that moment.     *)
(***************************************************************************)
DeleteLoadApp(r, a) ==
  /\ At(r, "idle") /\ a \in apps
  /\ req' = [req EXCEPT ![r] = [pc |-> "teardown", app |-> a, dep |-> 0, url |-> FALSE]]
  /\ UNCHANGED <<apps, row, appOf, logs, nextId, worker, faults>>

\* The teardown, or the transaction, fails: nothing is deleted.
DeleteFails(r) ==
  /\ At(r, "teardown") /\ Finish(r)
  /\ UNCHANGED <<apps, row, appOf, logs, nextId, worker, faults>>

RowsOf(a) == {d \in Deployments : appOf[d] = a /\ status[d] # "absent"}

\* A concurrent request deleted the application first: rollback, not found.
DeleteAppForUser(r) ==
  /\ At(r, "teardown") /\ req[r].app \in apps
  /\ LET gone == RowsOf(req[r].app)
     IN  /\ status' = [d \in Deployments |-> IF d \in gone THEN "absent" ELSE status[d]]
         /\ siteURL' = [d \in Deployments |-> d \notin gone /\ siteURL[d]]
         /\ finishedAt' = [d \in Deployments |-> d \notin gone /\ finishedAt[d]]
         /\ logs' = logs \ gone
  /\ apps' = apps \ {req[r].app}
  /\ Finish(r)
  /\ UNCHANGED <<appOf, nextId, worker, faults>>

(***************************************************************************)
(* runManualDeployment.  The application it works from is the copy the     *)
(* request read, so the site URL it writes first is the row's own.         *)
(***************************************************************************)
Step(d, from, to) == worker[d] = from /\ worker' = [worker EXCEPT ![d] = to]

MarkRunning(d) ==
  /\ Step(d, "start", "pipeline")
  /\ ReportStatus(d, "running", siteURL[d], FALSE)
  /\ UNCHANGED <<apps, appOf, logs, nextId, req>>

\* The pipeline logs as it goes.
PipelineLog(d) ==
  /\ worker[d] = "pipeline" /\ d \notin logs
  /\ CreateDeploymentLog(d)
  /\ UNCHANGED <<apps, row, appOf, nextId, worker, req>>

\* Mutant: an error returns before the status is written.
PipelineFailsSilently(d) ==
  /\ Step(d, "pipeline", "fail_log")
  /\ UNCHANGED <<apps, row, appOf, logs, nextId, req, faults>>

\* The pipeline, or the build type check before it, ends in an error.
PipelineFails(d) ==
  /\ Step(d, "pipeline", "fail_log")
  /\ ReportStatus(d, "failed", FALSE, TRUE)
  /\ UNCHANGED <<apps, appOf, logs, nextId, req>>

FailLog(d) ==
  /\ Step(d, "fail_log", "done")
  /\ CreateDeploymentLog(d)
  /\ UNCHANGED <<apps, row, appOf, nextId, req>>

\* The site answers: the log line comes before the status.
PipelineSucceeds(d) ==
  /\ Step(d, "pipeline", "ok_write")
  /\ CreateDeploymentLog(d)
  /\ UNCHANGED <<apps, row, appOf, nextId, req>>

MarkSucceeded(d) ==
  /\ Step(d, "ok_write", "done")
  /\ ReportStatus(d, "succeeded", TRUE, TRUE)
  /\ UNCHANGED <<apps, appOf, logs, nextId, req>>

\* The site does not answer yet: the monitor takes over.
PipelineAwaitsSite(d) ==
  /\ Step(d, "pipeline", "watch_log")
  /\ ReportStatus(d, "awaiting_site_url", TRUE, TRUE)
  /\ UNCHANGED <<apps, appOf, logs, nextId, req>>

(***************************************************************************)
(* monitorAwaitingSiteURL.                                                 *)
(***************************************************************************)
MonitorLog(d) ==
  /\ Step(d, "watch_log", "probe")
  /\ CreateDeploymentLog(d)
  /\ UNCHANGED <<apps, row, appOf, nextId, req>>

\* The statuses in which the monitor still reports success.
WaitingStatus == {"awaiting_site_url", "running"}

\* The site answered; the row is read to see whether it still waits.
MonitorCheck(d) ==
  /\ worker[d] = "probe"
  /\ \/ /\ worker' = [worker EXCEPT ![d] = IF status[d] \in WaitingStatus THEN "confirm" ELSE "done"]
        /\ UNCHANGED faults
     \/ worker' = [worker EXCEPT ![d] = "done"] /\ Fault
  /\ UNCHANGED <<apps, row, appOf, logs, nextId, req>>

MonitorConfirm(d) ==
  /\ Step(d, "confirm", "confirm_log")
  /\ ReportStatus(d, "succeeded", TRUE, TRUE)
  /\ UNCHANGED <<apps, appOf, logs, nextId, req>>

MonitorConfirmLog(d) ==
  /\ Step(d, "confirm_log", "done")
  /\ CreateDeploymentLog(d)
  /\ UNCHANGED <<apps, row, appOf, nextId, req>>

\* Twelve minutes passed without an answer: the row stays as it is.
MonitorTimeout(d) ==
  /\ Step(d, "probe", "done")
  /\ CreateDeploymentLog(d)
  /\ UNCHANGED <<apps, row, appOf, nextId, req>>

(***************************************************************************)
(* The process dies and is started again: goroutines and requests are      *)
(* gone, rows stay, and nothing at start-up looks at unfinished rows.      *)
(***************************************************************************)
Crash ==
  /\ Fault
  /\ worker' = [d \in Deployments |-> IF worker[d] = "none" THEN "none" ELSE "done"]
  /\ req' = [r \in Requests |-> Idle]
  /\ UNCHANGED <<apps, row, appOf, logs, nextId>>

RequestStep(r) ==
  \/ RetryLoadApp(r)
  \/ CreateDeployment(r)
  \/ CreateDeploymentFails(r)
  \/ TriggerDeployment(r)
  \/ CancelWrite(r)
  \/ CancelWriteFails(r)
  \/ CancelLog(r)
  \/ DeleteFails(r)
  \/ DeleteAppForUser(r)

NewRequest(r) ==
  \/ \E a \in Apps : LoadAppForDeploy(r, a) \/ DeleteLoadApp(r, a)
  \/ \E d \in Deployments : RetryRead(r, d) \/ CancelRead(r, d)

WorkerStep(d) ==
  \/ MarkRunning(d)
  \/ PipelineLog(d)
  \/ PipelineFails(d)
  \/ FailLog(d)
  \/ PipelineSucceeds(d)
  \/ MarkSucceeded(d)
  \/ PipelineAwaitsSite(d)
  \/ MonitorLog(d)
  \/ MonitorCheck(d)
  \/ MonitorConfirm(d)
  \/ MonitorConfirmLog(d)
  \/ MonitorTimeout(d)

Next ==
  \/ \E r \in Requests : NewRequest(r) \/ RequestStep(r)
  \/ \E d \in Deployments : WorkerStep(d)
  \/ Crash

Spec == Init /\ [][Next]_vars

(***************************************************************************)
(* A goroutine that can go on does: its database calls return, every stage *)
(* of the pipeline has a timeout, and the monitor has a deadline.  A       *)
(* handler that has begun goes on as well.  Nobody has to send a request,  *)
(* and nothing has to crash.                                               *)
(***************************************************************************)
Fairness ==
  /\ \A d \in Deployments : WF_vars(WorkerStep(d))
  /\ \A r \in Requests : WF_vars(RequestStep(r))

FairSpec == Spec /\ Fairness

-----------------------------------------------------------------------------
(***************************************************************************)
(* Properties.                                                             *)
(***************************************************************************)

RequestOK(q) ==
  /\ q \in [pc : RequestPC, app : Apps \cup {NoApp}, dep : {0} \cup Deployments, url : BOOLEAN]
  /\ q.pc \in {"insert", "teardown"} => q.app \in Apps
  /\ q.pc \in {"trigger", "cancel_write", "cancel_log", "retry_app"} => q.dep \in Deployments

\* Every variable has its type, and a request past a read holds what it read.
TypeOK ==
  /\ apps \subseteq Apps
  /\ status \in [Deployments -> Status]
  /\ siteURL \in [Deployments -> BOOLEAN]
  /\ finishedAt \in [Deployments -> BOOLEAN]
  /\ appOf \in [Deployments -> Apps \cup {NoApp}]
  /\ logs \subseteq Deployments
  /\ nextId \in 1 .. MaxDeployments + 1
  /\ worker \in [Deployments -> WorkerPC]
  /\ DOMAIN req = Requests /\ \A r \in Requests : RequestOK(req[r])
  /\ faults \in 0 .. MaxFaults

(***************************************************************************)
(* Nobody starts the goroutine of a deployment twice: the request that is  *)
(* about to start it is the only one, holds a row that was inserted, and   *)
(* the goroutine has not begun; an id that was not handed out yet has      *)
(* neither row nor goroutine.                                              *)
(***************************************************************************)
StartedAtMostOnce ==
  /\ \A r \in Requests : At(r, "trigger") =>
       /\ worker[req[r].dep] = "none"
       /\ req[r].dep < nextId
       /\ \A q \in Requests \ {r} : ~(At(q, "trigger") /\ req[q].dep = req[r].dep)
  /\ \A d \in Deployments :
       d >= nextId => status[d] = "absent" /\ worker[d] = "none"

\* How far a goroutine has come, as a reader of the row can tell.
PhaseOf(w) ==
  IF w \in {"none", "start"} THEN "pending"
  ELSE IF w \in {"pipeline", "ok_write"} THEN "working"
  ELSE IF w \in {"watch_log", "probe", "confirm"} THEN "watching"
  ELSE "over"

(***************************************************************************)
(* The row never runs ahead of the goroutine: "running" is only seen once  *)
(* the goroutine has begun, "awaiting_site_url" once the pipeline is over, *)
(* and "failed" or "succeeded" once nothing will work on the deployment    *)
(* any more, whatever cancels, retries, deletions, lost writes and crashes *)
(* happened around it.                                                     *)
(***************************************************************************)
StatusNeverAhead ==
  \A d \in Deployments :
    /\ status[d] = "running" => PhaseOf(worker[d]) # "pending"
    /\ status[d] = "awaiting_site_url" => PhaseOf(worker[d]) \in {"watching", "over"}
    /\ status[d] \in {"failed", "succeeded"} => PhaseOf(worker[d]) = "over"

(***************************************************************************)
(* As long as no database call has failed and the process has not crashed, *)
(* a row that asks for patience has somebody who will settle it: "queued"  *)
(* has a handler about to start the goroutine or a goroutine about to run, *)
(* "running" has a goroutine still in the pipeline.  This is what keeps a  *)
(* deployment from hanging although cancel, retry and delete write the     *)
(* same rows without coordination.                                         *)
(***************************************************************************)
LiveRowHasOwner ==
  faults = 0 =>
    \A d \in Deployments :
      /\ status[d] = "queued" =>
           \/ worker[d] = "start"
           \/ worker[d] = "none" /\ \E r \in Requests : At(r, "trigger") /\ req[r].dep = d
      /\ status[d] = "running" => worker[d] \in {"pipeline", "ok_write"}

(***************************************************************************)
(* A deployment shown as succeeded, or as waiting for its site, carries    *)
(* the site's URL, although the row starts without one and cancel writes   *)
(* back the URL it read earlier.                                           *)
(***************************************************************************)
SucceededHasSiteURL ==
  \A d \in Deployments :
    status[d] \in {"succeeded", "awaiting_site_url"} => siteURL[d]

(***************************************************************************)
(* A finish time, once written, stays for the life of the row, even when a *)
(* deployment canceled before it ran is then marked running.               *)
(***************************************************************************)
FinishTimeSurvives ==
  [][\A d \in Deployments :
       finishedAt[d] /\ status'[d] # "absent" => finishedAt'[d]]_vars

\* The row as its readers may rely on it: DeploymentRecord says how.
RecordStatus ==
  [d \in Deployments |->
     IF status[d] # "absent" THEN status[d]
     ELSE IF d < nextId THEN "deleted" ELSE "unborn"]

Record == INSTANCE DeploymentRecord WITH
            status <- RecordStatus,
            phase <- [d \in Deployments |-> PhaseOf(worker[d])]

(***************************************************************************)
(* Rows and goroutines together keep the promise of DeploymentRecord: one  *)
(* start, one conclusion and one confirmation at most, in this order, and  *)
(* a deleted row never comes back although goroutines keep writing to it.  *)
(***************************************************************************)
ImplementsRecord == Record!Spec

(***************************************************************************)
(* Once a deployment has concluded, or nothing works on it any more, only  *)
(* a user changes its status, by canceling it or deleting the application: *)
(* no goroutine, retry or late report of another step overwrites it.       *)
(***************************************************************************)
ConclusionsAreFinal ==
  [][\A d \in Deployments :
       status[d] \in {"succeeded", "failed"} \/ PhaseOf(worker[d]) = "over" =>
         status'[d] \in {status[d], "canceled", "absent"}]_vars

(***************************************************************************)
(* Without faults every queued deployment ends up settled for good: its    *)
(* goroutine is over and the row is neither queued nor running.            *)
(***************************************************************************)
QueuedSettles ==
  \A d \in Deployments :
    status[d] = "queued" /\ faults = 0 ~>
      \/ faults > 0
      \/ worker[d] = "done" /\ status[d] \notin {"queued", "running"}

(***************************************************************************)
(* What comments of the code say of it and interleavings refute.           *)
(***************************************************************************)

(***************************************************************************)
(* deploy_pipeline_network.go:68, on the monitor: "only update if still in *)
(* a waiting state - user might have canceled it".  A canceled deployment  *)
(* would never become succeeded by the monitor's hand.                     *)
(***************************************************************************)
MonitorRespectsCancel ==
  [][\A d \in Deployments :
       status[d] = "canceled" /\ MonitorConfirm(d) => status'[d] = "canceled"]_vars
=============================================================================
