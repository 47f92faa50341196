------------------------ MODULE DeployLifecycleProofs ------------------------
(***************************************************************************)
(* Proofs about DeployLifecycle: its invariants, for any number of         *)
(* applications, requests, deployments and faults, and that it implements  *)
(* DeploymentRecord.                                                       *)
(***************************************************************************)
EXTENDS DeployLifecycle, TLAPS

(***************************************************************************)
(* Steps of a request change its own slot only, and leave it well formed.  *)
(***************************************************************************)
LEMMA ReqTypes ==
  ASSUME TypeOK, NEW r \in Requests
  PROVE  /\ req[r] \in [pc : RequestPC, app : Apps \cup {NoApp}, dep : {0} \cup Deployments, url : BOOLEAN]
         /\ req[r].pc \in RequestPC /\ req[r].app \in Apps \cup {NoApp}
         /\ req[r].dep \in {0} \cup Deployments /\ req[r].url \in BOOLEAN
BY DEF TypeOK, RequestOK

\* UPDATE deployments keeps the columns well typed.
LEMMA UpdateTypes ==
  ASSUME TypeOK, NEW d \in Deployments, NEW s \in Status,
         NEW url \in BOOLEAN, NEW finished \in BOOLEAN,
         UpdateDeploymentStatus(d, s, url, finished)
  PROVE  /\ status' \in [Deployments -> Status]
         /\ siteURL' \in [Deployments -> BOOLEAN]
         /\ finishedAt' \in [Deployments -> BOOLEAN]
<1>1. CASE status[d] = "absent"
  BY <1>1 DEF UpdateDeploymentStatus, row, TypeOK
<1>2. CASE status[d] # "absent"
  <2>1. (finishedAt[d] \/ finished) \in BOOLEAN
    OBVIOUS
  <2>2. finishedAt' = [finishedAt EXCEPT ![d] = finishedAt[d] \/ finished]
    BY <1>2 DEF UpdateDeploymentStatus
  <2>3. finishedAt' \in [Deployments -> BOOLEAN]
    BY <2>1, <2>2, Zenon DEF TypeOK
  <2> QED
    BY <1>2, <2>3 DEF UpdateDeploymentStatus, TypeOK
<1> QED
  BY <1>1, <1>2

LEMMA ReportTypes ==
  ASSUME TypeOK, NEW d \in Deployments, NEW s \in Status,
         NEW url \in BOOLEAN, NEW finished \in BOOLEAN,
         ReportStatus(d, s, url, finished)
  PROVE  /\ status' \in [Deployments -> Status]
         /\ siteURL' \in [Deployments -> BOOLEAN]
         /\ finishedAt' \in [Deployments -> BOOLEAN]
         /\ faults' \in 0 .. MaxFaults
<1>1. CASE UpdateDeploymentStatus(d, s, url, finished) /\ UNCHANGED faults
  BY <1>1, UpdateTypes DEF TypeOK
<1>2. CASE Fault /\ UNCHANGED row
  BY <1>2, LifecycleAssumption DEF Fault, row, TypeOK
<1> QED
  BY <1>1, <1>2 DEF ReportStatus

LEMMA LogTypes ==
  ASSUME TypeOK, NEW d \in Deployments, CreateDeploymentLog(d)
  PROVE  logs' \subseteq Deployments /\ faults' \in 0 .. MaxFaults
BY LifecycleAssumption DEF CreateDeploymentLog, Fault, TypeOK

\* A request slot that is overwritten with a good record stays good.
LEMMA SlotTypes ==
  ASSUME TypeOK, NEW r \in Requests, NEW q, RequestOK(q),
         req' = [req EXCEPT ![r] = q]
  PROVE  DOMAIN req' = Requests /\ \A x \in Requests : RequestOK(req'[x])
BY DEF TypeOK

LEMMA IdleOK == RequestOK(Idle)
BY DEF RequestOK, Idle, RequestPC

LEMMA FinishTypes ==
  ASSUME TypeOK, NEW r \in Requests, Finish(r)
  PROVE  DOMAIN req' = Requests /\ \A x \in Requests : RequestOK(req'[x])
BY IdleOK, SlotTypes DEF Finish

\* A request that only moves on keeps what it has read.
LEMMA GotoTypes ==
  ASSUME TypeOK, NEW r \in Requests, NEW pc \in RequestPC, Goto(r, pc),
         pc \in {"insert", "teardown"} => req[r].app \in Apps,
         pc \in {"trigger", "cancel_write", "cancel_log", "retry_app"} => req[r].dep \in Deployments
  PROVE  DOMAIN req' = Requests /\ \A x \in Requests : RequestOK(req'[x])
<1> DEFINE q == [req[r] EXCEPT !.pc = pc]
<1>1. RequestOK(q)
  BY ReqTypes DEF RequestOK
<1>2. req' = [req EXCEPT ![r] = q]
  BY DEF Goto, TypeOK
<1> HIDE DEF q
<1> QED
  BY <1>1, <1>2, SlotTypes

(***************************************************************************)
(* Every step keeps every variable within its type.                        *)
(***************************************************************************)
LEMMA TypeStep == TypeOK /\ [Next]_vars => TypeOK'
<1> SUFFICES ASSUME TypeOK, [Next]_vars PROVE TypeOK'
  OBVIOUS
<1> DEFINE ReqOK == DOMAIN req' = Requests /\ \A x \in Requests : RequestOK(req'[x])
<1> DEFINE RowOK == /\ status' \in [Deployments -> Status]
                    /\ siteURL' \in [Deployments -> BOOLEAN]
                    /\ finishedAt' \in [Deployments -> BOOLEAN]
<1>req. ASSUME UNCHANGED req PROVE ReqOK
  BY <1>req DEF TypeOK
<1>row. ASSUME UNCHANGED row PROVE RowOK
  BY <1>row DEF TypeOK, row
<1>fault. ASSUME Fault PROVE faults' \in 0 .. MaxFaults
  BY <1>fault, LifecycleAssumption DEF Fault, TypeOK
<1>max. MaxDeployments \in Nat
  BY LifecycleAssumption
<1>1. ASSUME NEW r \in Requests, NEW a \in Apps, LoadAppForDeploy(r, a) PROVE TypeOK'
  <2>1. PICK url \in BOOLEAN :
          req' = [req EXCEPT ![r] = [pc |-> "insert", app |-> a, dep |-> 0, url |-> url]]
    BY <1>1 DEF LoadAppForDeploy
  <2>2. RequestOK([pc |-> "insert", app |-> a, dep |-> 0, url |-> url])
    BY DEF RequestOK, RequestPC
  <2>3. ReqOK
    BY <2>1, <2>2, SlotTypes
  <2> QED
    BY <1>1, <2>3, <1>row DEF LoadAppForDeploy, TypeOK
<1>2. ASSUME NEW r \in Requests, NEW a \in Apps, DeleteLoadApp(r, a) PROVE TypeOK'
  <2>1. RequestOK([pc |-> "teardown", app |-> a, dep |-> 0, url |-> FALSE])
    BY DEF RequestOK, RequestPC
  <2>2. ReqOK
    BY <1>2, <2>1, SlotTypes DEF DeleteLoadApp
  <2> QED
    BY <1>2, <2>2, <1>row DEF DeleteLoadApp, TypeOK
<1>3. ASSUME NEW r \in Requests, NEW d \in Deployments, RetryRead(r, d) PROVE TypeOK'
  <2>1. RequestOK([pc |-> "retry_app", app |-> appOf[d], dep |-> d, url |-> FALSE])
    BY DEF RequestOK, RequestPC, TypeOK
  <2>2. ReqOK
    BY <1>3, <2>1, SlotTypes DEF RetryRead
  <2> QED
    BY <1>3, <2>2, <1>row DEF RetryRead, TypeOK
<1>4. ASSUME NEW r \in Requests, NEW d \in Deployments, CancelRead(r, d) PROVE TypeOK'
  <2>1. RequestOK([pc |-> "cancel_write", app |-> NoApp, dep |-> d, url |-> siteURL[d]])
    BY DEF RequestOK, RequestPC, TypeOK
  <2>2. ReqOK
    BY <1>4, <2>1, SlotTypes DEF CancelRead
  <2> QED
    BY <1>4, <2>2, <1>row DEF CancelRead, TypeOK
<1>5. ASSUME NEW r \in Requests, RetryLoadApp(r) PROVE TypeOK'
  <2>1. CASE req[r].app \in apps /\ \E url \in BOOLEAN :
               req' = [req EXCEPT ![r].pc = "insert", ![r].url = url]
    <3>1. PICK url \in BOOLEAN : req' = [req EXCEPT ![r].pc = "insert", ![r].url = url]
      BY <2>1
    <3> DEFINE q == [req[r] EXCEPT !.pc = "insert", !.url = url]
    <3>2. RequestOK(q)
      BY <2>1, ReqTypes DEF RequestOK, RequestPC, TypeOK
    <3>3. req' = [req EXCEPT ![r] = q]
      BY <3>1 DEF TypeOK
    <3> HIDE DEF q
    <3> QED
      BY <3>2, <3>3, SlotTypes, <1>5, <1>row DEF RetryLoadApp, TypeOK
  <2>2. CASE Finish(r)
    BY <2>2, FinishTypes, <1>5, <1>row DEF RetryLoadApp, TypeOK
  <2> QED
    BY <1>5, <2>1, <2>2 DEF RetryLoadApp
<1>6. ASSUME NEW r \in Requests, CreateDeployment(r) PROVE TypeOK'
  <2> DEFINE q == [req[r] EXCEPT !.pc = "trigger", !.dep = nextId]
  <2>1. nextId \in Deployments /\ nextId' \in 1 .. MaxDeployments + 1
    BY <1>6, <1>max DEF CreateDeployment, Deployments, TypeOK
  <2>2. RequestOK(q)
    BY <2>1, ReqTypes DEF RequestOK, RequestPC
  <2>3. req' = [req EXCEPT ![r] = q]
    BY <1>6 DEF CreateDeployment, TypeOK
  <2>4. req[r].app \in Apps \cup {NoApp} /\ req[r].url \in BOOLEAN
    BY ReqTypes
  <2> HIDE DEF q
  <2>5. ReqOK
    BY <2>2, <2>3, SlotTypes
  <2>6. RowOK /\ appOf' \in [Deployments -> Apps \cup {NoApp}]
    BY <1>6, <2>4 DEF CreateDeployment, TypeOK, Status
  <2> QED
    BY <1>6, <2>1, <2>5, <2>6 DEF CreateDeployment, TypeOK
<1>7. ASSUME NEW r \in Requests, CreateDeploymentFails(r) PROVE TypeOK'
  BY <1>7, FinishTypes, <1>row, <1>fault DEF CreateDeploymentFails, TypeOK
<1>8. ASSUME NEW r \in Requests, TriggerDeployment(r) PROVE TypeOK'
  <2>1. req[r].dep \in Deployments
    BY <1>8 DEF TriggerDeployment, At, TypeOK, RequestOK
  <2>2. worker' \in [Deployments -> WorkerPC]
    BY <1>8 DEF TriggerDeployment, TypeOK, WorkerPC
  <2>3. logs' \subseteq Deployments /\ faults' \in 0 .. MaxFaults
    BY <1>8, <2>1, LogTypes DEF TriggerDeployment
  <2>4. ReqOK
    BY <1>8, FinishTypes DEF TriggerDeployment
  <2> QED
    BY <1>8, <2>2, <2>3, <2>4, <1>row DEF TriggerDeployment, TypeOK
<1>9. ASSUME NEW r \in Requests, CancelWrite(r) PROVE TypeOK'
  <2>1. req[r].dep \in Deployments /\ req[r].url \in BOOLEAN
    BY <1>9 DEF CancelWrite, At, TypeOK, RequestOK
  <2>2. RowOK
    BY <1>9, <2>1, UpdateTypes DEF CancelWrite, Status
  <2>3. ReqOK
    <3>1. CASE Finish(r)
      BY <3>1, FinishTypes
    <3>2. CASE Goto(r, "cancel_log")
      BY <3>2, <2>1, GotoTypes DEF RequestPC
    <3> QED
      BY <1>9, <3>1, <3>2 DEF CancelWrite
  <2> QED
    BY <1>9, <2>2, <2>3 DEF CancelWrite, TypeOK
<1>10. ASSUME NEW r \in Requests, CancelWriteFails(r) PROVE TypeOK'
  BY <1>10, FinishTypes, <1>row, <1>fault DEF CancelWriteFails, TypeOK
<1>11. ASSUME NEW r \in Requests, CancelLog(r) PROVE TypeOK'
  <2>1. req[r].dep \in Deployments
    BY <1>11 DEF CancelLog, At, TypeOK, RequestOK
  <2> QED
    BY <1>11, <2>1, FinishTypes, LogTypes, <1>row DEF CancelLog, TypeOK
<1>12. ASSUME NEW r \in Requests, DeleteFails(r) PROVE TypeOK'
  BY <1>12, FinishTypes, <1>row DEF DeleteFails, TypeOK
<1>13. ASSUME NEW r \in Requests, DeleteAppForUser(r) PROVE TypeOK'
  <2>1. RowOK /\ logs' \subseteq Deployments
    <3> DEFINE gone == RowsOf(req[r].app)
    <3>1. /\ status' = [d \in Deployments |-> IF d \in gone THEN "absent" ELSE status[d]]
          /\ siteURL' = [d \in Deployments |-> d \notin gone /\ siteURL[d]]
          /\ finishedAt' = [d \in Deployments |-> d \notin gone /\ finishedAt[d]]
          /\ logs' = logs \ gone
      BY <1>13 DEF DeleteAppForUser
    <3> HIDE DEF gone
    <3>2. status' \in [Deployments -> Status] /\ logs' \subseteq Deployments
      BY <3>1 DEF TypeOK, Status
    <3>3. siteURL' \in [Deployments -> BOOLEAN] /\ finishedAt' \in [Deployments -> BOOLEAN]
      BY <3>1, Zenon DEF TypeOK
    <3> QED
      BY <3>2, <3>3
  <2> QED
    BY <1>13, <2>1, FinishTypes DEF DeleteAppForUser, TypeOK
<1>14. ASSUME NEW d \in Deployments, WorkerStep(d) PROVE TypeOK'
  <2>url. siteURL[d] \in BOOLEAN
    BY DEF TypeOK
  <2>step. ASSUME NEW from, NEW to \in WorkerPC, Step(d, from, to)
           PROVE worker' \in [Deployments -> WorkerPC]
    BY <2>step DEF Step, TypeOK
  <2>pc. /\ {"pipeline", "fail_log", "ok_write", "watch_log", "probe"} \subseteq WorkerPC
         /\ {"confirm", "confirm_log", "done"} \subseteq WorkerPC
         /\ {"running", "failed", "succeeded", "awaiting_site_url"} \subseteq Status
    BY DEF WorkerPC, Status
  <2>1. CASE MarkRunning(d)
    BY <2>1, <2>url, <2>step, <2>pc, <1>req, ReportTypes DEF MarkRunning, TypeOK
  <2>2. CASE PipelineLog(d)
    BY <2>2, <1>row, <1>req, LogTypes DEF PipelineLog, TypeOK
  <2>3. CASE PipelineFails(d)
    BY <2>3, <2>step, <2>pc, <1>req, ReportTypes DEF PipelineFails, TypeOK
  <2>4. CASE FailLog(d)
    BY <2>4, <2>step, <2>pc, <1>row, <1>req, LogTypes DEF FailLog, TypeOK
  <2>5. CASE PipelineSucceeds(d)
    BY <2>5, <2>step, <2>pc, <1>row, <1>req, LogTypes DEF PipelineSucceeds, TypeOK
  <2>6. CASE MarkSucceeded(d)
    BY <2>6, <2>step, <2>pc, <1>req, ReportTypes DEF MarkSucceeded, TypeOK
  <2>7. CASE PipelineAwaitsSite(d)
    BY <2>7, <2>step, <2>pc, <1>req, ReportTypes DEF PipelineAwaitsSite, TypeOK
  <2>8. CASE MonitorLog(d)
    BY <2>8, <2>step, <2>pc, <1>row, <1>req, LogTypes DEF MonitorLog, TypeOK
  <2>9. CASE MonitorCheck(d)
    <3>1. worker' \in [Deployments -> WorkerPC]
      BY <2>9, <2>pc DEF MonitorCheck, TypeOK
    <3> QED
      BY <2>9, <3>1, <1>row, <1>req, <1>fault DEF MonitorCheck, TypeOK
  <2>10. CASE MonitorConfirm(d)
    BY <2>10, <2>step, <2>pc, <1>req, ReportTypes DEF MonitorConfirm, TypeOK
  <2>11. CASE MonitorConfirmLog(d)
    BY <2>11, <2>step, <2>pc, <1>row, <1>req, LogTypes DEF MonitorConfirmLog, TypeOK
  <2>12. CASE MonitorTimeout(d)
    BY <2>12, <2>step, <2>pc, <1>row, <1>req, LogTypes DEF MonitorTimeout, TypeOK
  <2> QED
    BY <1>14, <2>1, <2>2, <2>3, <2>4, <2>5, <2>6, <2>7, <2>8, <2>9, <2>10, <2>11,
       <2>12 DEF WorkerStep
<1>15. CASE Crash
  <2>1. worker' \in [Deployments -> WorkerPC]
    BY <1>15 DEF Crash, TypeOK, WorkerPC
  <2>2. ReqOK
    BY <1>15, IdleOK DEF Crash
  <2> QED
    BY <1>15, <2>1, <2>2, <1>row, <1>fault DEF Crash, TypeOK
<1>16. CASE UNCHANGED vars
  BY <1>16, <1>req, <1>row DEF vars, row, TypeOK
<1> QED
  BY <1>1, <1>2, <1>3, <1>4, <1>5, <1>6, <1>7, <1>8, <1>9, <1>10, <1>11, <1>12,
     <1>13, <1>14, <1>15, <1>16 DEF Next, NewRequest, RequestStep

LEMMA TypeInit == Init => TypeOK
<1>1. RequestOK(Idle)
  BY IdleOK
<1>2. MaxDeployments \in Nat /\ MaxFaults \in Nat
  BY LifecycleAssumption
<1> QED
  BY <1>1, <1>2 DEF Init, TypeOK, Status, WorkerPC

(***************************************************************************)
(* Type correctness: rows, goroutines and requests only ever hold the      *)
(* values the code can put there.                                          *)
(***************************************************************************)
THEOREM TypeCorrect == Spec => []TypeOK
BY TypeInit, TypeStep, PTL DEF Spec

-----------------------------------------------------------------------------
(***************************************************************************)
(* The inductive invariant.  StartedAtMostOnce is what LiveRowHasOwner and *)
(* StatusNeverAhead need at TriggerDeployment: the goroutine that starts   *)
(* there has not begun before.                                             *)
(***************************************************************************)
IInv ==
  /\ TypeOK
  /\ StartedAtMostOnce
  /\ StatusNeverAhead
  /\ LiveRowHasOwner
  /\ SucceededHasSiteURL

\* What an UPDATE of row d can do to the columns the invariants read.
LEMMA UpdateEffect ==
  ASSUME TypeOK, NEW d \in Deployments, NEW s, NEW url \in BOOLEAN, NEW finished,
         UpdateDeploymentStatus(d, s, url, finished)
  PROVE  /\ \A e \in Deployments \ {d} : status'[e] = status[e] /\ siteURL'[e] = siteURL[e]
         /\ \/ status[d] = "absent" /\ status'[d] = "absent" /\ siteURL'[d] = siteURL[d]
            \/ status[d] # "absent" /\ status'[d] = s /\ siteURL'[d] = url
BY DEF UpdateDeploymentStatus, row, TypeOK

\* The same for an update whose error is ignored: without a fault it is done.
LEMMA ReportEffect ==
  ASSUME TypeOK, NEW d \in Deployments, NEW s, NEW url \in BOOLEAN, NEW finished,
         ReportStatus(d, s, url, finished)
  PROVE  /\ \A e \in Deployments \ {d} : status'[e] = status[e] /\ siteURL'[e] = siteURL[e]
         /\ \/ status'[d] = status[d] /\ siteURL'[d] = siteURL[d]
            \/ status[d] # "absent" /\ status'[d] = s /\ siteURL'[d] = url
         /\ faults' = 0 => /\ faults = 0
                           /\ status[d] # "absent" => status'[d] = s
                           /\ status[d] = "absent" => status'[d] = "absent"
<1>1. CASE UpdateDeploymentStatus(d, s, url, finished) /\ UNCHANGED faults
  BY <1>1, UpdateEffect
<1>2. CASE Fault /\ UNCHANGED row
  BY <1>2 DEF Fault, row, TypeOK
<1> QED
  BY <1>1, <1>2 DEF ReportStatus

\* A log write leaves the rows alone and never repairs a fault.
LEMMA LogEffect ==
  ASSUME TypeOK, NEW d, CreateDeploymentLog(d)
  PROVE  faults' = 0 => faults = 0
BY DEF CreateDeploymentLog, Fault, TypeOK

(***************************************************************************)
(* What a step of the goroutine of d does to the row and the goroutine of  *)
(* d, and that it leaves all the others, and the requests, alone.          *)
(***************************************************************************)
WorkerEffect(d) ==
  /\ worker[d] \notin {"none", "done"}
  /\ UNCHANGED <<nextId, req, apps, appOf>>
  /\ \A e \in Deployments \ {d} :
       worker'[e] = worker[e] /\ status'[e] = status[e] /\ siteURL'[e] = siteURL[e]
  /\ faults' = 0 => faults = 0
  /\ status[d] = "absent" => status'[d] = "absent"
  /\ \/ /\ worker[d] = "start" /\ worker'[d] = "pipeline"
        /\ status'[d] \in {status[d], "running"}
        /\ siteURL'[d] = siteURL[d]
        /\ faults' = 0 /\ status[d] # "absent" => status'[d] = "running"
     \/ /\ worker[d] = "pipeline" /\ worker'[d] = "fail_log"
        /\ \/ status'[d] = status[d] /\ siteURL'[d] = siteURL[d]
           \/ status'[d] = "failed"
        /\ faults' = 0 /\ status[d] # "absent" => status'[d] = "failed"
     \/ /\ worker[d] = "ok_write" /\ worker'[d] = "done"
        /\ \/ status'[d] = status[d] /\ siteURL'[d] = siteURL[d]
           \/ status'[d] = "succeeded" /\ siteURL'[d]
        /\ faults' = 0 /\ status[d] # "absent" => status'[d] = "succeeded"
     \/ /\ worker[d] = "pipeline" /\ worker'[d] = "watch_log"
        /\ \/ status'[d] = status[d] /\ siteURL'[d] = siteURL[d]
           \/ status'[d] = "awaiting_site_url" /\ siteURL'[d]
        /\ faults' = 0 /\ status[d] # "absent" => status'[d] = "awaiting_site_url"
     \/ /\ worker[d] = "confirm" /\ worker'[d] = "confirm_log"
        /\ \/ status'[d] = status[d] /\ siteURL'[d] = siteURL[d]
           \/ status'[d] = "succeeded" /\ siteURL'[d]
     \/ /\ <<worker[d], worker'[d]>> \in
             {<<"pipeline", "pipeline">>, <<"fail_log", "done">>, <<"pipeline", "ok_write">>,
              <<"watch_log", "probe">>, <<"probe", "confirm">>, <<"probe", "done">>,
              <<"confirm_log", "done">>}
        /\ status'[d] = status[d] /\ siteURL'[d] = siteURL[d]

LEMMA WorkerStepEffect ==
  ASSUME TypeOK, NEW d \in Deployments, WorkerStep(d)
  PROVE  WorkerEffect(d)
<1>url. siteURL[d] \in BOOLEAN
  BY DEF TypeOK
<1>step. ASSUME NEW from, NEW to, Step(d, from, to)
         PROVE /\ worker[d] = from /\ worker'[d] = to
               /\ \A e \in Deployments \ {d} : worker'[e] = worker[e]
  BY <1>step DEF Step, TypeOK
<1>1. CASE MarkRunning(d)
  <2>1. /\ ReportStatus(d, "running", siteURL[d], FALSE)
        /\ Step(d, "start", "pipeline") /\ UNCHANGED <<apps, appOf, nextId, req>>
    BY <1>1 DEF MarkRunning
  <2>2. /\ \A e \in Deployments \ {d} : status'[e] = status[e] /\ siteURL'[e] = siteURL[e]
        /\ \/ status'[d] = status[d] /\ siteURL'[d] = siteURL[d]
           \/ status[d] # "absent" /\ status'[d] = "running" /\ siteURL'[d] = siteURL[d]
        /\ faults' = 0 => /\ faults = 0
                          /\ status[d] # "absent" => status'[d] = "running"
                          /\ status[d] = "absent" => status'[d] = "absent"
    BY <2>1, <1>url, ReportEffect
  <2>3. /\ worker[d] = "start" /\ worker'[d] = "pipeline"
        /\ \A e \in Deployments \ {d} : worker'[e] = worker[e]
    BY <2>1, <1>step
  <2> QED
    BY <2>1, <2>2, <2>3 DEF WorkerEffect
<1>2. CASE PipelineLog(d)
  BY <1>2, LogEffect DEF PipelineLog, WorkerEffect, row
<1>3. CASE PipelineFails(d)
  <2>1. /\ ReportStatus(d, "failed", FALSE, TRUE)
        /\ Step(d, "pipeline", "fail_log") /\ UNCHANGED <<apps, appOf, nextId, req>>
    BY <1>3 DEF PipelineFails
  <2>2. /\ \A e \in Deployments \ {d} : status'[e] = status[e] /\ siteURL'[e] = siteURL[e]
        /\ \/ status'[d] = status[d] /\ siteURL'[d] = siteURL[d]
           \/ status[d] # "absent" /\ status'[d] = "failed" /\ siteURL'[d] = FALSE
        /\ faults' = 0 => /\ faults = 0
                          /\ status[d] # "absent" => status'[d] = "failed"
                          /\ status[d] = "absent" => status'[d] = "absent"
    BY <2>1, <1>url, ReportEffect
  <2>3. /\ worker[d] = "pipeline" /\ worker'[d] = "fail_log"
        /\ \A e \in Deployments \ {d} : worker'[e] = worker[e]
    BY <2>1, <1>step
  <2> QED
    BY <2>1, <2>2, <2>3 DEF WorkerEffect
<1>4. CASE FailLog(d)
  BY <1>4, <1>step, LogEffect DEF FailLog, WorkerEffect, row
<1>5. CASE PipelineSucceeds(d)
  BY <1>5, <1>step, LogEffect DEF PipelineSucceeds, WorkerEffect, row
<1>6. CASE MarkSucceeded(d)
  <2>1. /\ ReportStatus(d, "succeeded", TRUE, TRUE)
        /\ Step(d, "ok_write", "done") /\ UNCHANGED <<apps, appOf, nextId, req>>
    BY <1>6 DEF MarkSucceeded
  <2>2. /\ \A e \in Deployments \ {d} : status'[e] = status[e] /\ siteURL'[e] = siteURL[e]
        /\ \/ status'[d] = status[d] /\ siteURL'[d] = siteURL[d]
           \/ status[d] # "absent" /\ status'[d] = "succeeded" /\ siteURL'[d] = TRUE
        /\ faults' = 0 => /\ faults = 0
                          /\ status[d] # "absent" => status'[d] = "succeeded"
                          /\ status[d] = "absent" => status'[d] = "absent"
    BY <2>1, <1>url, ReportEffect
  <2>3. /\ worker[d] = "ok_write" /\ worker'[d] = "done"
        /\ \A e \in Deployments \ {d} : worker'[e] = worker[e]
    BY <2>1, <1>step
  <2> QED
    BY <2>1, <2>2, <2>3 DEF WorkerEffect
<1>7. CASE PipelineAwaitsSite(d)
  <2>1. /\ ReportStatus(d, "awaiting_site_url", TRUE, TRUE)
        /\ Step(d, "pipeline", "watch_log") /\ UNCHANGED <<apps, appOf, nextId, req>>
    BY <1>7 DEF PipelineAwaitsSite
  <2>2. /\ \A e \in Deployments \ {d} : status'[e] = status[e] /\ siteURL'[e] = siteURL[e]
        /\ \/ status'[d] = status[d] /\ siteURL'[d] = siteURL[d]
           \/ status[d] # "absent" /\ status'[d] = "awaiting_site_url" /\ siteURL'[d] = TRUE
        /\ faults' = 0 => /\ faults = 0
                          /\ status[d] # "absent" => status'[d] = "awaiting_site_url"
                          /\ status[d] = "absent" => status'[d] = "absent"
    BY <2>1, <1>url, ReportEffect
  <2>3. /\ worker[d] = "pipeline" /\ worker'[d] = "watch_log"
        /\ \A e \in Deployments \ {d} : worker'[e] = worker[e]
    BY <2>1, <1>step
  <2> QED
    BY <2>1, <2>2, <2>3 DEF WorkerEffect
<1>8. CASE MonitorLog(d)
  BY <1>8, <1>step, LogEffect DEF MonitorLog, WorkerEffect, row
<1>9. CASE MonitorCheck(d)
  <2>1. faults' = 0 => faults = 0
    BY <1>9 DEF MonitorCheck, Fault, TypeOK
  <2>2. worker[d] = "probe" /\ worker'[d] \in {"confirm", "done"}
    BY <1>9 DEF MonitorCheck, TypeOK
  <2>3. \A e \in Deployments \ {d} : worker'[e] = worker[e]
    BY <1>9 DEF MonitorCheck, TypeOK
  <2> QED
    BY <1>9, <2>1, <2>2, <2>3 DEF MonitorCheck, WorkerEffect, row
<1>10. CASE MonitorConfirm(d)
  <2>1. /\ ReportStatus(d, "succeeded", TRUE, TRUE)
        /\ Step(d, "confirm", "confirm_log") /\ UNCHANGED <<apps, appOf, nextId, req>>
    BY <1>10 DEF MonitorConfirm
  <2>2. /\ \A e \in Deployments \ {d} : status'[e] = status[e] /\ siteURL'[e] = siteURL[e]
        /\ \/ status'[d] = status[d] /\ siteURL'[d] = siteURL[d]
           \/ status[d] # "absent" /\ status'[d] = "succeeded" /\ siteURL'[d] = TRUE
        /\ faults' = 0 => /\ faults = 0
                          /\ status[d] # "absent" => status'[d] = "succeeded"
                          /\ status[d] = "absent" => status'[d] = "absent"
    BY <2>1, <1>url, ReportEffect
  <2>3. /\ worker[d] = "confirm" /\ worker'[d] = "confirm_log"
        /\ \A e \in Deployments \ {d} : worker'[e] = worker[e]
    BY <2>1, <1>step
  <2> QED
    BY <2>1, <2>2, <2>3 DEF WorkerEffect
<1>11. CASE MonitorConfirmLog(d)
  BY <1>11, <1>step, LogEffect DEF MonitorConfirmLog, WorkerEffect, row
<1>12. CASE MonitorTimeout(d)
  BY <1>12, <1>step, LogEffect DEF MonitorTimeout, WorkerEffect, row
<1> QED
  BY <1>1, <1>2, <1>3, <1>4, <1>5, <1>6, <1>7, <1>8, <1>9, <1>10, <1>11, <1>12 DEF WorkerStep

(***************************************************************************)
(* The request steps that touch no row and start nothing.                  *)
(***************************************************************************)
QuietStep(r) ==
  \/ \E a \in Apps : LoadAppForDeploy(r, a) \/ DeleteLoadApp(r, a)
  \/ \E d \in Deployments : RetryRead(r, d) \/ CancelRead(r, d)
  \/ RetryLoadApp(r) \/ CreateDeploymentFails(r) \/ CancelWriteFails(r)
  \/ CancelLog(r) \/ DeleteFails(r)

LEMMA QuietStepEffect ==
  ASSUME TypeOK, NEW r \in Requests, QuietStep(r)
  PROVE  /\ UNCHANGED <<row, worker, nextId>>
         /\ req[r].pc # "trigger" /\ req'[r].pc # "trigger"
         /\ \A q \in Requests \ {r} : req'[q] = req[q]
         /\ faults' = 0 => faults = 0
<1>slot. ASSUME NEW q, req' = [req EXCEPT ![r] = q]
         PROVE  req'[r] = q /\ \A x \in Requests \ {r} : req'[x] = req[x]
  BY <1>slot DEF TypeOK
<1>fin. ASSUME Finish(r)
        PROVE  req'[r].pc = "idle" /\ \A x \in Requests \ {r} : req'[x] = req[x]
  BY <1>fin, <1>slot DEF Finish, Idle
<1>fault. Fault => (faults' = 0 => faults = 0)
  BY DEF Fault, TypeOK
<1>1. CASE \E a \in Apps : LoadAppForDeploy(r, a) \/ DeleteLoadApp(r, a)
  BY <1>1, <1>slot DEF LoadAppForDeploy, DeleteLoadApp, At, row
<1>2. CASE \E d \in Deployments : RetryRead(r, d) \/ CancelRead(r, d)
  BY <1>2, <1>slot DEF RetryRead, CancelRead, At, row
<1>3. CASE RetryLoadApp(r)
  <2>1. CASE \E url \in BOOLEAN : req' = [req EXCEPT ![r].pc = "insert", ![r].url = url]
    <3>1. PICK url \in BOOLEAN : req' = [req EXCEPT ![r].pc = "insert", ![r].url = url]
      BY <2>1
    <3> DEFINE q == [req[r] EXCEPT !.pc = "insert", !.url = url]
    <3>2. req' = [req EXCEPT ![r] = q]
      BY <3>1 DEF TypeOK
    <3>3. q.pc = "insert"
      BY ReqTypes
    <3> HIDE DEF q
    <3> QED
      BY <1>3, <3>2, <3>3, <1>slot DEF RetryLoadApp, At, row
  <2>2. CASE Finish(r)
    BY <1>3, <2>2, <1>fin DEF RetryLoadApp, At, row
  <2> QED
    BY <1>3, <2>1, <2>2 DEF RetryLoadApp
<1>4. CASE CreateDeploymentFails(r)
  BY <1>4, <1>fin, <1>fault DEF CreateDeploymentFails, At, row
<1>5. CASE CancelWriteFails(r)
  BY <1>5, <1>fin, <1>fault DEF CancelWriteFails, At, row
<1>6. CASE CancelLog(r)
  BY <1>6, <1>fin, LogEffect DEF CancelLog, At, row
<1>7. CASE DeleteFails(r)
  BY <1>7, <1>fin DEF DeleteFails, At, row
<1> QED
  BY <1>1, <1>2, <1>3, <1>4, <1>5, <1>6, <1>7 DEF QuietStep

\* The request steps that matter to the rows.
LEMMA CreateEffect ==
  ASSUME TypeOK, NEW r \in Requests, CreateDeployment(r)
  PROVE  /\ nextId \in Deployments /\ nextId' = nextId + 1
         /\ UNCHANGED <<worker, faults>>
         /\ status'[nextId] = "queued"
         /\ \A e \in Deployments \ {nextId} : status'[e] = status[e] /\ siteURL'[e] = siteURL[e]
         /\ req[r].pc = "insert" /\ req'[r].pc = "trigger" /\ req'[r].dep = nextId
         /\ \A q \in Requests \ {r} : req'[q] = req[q]
<1>1. nextId \in Deployments
  BY LifecycleAssumption DEF CreateDeployment, Deployments, TypeOK
<1>2. req'[r] = [req[r] EXCEPT !.pc = "trigger", !.dep = nextId]
  BY DEF CreateDeployment, TypeOK
<1>3. req'[r].pc = "trigger" /\ req'[r].dep = nextId
  BY <1>2, ReqTypes
<1> QED
  BY <1>1, <1>3 DEF CreateDeployment, At, TypeOK

LEMMA TriggerEffect ==
  ASSUME TypeOK, NEW r \in Requests, TriggerDeployment(r)
  PROVE  /\ req[r].pc = "trigger" /\ req[r].dep \in Deployments /\ req'[r].pc = "idle"
         /\ worker'[req[r].dep] = "start"
         /\ \A e \in Deployments \ {req[r].dep} : worker'[e] = worker[e]
         /\ UNCHANGED <<row, nextId>>
         /\ \A q \in Requests \ {r} : req'[q] = req[q]
         /\ faults' = 0 => faults = 0
<1>1. req[r].pc = "trigger" /\ req[r].dep \in Deployments
  BY DEF TriggerDeployment, At, TypeOK, RequestOK
<1>2. faults' = 0 => faults = 0
  BY <1>1, LogEffect DEF TriggerDeployment
<1>3. req'[r] = Idle /\ \A q \in Requests \ {r} : req'[q] = req[q]
  BY DEF TriggerDeployment, Finish, TypeOK
<1> QED
  BY <1>1, <1>2, <1>3 DEF TriggerDeployment, Idle, TypeOK

LEMMA CancelEffect ==
  ASSUME TypeOK, NEW r \in Requests, CancelWrite(r)
  PROVE  /\ req[r].dep \in Deployments
         /\ \A e \in Deployments \ {req[r].dep} : status'[e] = status[e]
         /\ \A e \in Deployments :
               \/ status'[e] = status[e] /\ siteURL'[e] = siteURL[e]
               \/ status[e] # "absent" /\ status'[e] = "canceled"
         /\ req[r].pc # "trigger" /\ req'[r].pc # "trigger"
         /\ \A q \in Requests \ {r} : req'[q] = req[q]
         /\ UNCHANGED <<worker, nextId, faults>>
<1>1. req[r].dep \in Deployments /\ req[r].url \in BOOLEAN
  BY DEF CancelWrite, At, TypeOK, RequestOK
<1>2. /\ \A e \in Deployments \ {req[r].dep} : status'[e] = status[e]
      /\ \A e \in Deployments :
           \/ status'[e] = status[e] /\ siteURL'[e] = siteURL[e]
           \/ status[e] # "absent" /\ status'[e] = "canceled"
  <2> DEFINE d == req[r].dep
  <2>1. d \in Deployments /\ UpdateDeploymentStatus(d, "canceled", req[r].url, TRUE)
    BY <1>1 DEF CancelWrite
  <2>d. d = req[r].dep
    OBVIOUS
  <2> HIDE DEF d
  <2>2. /\ \A e \in Deployments \ {d} : status'[e] = status[e] /\ siteURL'[e] = siteURL[e]
        /\ \/ status[d] = "absent" /\ status'[d] = "absent" /\ siteURL'[d] = siteURL[d]
           \/ status[d] # "absent" /\ status'[d] = "canceled" /\ siteURL'[d] = req[r].url
    BY <1>1, <2>1, UpdateEffect
  <2> QED
    BY <2>2, <2>d
<1>3. req'[r].pc # "trigger" /\ \A q \in Requests \ {r} : req'[q] = req[q]
  <2>1. CASE Finish(r)
    BY <2>1 DEF Finish, Idle, TypeOK
  <2>2. CASE Goto(r, "cancel_log")
    <3>1. req'[r] = [req[r] EXCEPT !.pc = "cancel_log"]
      BY <2>2 DEF Goto, TypeOK
    <3>2. req'[r].pc = "cancel_log"
      BY <3>1, ReqTypes
    <3> QED
      BY <2>2, <3>2 DEF Goto, TypeOK
  <2> QED
    BY <2>1, <2>2 DEF CancelWrite
<1> QED
  BY <1>1, <1>2, <1>3 DEF CancelWrite, At

LEMMA DeleteEffect ==
  ASSUME TypeOK, NEW r \in Requests, DeleteAppForUser(r)
  PROVE  /\ \A e \in Deployments :
               \/ status'[e] = status[e] /\ siteURL'[e] = siteURL[e]
               \/ status'[e] = "absent"
         /\ req[r].pc # "trigger" /\ req'[r].pc # "trigger"
         /\ \A q \in Requests \ {r} : req'[q] = req[q]
         /\ UNCHANGED <<worker, nextId, faults>>
<1> DEFINE gone == RowsOf(req[r].app)
<1>1. /\ status' = [d \in Deployments |-> IF d \in gone THEN "absent" ELSE status[d]]
      /\ siteURL' = [d \in Deployments |-> d \notin gone /\ siteURL[d]]
  BY DEF DeleteAppForUser
<1> HIDE DEF gone
<1>2. ASSUME NEW e \in Deployments, e \notin gone
      PROVE  status'[e] = status[e] /\ siteURL'[e] = siteURL[e]
  <2>1. siteURL'[e] = (e \notin gone /\ siteURL[e])
    BY <1>1
  <2>2. siteURL[e] \in BOOLEAN
    BY DEF TypeOK
  <2> QED
    BY <1>1, <1>2, <2>1, <2>2
<1>3. ASSUME NEW e \in gone, e \in Deployments PROVE status'[e] = "absent"
  BY <1>1, <1>3
<1>4. req' = [req EXCEPT ![r] = Idle] /\ At(r, "teardown")
  BY DEF DeleteAppForUser, Finish
<1>5. /\ req[r].pc # "trigger" /\ req'[r].pc # "trigger"
      /\ \A q \in Requests \ {r} : req'[q] = req[q]
  BY <1>4 DEF At, Idle, TypeOK
<1>6. UNCHANGED <<worker, nextId, faults>>
  BY DEF DeleteAppForUser
<1> QED
  BY <1>2, <1>3, <1>5, <1>6

LEMMA CrashEffect ==
  ASSUME TypeOK, Crash
  PROVE  /\ \A d \in Deployments : worker'[d] = IF worker[d] = "none" THEN "none" ELSE "done"
         /\ \A r \in Requests : req'[r].pc = "idle"
         /\ UNCHANGED <<row, nextId>>
         /\ faults' # 0
BY DEF Crash, Idle, Fault, TypeOK

\* Every step is one of the kinds above.
LEMMA StepKinds ==
  ASSUME [Next]_vars
  PROVE  \/ \E r \in Requests : \/ QuietStep(r)
                               \/ CreateDeployment(r)
                               \/ TriggerDeployment(r)
                               \/ CancelWrite(r)
                               \/ DeleteAppForUser(r)
         \/ \E d \in Deployments : WorkerStep(d)
         \/ Crash
         \/ UNCHANGED vars
BY DEF Next, NewRequest, RequestStep, QuietStep

-----------------------------------------------------------------------------
(***************************************************************************)
(* StartedAtMostOnce is inductive given the types.                         *)
(***************************************************************************)
LEMMA StartedOnceStep ==
  ASSUME TypeOK, TypeOK', StartedAtMostOnce, [Next]_vars
  PROVE  StartedAtMostOnce'
<1> USE DEF StartedAtMostOnce, At
<1>1. ASSUME NEW r \in Requests, QuietStep(r) PROVE StartedAtMostOnce'
  <2>1. /\ UNCHANGED <<row, worker, nextId>>
        /\ req[r].pc # "trigger" /\ req'[r].pc # "trigger"
        /\ \A q \in Requests \ {r} : req'[q] = req[q]
    BY <1>1, QuietStepEffect
  <2> QED
    BY <2>1 DEF row
<1>2. ASSUME NEW r \in Requests, CreateDeployment(r) PROVE StartedAtMostOnce'
  <2>1. /\ nextId \in Deployments /\ nextId' = nextId + 1
        /\ worker' = worker
        /\ \A e \in Deployments \ {nextId} : status'[e] = status[e]
        /\ req'[r].pc = "trigger" /\ req'[r].dep = nextId
        /\ \A q \in Requests \ {r} : req'[q] = req[q]
    BY <1>2, CreateEffect
  <2>2. \A q \in Requests : req[q].pc = "trigger" => req[q].dep < nextId /\ req[q].dep \in Deployments
    BY DEF TypeOK, RequestOK
  <2> QED
    BY <2>1, <2>2 DEF Deployments
<1>3. ASSUME NEW r \in Requests, TriggerDeployment(r) PROVE StartedAtMostOnce'
  <2>1. /\ req[r].pc = "trigger" /\ req[r].dep \in Deployments /\ req'[r].pc = "idle"
        /\ \A e \in Deployments \ {req[r].dep} : worker'[e] = worker[e]
        /\ UNCHANGED <<row, nextId>>
        /\ \A q \in Requests \ {r} : req'[q] = req[q]
    BY <1>3, TriggerEffect
  <2>2. \A q \in Requests : req[q].pc = "trigger" => req[q].dep \in Deployments
    BY DEF TypeOK, RequestOK
  <2> QED
    BY <2>1, <2>2 DEF row, Deployments, TypeOK
<1>4. ASSUME NEW r \in Requests, CancelWrite(r) PROVE StartedAtMostOnce'
  BY <1>4, CancelEffect
<1>5. ASSUME NEW r \in Requests, DeleteAppForUser(r) PROVE StartedAtMostOnce'
  BY <1>5, DeleteEffect
<1>6. ASSUME NEW d \in Deployments, WorkerStep(d) PROVE StartedAtMostOnce'
  <2>1. WorkerEffect(d)
    BY <1>6, WorkerStepEffect
  <2>2. \A q \in Requests : req[q].pc = "trigger" => req[q].dep # d
    BY <2>1 DEF WorkerEffect
  <2>3. /\ UNCHANGED <<nextId, req>>
        /\ \A e \in Deployments \ {d} : worker'[e] = worker[e] /\ status'[e] = status[e]
        /\ ~(d >= nextId)
    BY <2>1 DEF WorkerEffect
  <2>4. \A q \in Requests : req[q].pc = "trigger" => req[q].dep \in Deployments
    BY DEF TypeOK, RequestOK
  <2> QED
    BY <2>2, <2>3, <2>4
<1>7. CASE Crash
  BY <1>7, CrashEffect DEF row
<1>8. CASE UNCHANGED vars
  BY <1>8 DEF vars
<1> QED
  BY <1>1, <1>2, <1>3, <1>4, <1>5, <1>6, <1>7, <1>8, StepKinds

(***************************************************************************)
(* StatusNeverAhead is inductive given the types and StartedAtMostOnce.    *)
(***************************************************************************)
LEMMA NeverAheadStep ==
  ASSUME TypeOK, StartedAtMostOnce, StatusNeverAhead, [Next]_vars
  PROVE  StatusNeverAhead'
<1>1. ASSUME NEW r \in Requests, QuietStep(r) PROVE StatusNeverAhead'
  BY <1>1, QuietStepEffect DEF StatusNeverAhead, row
<1>2. ASSUME NEW r \in Requests, CreateDeployment(r) PROVE StatusNeverAhead'
  BY <1>2, CreateEffect DEF StatusNeverAhead
<1>3. ASSUME NEW r \in Requests, TriggerDeployment(r) PROVE StatusNeverAhead'
  <2>1. /\ req[r].dep \in Deployments /\ worker[req[r].dep] = "none"
        /\ worker'[req[r].dep] = "start"
        /\ \A e \in Deployments \ {req[r].dep} : worker'[e] = worker[e]
        /\ status' = status
    BY <1>3, TriggerEffect DEF StartedAtMostOnce, At, row
  <2>2. PhaseOf(worker'[req[r].dep]) = PhaseOf(worker[req[r].dep])
    BY <2>1 DEF PhaseOf
  <2> QED
    BY <2>1, <2>2 DEF StatusNeverAhead
<1>4. ASSUME NEW r \in Requests, CancelWrite(r) PROVE StatusNeverAhead'
  BY <1>4, CancelEffect DEF StatusNeverAhead
<1>5. ASSUME NEW r \in Requests, DeleteAppForUser(r) PROVE StatusNeverAhead'
  BY <1>5, DeleteEffect DEF StatusNeverAhead
<1>6. ASSUME NEW d \in Deployments, WorkerStep(d) PROVE StatusNeverAhead'
  <2>1. WorkerEffect(d)
    BY <1>6, WorkerStepEffect
  <2> QED
    BY <2>1 DEF StatusNeverAhead, WorkerEffect, PhaseOf
<1>7. CASE Crash
  BY <1>7, CrashEffect DEF StatusNeverAhead, PhaseOf, row
<1>8. CASE UNCHANGED vars
  BY <1>8 DEF StatusNeverAhead, vars
<1> QED
  BY <1>1, <1>2, <1>3, <1>4, <1>5, <1>6, <1>7, <1>8, StepKinds

(***************************************************************************)
(* SucceededHasSiteURL is inductive given the types.                       *)
(***************************************************************************)
LEMMA SiteURLStep ==
  ASSUME TypeOK, SucceededHasSiteURL, [Next]_vars
  PROVE  SucceededHasSiteURL'
<1>1. ASSUME NEW r \in Requests, QuietStep(r) PROVE SucceededHasSiteURL'
  BY <1>1, QuietStepEffect DEF SucceededHasSiteURL, row
<1>2. ASSUME NEW r \in Requests, CreateDeployment(r) PROVE SucceededHasSiteURL'
  BY <1>2, CreateEffect DEF SucceededHasSiteURL
<1>3. ASSUME NEW r \in Requests, TriggerDeployment(r) PROVE SucceededHasSiteURL'
  BY <1>3, TriggerEffect DEF SucceededHasSiteURL, row
<1>4. ASSUME NEW r \in Requests, CancelWrite(r) PROVE SucceededHasSiteURL'
  BY <1>4, CancelEffect DEF SucceededHasSiteURL
<1>5. ASSUME NEW r \in Requests, DeleteAppForUser(r) PROVE SucceededHasSiteURL'
  BY <1>5, DeleteEffect DEF SucceededHasSiteURL
<1>6. ASSUME NEW d \in Deployments, WorkerStep(d) PROVE SucceededHasSiteURL'
  <2>1. WorkerEffect(d)
    BY <1>6, WorkerStepEffect
  <2> QED
    BY <2>1 DEF SucceededHasSiteURL, WorkerEffect
<1>7. CASE Crash
  BY <1>7, CrashEffect DEF SucceededHasSiteURL, row
<1>8. CASE UNCHANGED vars
  BY <1>8 DEF SucceededHasSiteURL, vars
<1> QED
  BY <1>1, <1>2, <1>3, <1>4, <1>5, <1>6, <1>7, <1>8, StepKinds

(***************************************************************************)
(* LiveRowHasOwner is inductive given the other invariants.                *)
(***************************************************************************)
LEMMA LiveOwnerStep ==
  ASSUME TypeOK, StartedAtMostOnce, StatusNeverAhead, LiveRowHasOwner, [Next]_vars
  PROVE  LiveRowHasOwner'
<1> SUFFICES ASSUME faults' = 0, NEW d \in Deployments
             PROVE  /\ status'[d] = "queued" =>
                         \/ worker'[d] = "start"
                         \/ /\ worker'[d] = "none"
                            /\ \E r \in Requests : req'[r].pc = "trigger" /\ req'[r].dep = d
                    /\ status'[d] = "running" => worker'[d] \in {"pipeline", "ok_write"}
  BY DEF LiveRowHasOwner, At
<1> DEFINE Owned == /\ status[d] = "queued" =>
                         \/ worker[d] = "start"
                         \/ /\ worker[d] = "none"
                            /\ \E r \in Requests : req[r].pc = "trigger" /\ req[r].dep = d
                    /\ status[d] = "running" => worker[d] \in {"pipeline", "ok_write"}
<1>owned. faults = 0 => Owned
  BY DEF LiveRowHasOwner, At
<1> HIDE DEF Owned
<1>1. ASSUME NEW r \in Requests, QuietStep(r) PROVE Owned'
  <2>1. /\ UNCHANGED <<status, worker>> /\ faults = 0
        /\ req[r].pc # "trigger"
        /\ \A q \in Requests \ {r} : req'[q] = req[q]
    BY <1>1, QuietStepEffect DEF row
  <2> QED
    BY <2>1, <1>owned DEF Owned
<1>2. ASSUME NEW r \in Requests, CreateDeployment(r) PROVE Owned'
  <2>1. /\ nextId \in Deployments /\ worker' = worker /\ faults = 0
        /\ status'[nextId] = "queued"
        /\ \A e \in Deployments \ {nextId} : status'[e] = status[e]
        /\ req[r].pc = "insert" /\ req'[r].pc = "trigger" /\ req'[r].dep = nextId
        /\ \A q \in Requests \ {r} : req'[q] = req[q]
    BY <1>2, CreateEffect
  <2>2. worker[nextId] = "none"
    BY <2>1 DEF StartedAtMostOnce, Deployments
  <2>3. CASE d = nextId
    BY <2>1, <2>2, <2>3 DEF Owned
  <2>4. CASE d # nextId
    BY <2>1, <2>4, <1>owned DEF Owned
  <2> QED
    BY <2>3, <2>4
<1>3. ASSUME NEW r \in Requests, TriggerDeployment(r) PROVE Owned'
  <2>1. /\ req[r].dep \in Deployments /\ worker[req[r].dep] = "none"
        /\ worker'[req[r].dep] = "start"
        /\ \A e \in Deployments \ {req[r].dep} : worker'[e] = worker[e]
        /\ status' = status /\ faults = 0
        /\ \A q \in Requests \ {r} : req'[q] = req[q]
    BY <1>3, TriggerEffect DEF StartedAtMostOnce, At, row
  <2>2. Owned
    BY <2>1, <1>owned
  <2>3. CASE d = req[r].dep
    BY <2>1, <2>2, <2>3 DEF Owned
  <2>4. CASE d # req[r].dep
    BY <2>1, <2>2, <2>4 DEF Owned
  <2> QED
    BY <2>3, <2>4
<1>4. ASSUME NEW r \in Requests, CancelWrite(r) PROVE Owned'
  <2>1. /\ status'[d] = status[d] \/ status'[d] = "canceled"
        /\ req[r].pc # "trigger"
        /\ \A q \in Requests \ {r} : req'[q] = req[q]
        /\ UNCHANGED worker /\ faults = 0
    BY <1>4, CancelEffect
  <2> QED
    BY <2>1, <1>owned DEF Owned
<1>5. ASSUME NEW r \in Requests, DeleteAppForUser(r) PROVE Owned'
  <2>1. /\ status'[d] = status[d] \/ status'[d] = "absent"
        /\ req[r].pc # "trigger"
        /\ \A q \in Requests \ {r} : req'[q] = req[q]
        /\ UNCHANGED worker /\ faults = 0
    BY <1>5, DeleteEffect
  <2> QED
    BY <2>1, <1>owned DEF Owned
<1>6. ASSUME NEW e \in Deployments, WorkerStep(e) PROVE Owned'
  <2>1. WorkerEffect(e)
    BY <1>6, WorkerStepEffect
  <2>2. Owned /\ req' = req
    BY <2>1, <1>owned DEF WorkerEffect
  <2>3. CASE d = e
    BY <2>1, <2>2, <2>3 DEF Owned, WorkerEffect
  <2>4. CASE d # e
    <3>1. worker'[d] = worker[d] /\ status'[d] = status[d]
      BY <2>1, <2>4 DEF WorkerEffect
    <3> QED
      BY <3>1, <2>2 DEF Owned
  <2> QED
    BY <2>3, <2>4
<1>7. ASSUME Crash PROVE Owned'
  BY <1>7, CrashEffect
<1>8. ASSUME UNCHANGED vars PROVE Owned'
  BY <1>8, <1>owned DEF vars, Owned
<1> QED
  <2>1. Owned'
    BY <1>1, <1>2, <1>3, <1>4, <1>5, <1>6, <1>7, <1>8, StepKinds
  <2> QED
    BY <2>1 DEF Owned

LEMMA IInvInit == Init => IInv
BY TypeInit DEF Init, IInv, StartedAtMostOnce, StatusNeverAhead, LiveRowHasOwner,
                SucceededHasSiteURL, At, Idle

LEMMA IInvStep == IInv /\ [Next]_vars => IInv'
BY TypeStep, StartedOnceStep, NeverAheadStep, LiveOwnerStep, SiteURLStep DEF IInv

LEMMA IInvCorrect == Spec => []IInv
BY IInvInit, IInvStep, PTL DEF Spec

(***************************************************************************)
(* The goroutine of a deployment is started at most once.                  *)
(***************************************************************************)
THEOREM StartsOnce == Spec => []StartedAtMostOnce
<1>1. IInv => StartedAtMostOnce
  BY DEF IInv
<1> QED
  BY <1>1, IInvCorrect, PTL

(***************************************************************************)
(* The status a reader sees never runs ahead of the goroutine, in any      *)
(* interleaving of cancels, retries, deletions, lost writes and crashes.   *)
(***************************************************************************)
THEOREM NeverAhead == Spec => []StatusNeverAhead
<1>1. IInv => StatusNeverAhead
  BY DEF IInv
<1> QED
  BY <1>1, IInvCorrect, PTL

(***************************************************************************)
(* Without faults, whatever is queued or running is somebody's work.       *)
(***************************************************************************)
THEOREM LiveRowsAreOwned == Spec => []LiveRowHasOwner
<1>1. IInv => LiveRowHasOwner
  BY DEF IInv
<1> QED
  BY <1>1, IInvCorrect, PTL

(***************************************************************************)
(* A succeeded or awaiting deployment has the URL of its site.             *)
(***************************************************************************)
THEOREM SucceededIsLinked == Spec => []SucceededHasSiteURL
<1>1. IInv => SucceededHasSiteURL
  BY DEF IInv
<1> QED
  BY <1>1, IInvCorrect, PTL

-----------------------------------------------------------------------------
(***************************************************************************)
(* Refinement: DeployLifecycle implements DeploymentRecord.                *)
(***************************************************************************)
RecordPhase == [d \in Deployments |-> PhaseOf(worker[d])]

LEMMA RefinesInit == Init => Record!Init
BY LifecycleAssumption DEF Init, Record!Init, RecordStatus, PhaseOf, Deployments

\* A step that changes neither rows nor phases stutters.
LEMMA RefinesStutter ==
  ASSUME status' = status, nextId' = nextId,
         \A e \in Deployments : PhaseOf(worker[e])' = PhaseOf(worker[e])
  PROVE  UNCHANGED <<RecordStatus, RecordPhase>>
BY DEF RecordStatus, RecordPhase

\* A report about row d, or a lost one, as the reader sees it.
LEMMA RefinesReport ==
  ASSUME TypeOK, NEW d \in Deployments, NEW reports, NEW from, NEW to,
         reports \subseteq Status \ {"absent"},
         nextId' = nextId,
         \A e \in Deployments \ {d} : worker'[e] = worker[e] /\ status'[e] = status[e],
         status'[d] = status[d] \/ (status'[d] \in reports /\ status[d] # "absent"),
         PhaseOf(worker[d]) = from, PhaseOf(worker'[d]) = to
  PROVE  Record!Report(d, from, to, reports)
<1>1. RecordPhase[d] = from /\ RecordPhase' = [RecordPhase EXCEPT ![d] = to]
  BY DEF RecordPhase
<1>2. CASE status'[d] = status[d]
  <2>1. RecordStatus' = RecordStatus
    BY <1>2 DEF RecordStatus
  <2> QED
    BY <1>1, <2>1 DEF Record!Report, RecordPhase
<1>3. CASE status'[d] \in reports /\ status[d] # "absent"
  <2>1. RecordStatus' = [RecordStatus EXCEPT ![d] = status'[d]]
    BY <1>3 DEF RecordStatus
  <2>2. RecordStatus[d] \notin {"unborn", "deleted"}
    BY <1>3 DEF RecordStatus, TypeOK, Status
  <2> QED
    BY <1>1, <1>3, <2>1, <2>2 DEF Record!Report, Record!Exists, RecordPhase
<1> QED
  BY <1>2, <1>3

LEMMA RefinesWorker ==
  ASSUME TypeOK, NEW d \in Deployments, WorkerStep(d)
  PROVE  Record!Next \/ UNCHANGED <<RecordStatus, RecordPhase>>
<1>eff. WorkerEffect(d)
  BY WorkerStepEffect
<1>frame. /\ nextId' = nextId
          /\ \A e \in Deployments \ {d} : worker'[e] = worker[e] /\ status'[e] = status[e]
          /\ status[d] = "absent" => status'[d] = "absent"
  BY <1>eff DEF WorkerEffect
<1>1. CASE worker[d] = "start" /\ worker'[d] = "pipeline" /\ status'[d] \in {status[d], "running"}
  <2>1. Record!Start(d)
    BY <1>1, <1>frame, RefinesReport DEF Record!Start, PhaseOf, Status
  <2> QED
    BY <2>1 DEF Record!Next
<1>2. CASE /\ worker[d] = "pipeline" /\ worker'[d] = "fail_log"
           /\ status'[d] \in {status[d], "failed"}
  <2>1. Record!Conclude(d)
    BY <1>2, <1>frame, RefinesReport DEF Record!Conclude, PhaseOf, Status
  <2> QED
    BY <2>1 DEF Record!Next
<1>3. CASE worker[d] = "ok_write" /\ worker'[d] = "done" /\ status'[d] \in {status[d], "succeeded"}
  <2>1. Record!Conclude(d)
    BY <1>3, <1>frame, RefinesReport DEF Record!Conclude, PhaseOf, Status
  <2> QED
    BY <2>1 DEF Record!Next
<1>4. CASE /\ worker[d] = "pipeline" /\ worker'[d] = "watch_log"
           /\ status'[d] \in {status[d], "awaiting_site_url"}
  <2>1. Record!Await(d)
    BY <1>4, <1>frame, RefinesReport DEF Record!Await, PhaseOf, Status
  <2> QED
    BY <2>1 DEF Record!Next
<1>5. CASE /\ worker[d] = "confirm" /\ worker'[d] = "confirm_log"
           /\ status'[d] \in {status[d], "succeeded"}
  <2>1. Record!Confirm(d)
    BY <1>5, <1>frame, RefinesReport DEF Record!Confirm, PhaseOf, Status
  <2> QED
    BY <2>1 DEF Record!Next
<1>6. CASE worker[d] = "probe" /\ worker'[d] = "done" /\ status'[d] = status[d]
  <2>1. Record!Confirm(d)
    BY <1>6, <1>frame, RefinesReport DEF Record!Confirm, PhaseOf, Status
  <2> QED
    BY <2>1 DEF Record!Next
<1>7. CASE /\ <<worker[d], worker'[d]>> \in
                {<<"pipeline", "pipeline">>, <<"fail_log", "done">>, <<"pipeline", "ok_write">>,
                 <<"watch_log", "probe">>, <<"probe", "confirm">>, <<"confirm_log", "done">>}
           /\ status'[d] = status[d]
  <2>1. PhaseOf(worker'[d]) = PhaseOf(worker[d])
    BY <1>7 DEF PhaseOf
  <2>2. UNCHANGED <<RecordStatus, RecordPhase>>
    BY <1>7, <1>frame, <2>1 DEF RecordStatus, RecordPhase
  <2> QED
    BY <2>2
<1> QED
  BY <1>eff, <1>1, <1>2, <1>3, <1>4, <1>5, <1>6, <1>7 DEF WorkerEffect

(***************************************************************************)
(* Every step of the code is a step of DeploymentRecord or a stutter.      *)
(***************************************************************************)
LEMMA RefinesStep == IInv /\ [Next]_vars => [Record!Next]_(Record!vars)
<1> SUFFICES ASSUME IInv, [Next]_vars
             PROVE  Record!Next \/ UNCHANGED <<RecordStatus, RecordPhase>>
  BY DEF Record!vars, RecordPhase
<1>type. TypeOK /\ StartedAtMostOnce
  BY DEF IInv
<1>1. ASSUME NEW r \in Requests, QuietStep(r)
      PROVE  UNCHANGED <<RecordStatus, RecordPhase>>
  BY <1>1, <1>type, QuietStepEffect, RefinesStutter DEF row
<1>2. ASSUME NEW r \in Requests, CreateDeployment(r) PROVE Record!Next
  <2>1. /\ nextId \in Deployments /\ nextId' = nextId + 1 /\ worker' = worker
        /\ status'[nextId] = "queued"
        /\ \A e \in Deployments \ {nextId} : status'[e] = status[e]
    BY <1>2, <1>type, CreateEffect
  <2>2. RecordStatus[nextId] = "unborn"
    BY <2>1, <1>type DEF RecordStatus, StartedAtMostOnce, Deployments
  <2>3. RecordStatus' = [RecordStatus EXCEPT ![nextId] = "queued"]
    <3>1. nextId \in Nat /\ \A e \in Deployments : e \in Nat
      BY <2>1, LifecycleAssumption DEF Deployments
    <3>2. \A e \in Deployments \ {nextId} : e < nextId + 1 <=> e < nextId
      BY <3>1
    <3>3. RecordStatus'[nextId] = "queued"
      BY <2>1 DEF RecordStatus
    <3>4. \A e \in Deployments \ {nextId} : RecordStatus'[e] = RecordStatus[e]
      BY <2>1, <3>2 DEF RecordStatus
    <3> QED
      BY <2>1, <3>3, <3>4 DEF RecordStatus
  <2>4. RecordPhase' = RecordPhase
    BY <2>1 DEF RecordPhase
  <2>5. Record!Create(nextId)
    BY <2>2, <2>3, <2>4 DEF Record!Create, RecordPhase
  <2> QED
    BY <2>1, <2>5 DEF Record!Next
<1>3. ASSUME NEW r \in Requests, TriggerDeployment(r)
      PROVE  UNCHANGED <<RecordStatus, RecordPhase>>
  <2>1. /\ req[r].dep \in Deployments /\ worker[req[r].dep] = "none"
        /\ worker'[req[r].dep] = "start"
        /\ \A e \in Deployments \ {req[r].dep} : worker'[e] = worker[e]
        /\ status' = status /\ nextId' = nextId
    BY <1>3, <1>type, TriggerEffect DEF StartedAtMostOnce, At, row
  <2>2. \A e \in Deployments : PhaseOf(worker'[e]) = PhaseOf(worker[e])
    BY <2>1 DEF PhaseOf
  <2> QED
    BY <2>1, <2>2 DEF RecordStatus, RecordPhase
<1>4. ASSUME NEW r \in Requests, CancelWrite(r)
      PROVE  Record!Next \/ UNCHANGED <<RecordStatus, RecordPhase>>
  <2> DEFINE d == req[r].dep
  <2>1. /\ d \in Deployments /\ \A e \in Deployments \ {d} : status'[e] = status[e]
        /\ status'[d] = status[d] \/ (status[d] # "absent" /\ status'[d] = "canceled")
        /\ worker' = worker /\ nextId' = nextId
    BY <1>4, <1>type, CancelEffect
  <2> HIDE DEF d
  <2>2. CASE status'[d] = status[d]
    <3>1. status' = status
      BY <1>4, <1>type, <2>1, <2>2, TypeStep DEF TypeOK
    <3> QED
      BY <2>1, <3>1, RefinesStutter
  <2>3. CASE status[d] # "absent" /\ status'[d] = "canceled"
    <3>1. RecordStatus' = [RecordStatus EXCEPT ![d] = "canceled"] /\ RecordPhase' = RecordPhase
      BY <2>1, <2>3 DEF RecordStatus, RecordPhase
    <3>2. RecordStatus[d] \notin {"unborn", "deleted"}
      BY <2>1, <2>3, <1>type DEF RecordStatus, TypeOK, Status
    <3>3. Record!Cancel(d)
      BY <3>1, <3>2 DEF Record!Cancel, Record!Exists, RecordPhase
    <3> QED
      BY <2>1, <3>3 DEF Record!Next
  <2> QED
    BY <2>1, <2>2, <2>3
<1>5. ASSUME NEW r \in Requests, DeleteAppForUser(r) PROVE Record!Next
  <2> DEFINE D == {e \in Deployments : status'[e] # status[e]}
  <2>1. /\ \A e \in Deployments : status'[e] = status[e] \/ status'[e] = "absent"
        /\ worker' = worker /\ nextId' = nextId
    BY <1>5, <1>type, DeleteEffect
  <2>2. \A e \in D : status[e] # "absent" /\ e < nextId /\ status'[e] = "absent"
    BY <2>1, <1>type DEF StartedAtMostOnce, Deployments, TypeOK
  <2>3. \A e \in D : RecordStatus[e] \notin {"unborn", "deleted"}
    BY <2>2, <1>type DEF RecordStatus, TypeOK, Status
  <2>4. RecordStatus' = [e \in Deployments |-> IF e \in D THEN "deleted" ELSE RecordStatus[e]]
    BY <2>1, <2>2 DEF RecordStatus
  <2>5. RecordPhase' = RecordPhase
    BY <2>1 DEF RecordPhase
  <2>6. D \in SUBSET Deployments
    OBVIOUS
  <2> HIDE DEF D
  <2>7. Record!Remove(D)
    BY <2>3, <2>4, <2>5 DEF Record!Remove, Record!Exists, RecordPhase
  <2> QED
    BY <2>6, <2>7 DEF Record!Next
<1>6. ASSUME NEW d \in Deployments, WorkerStep(d)
      PROVE  Record!Next \/ UNCHANGED <<RecordStatus, RecordPhase>>
  BY <1>6, <1>type, RefinesWorker
<1>7. ASSUME Crash PROVE Record!Next
  <2> DEFINE D == {e \in Deployments : worker[e] # "none"}
  <2>1. /\ \A e \in Deployments : worker'[e] = IF worker[e] = "none" THEN "none" ELSE "done"
        /\ status' = status /\ nextId' = nextId
    BY <1>7, <1>type, CrashEffect DEF row
  <2>2. RecordPhase' = [e \in Deployments |-> IF e \in D THEN "over" ELSE RecordPhase[e]]
    BY <2>1 DEF RecordPhase, PhaseOf
  <2>3. RecordStatus' = RecordStatus
    BY <2>1 DEF RecordStatus
  <2>4. D \in SUBSET Deployments
    OBVIOUS
  <2> HIDE DEF D
  <2>5. Record!GiveUp(D)
    BY <2>2, <2>3 DEF Record!GiveUp, RecordPhase
  <2> QED
    BY <2>4, <2>5 DEF Record!Next
<1>8. ASSUME UNCHANGED vars PROVE UNCHANGED <<RecordStatus, RecordPhase>>
  BY <1>8 DEF vars, RecordStatus, RecordPhase
<1> QED
  BY <1>1, <1>2, <1>3, <1>4, <1>5, <1>6, <1>7, <1>8, StepKinds

(***************************************************************************)
(* The rows and goroutines of the code keep the promise of                 *)
(* DeploymentRecord, for any number of deployments, requests and faults.   *)
(***************************************************************************)
THEOREM LifecycleImplementsRecord == Spec => ImplementsRecord
BY RefinesInit, RefinesStep, IInvCorrect, PTL DEF Spec, ImplementsRecord, Record!Spec
-----------------------------------------------------------------------------
(***************************************************************************)
(* FinishTimeSurvives: an update keeps the finish time of every row, and   *)
(* only the deletion of an application removes one, with its row.          *)
(***************************************************************************)
KeepsFinishTimes == \A d \in Deployments : finishedAt[d] => finishedAt'[d]

LEMMA UpdateKeepsFinishTimes ==
  ASSUME TypeOK, NEW d \in Deployments, NEW s, NEW url, NEW finished,
         UpdateDeploymentStatus(d, s, url, finished)
  PROVE  KeepsFinishTimes
<1>1. CASE status[d] = "absent"
  BY <1>1 DEF UpdateDeploymentStatus, KeepsFinishTimes, row
<1>2. CASE status[d] # "absent"
  <2>1. finishedAt' = [finishedAt EXCEPT ![d] = @ \/ finished]
    BY <1>2 DEF UpdateDeploymentStatus
  <2>2. \A e \in Deployments : e # d => finishedAt'[e] = finishedAt[e]
    BY <2>1 DEF TypeOK
  <2>3. finishedAt'[d] = (finishedAt[d] \/ finished)
    BY <2>1, Zenon DEF TypeOK
  <2> QED
    BY <2>2, <2>3, Zenon DEF KeepsFinishTimes
<1> QED
  BY <1>1, <1>2

LEMMA WorkerKeepsFinishTimes ==
  ASSUME TypeOK, NEW d \in Deployments, WorkerStep(d)
  PROVE  KeepsFinishTimes
<1>1. ASSUME NEW s, NEW url, NEW finished, ReportStatus(d, s, url, finished)
      PROVE  KeepsFinishTimes
  <2>1. CASE UpdateDeploymentStatus(d, s, url, finished)
    BY <2>1, UpdateKeepsFinishTimes
  <2>2. CASE UNCHANGED row
    BY <2>2 DEF KeepsFinishTimes, row
  <2> QED
    BY <1>1, <2>1, <2>2 DEF ReportStatus
<1>2. CASE MarkRunning(d)
  BY <1>2, <1>1 DEF MarkRunning
<1>3. CASE PipelineFails(d)
  BY <1>3, <1>1 DEF PipelineFails
<1>4. CASE MarkSucceeded(d)
  BY <1>4, <1>1 DEF MarkSucceeded
<1>5. CASE PipelineAwaitsSite(d)
  BY <1>5, <1>1 DEF PipelineAwaitsSite
<1>6. CASE MonitorConfirm(d)
  BY <1>6, <1>1 DEF MonitorConfirm
<1>7. CASE UNCHANGED row
  BY <1>7 DEF KeepsFinishTimes, row
<1> QED
  BY <1>2, <1>3, <1>4, <1>5, <1>6, <1>7
  DEF WorkerStep, PipelineLog, FailLog, PipelineSucceeds, MonitorLog, MonitorCheck,
      MonitorConfirmLog, MonitorTimeout

LEMMA FinishTimeStep ==
  ASSUME TypeOK, [Next]_vars, NEW d \in Deployments, finishedAt[d], status'[d] # "absent"
  PROVE  finishedAt'[d]
<1>keep. ASSUME KeepsFinishTimes PROVE finishedAt'[d]
  BY <1>keep DEF KeepsFinishTimes
<1>1. ASSUME NEW r \in Requests, QuietStep(r) PROVE finishedAt'[d]
  BY <1>1, QuietStepEffect DEF row
<1>2. ASSUME NEW r \in Requests, CreateDeployment(r) PROVE finishedAt'[d]
  BY <1>2 DEF CreateDeployment
<1>3. ASSUME NEW r \in Requests, TriggerDeployment(r) PROVE finishedAt'[d]
  BY <1>3 DEF TriggerDeployment, row
<1>4. ASSUME NEW r \in Requests, CancelWrite(r) PROVE finishedAt'[d]
  <2>1. req[r].dep \in Deployments
    BY <1>4, CancelEffect
  <2> QED
    BY <1>4, <1>keep, <2>1, UpdateKeepsFinishTimes DEF CancelWrite
<1>5. ASSUME NEW r \in Requests, DeleteAppForUser(r) PROVE finishedAt'[d]
  <2> DEFINE gone == RowsOf(req[r].app)
  <2>1. /\ status' = [e \in Deployments |-> IF e \in gone THEN "absent" ELSE status[e]]
        /\ finishedAt' = [e \in Deployments |-> e \notin gone /\ finishedAt[e]]
    BY <1>5 DEF DeleteAppForUser
  <2> HIDE DEF gone
  <2>2. d \notin gone
    BY <2>1
  <2> QED
    BY <2>1, <2>2, Zenon
<1>6. ASSUME NEW e \in Deployments, WorkerStep(e) PROVE finishedAt'[d]
  BY <1>6, <1>keep, WorkerKeepsFinishTimes
<1>7. ASSUME Crash PROVE finishedAt'[d]
  BY <1>7 DEF Crash, row
<1>8. ASSUME UNCHANGED vars PROVE finishedAt'[d]
  BY <1>8 DEF vars
<1> QED
  BY <1>1, <1>2, <1>3, <1>4, <1>5, <1>6, <1>7, <1>8, StepKinds

(***************************************************************************)
(* A finish time survives every step that leaves the row in place: the     *)
(* COALESCE in UpdateDeploymentStatus is enough, whoever writes the row.   *)
(***************************************************************************)
THEOREM FinishTimesSurvive == Spec => FinishTimeSurvives
<1>1. TypeOK /\ [Next]_vars =>
        [\A d \in Deployments :
           finishedAt[d] /\ status'[d] # "absent" => finishedAt'[d]]_vars
  BY FinishTimeStep
<1> QED
  BY <1>1, TypeCorrect, PTL DEF Spec, FinishTimeSurvives

-----------------------------------------------------------------------------
(***************************************************************************)
(* What the refinement says to readers of the rows.                        *)
(***************************************************************************)
LEMMA DeletedStays ==
  ASSUME NEW d \in Deployments, [Record!Next]_(Record!vars), RecordStatus[d] = "deleted"
  PROVE  RecordStatus'[d] = "deleted"
<1> USE DEF RecordStatus
<1>1. ASSUME NEW e \in Deployments, Record!Create(e) PROVE RecordStatus'[d] = "deleted"
  BY <1>1 DEF Record!Create
<1>2. ASSUME NEW e \in Deployments, NEW from, NEW to, NEW reports,
             Record!Report(e, from, to, reports)
      PROVE  RecordStatus'[d] = "deleted"
  BY <1>2 DEF Record!Report, Record!Exists
<1>3. ASSUME NEW e \in Deployments, Record!Cancel(e) PROVE RecordStatus'[d] = "deleted"
  BY <1>3 DEF Record!Cancel, Record!Exists
<1>4. ASSUME NEW D \in SUBSET Deployments, Record!Remove(D) \/ Record!GiveUp(D)
      PROVE  RecordStatus'[d] = "deleted"
  BY <1>4 DEF Record!Remove, Record!GiveUp
<1>5. ASSUME UNCHANGED Record!vars PROVE RecordStatus'[d] = "deleted"
  BY <1>5 DEF Record!vars
<1> QED
  BY <1>1, <1>2, <1>3, <1>4, <1>5
  DEF Record!Next, Record!Start, Record!Conclude, Record!Await, Record!Confirm

\* A deployment whose goroutine is over is changed by nobody but users.
LEMMA OverStays ==
  ASSUME NEW d \in Deployments, [Record!Next]_(Record!vars),
         RecordPhase[d] = "over", RecordStatus[d] # "unborn"
  PROVE  RecordStatus'[d] \in {RecordStatus[d], "canceled", "deleted"}
<1> DEFINE Kept == RecordStatus'[d] \in {RecordStatus[d], "canceled", "deleted"}
<1>1. ASSUME NEW e \in Deployments, Record!Create(e) PROVE Kept
  BY <1>1 DEF Record!Create, RecordStatus
<1>2. ASSUME NEW e \in Deployments, NEW from \in {"pending", "working", "watching"}, NEW to,
             NEW reports, Record!Report(e, from, to, reports)
      PROVE  Kept
  <2>1. e # d
    BY <1>2 DEF Record!Report, RecordPhase
  <2> QED
    BY <1>2, <2>1 DEF Record!Report, RecordStatus
<1>3. ASSUME NEW e \in Deployments, Record!Cancel(e) PROVE Kept
  BY <1>3 DEF Record!Cancel, RecordStatus
<1>4. ASSUME NEW D \in SUBSET Deployments, Record!Remove(D) \/ Record!GiveUp(D) PROVE Kept
  BY <1>4 DEF Record!Remove, Record!GiveUp, RecordStatus
<1>5. ASSUME UNCHANGED Record!vars PROVE Kept
  BY <1>5 DEF Record!vars
<1> QED
  BY <1>1, <1>2, <1>3, <1>4, <1>5
  DEF Record!Next, Record!Start, Record!Conclude, Record!Await, Record!Confirm

(***************************************************************************)
(* A concluded deployment, and one nothing works on any more, is only      *)
(* changed by users: canceled, or deleted with its application.            *)
(***************************************************************************)
THEOREM ConclusionsStay == Spec => ConclusionsAreFinal
<1>1. ASSUME IInv, [Next]_vars, TypeOK', NEW d \in Deployments,
             status[d] \in {"succeeded", "failed"} \/ PhaseOf(worker[d]) = "over"
      PROVE  status'[d] \in {status[d], "canceled", "absent"}
  <2>1. PhaseOf(worker[d]) = "over"
    BY <1>1 DEF IInv, StatusNeverAhead
  <2>2. d < nextId
    <3>1. worker[d] # "none"
      BY <2>1 DEF PhaseOf
    <3>2. d \in Nat /\ nextId \in Nat
      BY <1>1, LifecycleAssumption DEF IInv, TypeOK, Deployments
    <3>3. ~(d >= nextId)
      BY <1>1, <3>1 DEF IInv, StartedAtMostOnce
    <3> QED
      BY <3>2, <3>3
  <2>3. [Record!Next]_(Record!vars)
    BY <1>1, RefinesStep
  <2>4. status[d] # "deleted" /\ status[d] # "unborn" /\ status'[d] # "deleted"
    BY <1>1 DEF IInv, TypeOK, Status
  <2>5. CASE status[d] = "absent"
    <3>1. RecordStatus[d] = "deleted"
      BY <2>2, <2>5 DEF RecordStatus
    <3>2. RecordStatus'[d] = "deleted"
      BY <2>3, <3>1, DeletedStays
    <3> QED
      BY <2>4, <3>2 DEF RecordStatus
  <2>6. CASE status[d] # "absent"
    <3>1. RecordStatus[d] = status[d]
      BY <2>6 DEF RecordStatus
    <3>2. RecordStatus'[d] \in {status[d], "canceled", "deleted"}
      BY <2>1, <2>3, <2>4, <3>1, OverStays DEF RecordPhase
    <3> QED
      BY <2>4, <3>2 DEF RecordStatus
  <2> QED
    BY <2>5, <2>6
<1>2. IInv /\ TypeOK' /\ [Next]_vars =>
        [\A d \in Deployments :
           status[d] \in {"succeeded", "failed"} \/ PhaseOf(worker[d]) = "over" =>
             status'[d] \in {status[d], "canceled", "absent"}]_vars
  BY <1>1
<1> QED
  BY <1>2, IInvCorrect, TypeCorrect, PTL DEF Spec, ConclusionsAreFinal

-----------------------------------------------------------------------------
(***************************************************************************)
(* Where the comment that MonitorRespectsCancel quotes is right: a cancel  *)
(* that comes before the monitor looks at the row, or after it is done.    *)
(***************************************************************************)
Unwatched(d) == worker[d] \in {"watch_log", "probe", "fail_log", "confirm_log", "done"}

CanceledForGood(d) == Unwatched(d) /\ status[d] \in {"canceled", "absent"}

LEMMA CanceledStep ==
  ASSUME IInv, TypeOK', [Next]_vars, NEW d \in Deployments, CanceledForGood(d)
  PROVE  CanceledForGood(d)'
<1> USE DEF IInv, CanceledForGood, Unwatched
<1>1. ASSUME NEW r \in Requests, QuietStep(r) PROVE CanceledForGood(d)'
  BY <1>1, QuietStepEffect DEF row
<1>2. ASSUME NEW r \in Requests, CreateDeployment(r) PROVE CanceledForGood(d)'
  <2>1. worker[nextId] = "none"
    BY <1>2, CreateEffect DEF StartedAtMostOnce, TypeOK
  <2> QED
    BY <1>2, <2>1, CreateEffect
<1>3. ASSUME NEW r \in Requests, TriggerDeployment(r) PROVE CanceledForGood(d)'
  <2>1. worker[req[r].dep] = "none"
    BY <1>3, TriggerEffect DEF StartedAtMostOnce, At
  <2> QED
    BY <1>3, <2>1, TriggerEffect DEF row
<1>4. ASSUME NEW r \in Requests, CancelWrite(r) PROVE CanceledForGood(d)'
  BY <1>4, CancelEffect
<1>5. ASSUME NEW r \in Requests, DeleteAppForUser(r) PROVE CanceledForGood(d)'
  BY <1>5, DeleteEffect
<1>6. ASSUME NEW e \in Deployments, WorkerStep(e) PROVE CanceledForGood(d)'
  <2>eff. WorkerEffect(e)
    BY <1>6, WorkerStepEffect
  <2>1. CASE e # d
    BY <2>eff, <2>1 DEF WorkerEffect
  <2>2. CASE e = d
    <3>1. status[d] \notin WaitingStatus
      BY DEF WaitingStatus
    <3>2. worker'[d] # "confirm"
      BY <1>6, <2>2, <3>1
      DEF WorkerStep, MarkRunning, PipelineLog, PipelineFails, FailLog, PipelineSucceeds,
          MarkSucceeded, PipelineAwaitsSite, MonitorLog, MonitorCheck, MonitorConfirm,
          MonitorConfirmLog, MonitorTimeout, Step, TypeOK
    <3> QED
      BY <2>eff, <2>2, <3>2 DEF WorkerEffect
  <2> QED
    BY <2>1, <2>2
<1>7. ASSUME Crash PROVE CanceledForGood(d)'
  BY <1>7, CrashEffect DEF row
<1>8. ASSUME UNCHANGED vars PROVE CanceledForGood(d)'
  BY <1>8 DEF vars
<1> QED
  BY <1>1, <1>2, <1>3, <1>4, <1>5, <1>6, <1>7, <1>8, StepKinds

(***************************************************************************)
(* A deployment canceled before its monitor looks at the row, or after the *)
(* last write of its goroutine, is never shown as anything else again: the *)
(* cancels the code loses come while the pipeline runs, or between the     *)
(* monitor's look and its write.                                           *)
(***************************************************************************)
THEOREM EarlyCancelsHold ==
  ASSUME NEW d \in Deployments
  PROVE  Spec => [](status[d] = "canceled" /\ Unwatched(d) => [](status[d] \in {"canceled", "absent"}))
<1>1. status[d] = "canceled" /\ Unwatched(d) => CanceledForGood(d)
  BY DEF CanceledForGood
<1>2. IInv /\ TypeOK' /\ CanceledForGood(d) /\ [Next]_vars => CanceledForGood(d)'
  BY CanceledStep
<1>3. CanceledForGood(d) => status[d] \in {"canceled", "absent"}
  BY DEF CanceledForGood
<1> QED
  BY <1>1, <1>2, <1>3, IInvCorrect, TypeCorrect, PTL DEF Spec
=============================================================================
