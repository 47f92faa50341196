-------------------------- MODULE DeploymentRecord --------------------------
(***************************************************************************)
(* What a deployment record promises to whoever reads it.                  *)
(*                                                                         *)
(* One goroutine works on a deployment.  It reports at most one start, then *)
(* at most one conclusion, and a deployment concluded as "awaiting" may get *)
(* one late confirmation.  The reports arrive in that order, any of them    *)
(* may be missing, and the goroutine may give up between two of them.      *)
(* Around it a user may cancel, which overwrites whatever the row says, and *)
(* the application may be deleted, which removes the row for ever.         *)
(*                                                                         *)
(* This is all that DeployLifecycle implements: the code writes a status   *)
(* without looking at the one it replaces, so nothing stronger (such as    *)
(* "canceled is final") is true of it.                                     *)
(***************************************************************************)
CONSTANT Deployments   \* the identifiers of deployment rows

VARIABLES
  status,              \* what the row says
  phase                \* how far the goroutine of the deployment has come

vars == <<status, phase>>

Phase == {"pending", "working", "watching", "over"}
Status == {"unborn", "queued", "running", "awaiting_site_url", "succeeded",
           "failed", "canceled", "deleted"}

Exists(d) == status[d] \notin {"unborn", "deleted"}

Init ==
  /\ status = [d \in Deployments |-> "unborn"]
  /\ phase = [d \in Deployments |-> "pending"]

Create(d) ==
  /\ status[d] = "unborn"
  /\ status' = [status EXCEPT ![d] = "queued"]
  /\ UNCHANGED phase

(***************************************************************************)
(* The goroutine moves from one phase to the next and reports one of the   *)
(* statuses in reports, unless the report is lost or the row is gone.      *)
(***************************************************************************)
Report(d, from, to, reports) ==
  /\ phase[d] = from
  /\ phase' = [phase EXCEPT ![d] = to]
  /\ \/ /\ Exists(d)
        /\ \E s \in reports : status' = [status EXCEPT ![d] = s]
     \/ UNCHANGED status

Start(d)    == Report(d, "pending", "working", {"running"})
Conclude(d) == Report(d, "working", "over", {"succeeded", "failed"})
Await(d)    == Report(d, "working", "watching", {"awaiting_site_url"})
Confirm(d)  == Report(d, "watching", "over", {"succeeded"})

Cancel(d) ==
  /\ Exists(d)
  /\ status' = [status EXCEPT ![d] = "canceled"]
  /\ UNCHANGED phase

\* The application the rows D belong to is deleted.
Remove(D) ==
  /\ \A d \in D : Exists(d)
  /\ status' = [d \in Deployments |-> IF d \in D THEN "deleted" ELSE status[d]]
  /\ UNCHANGED phase

\* The goroutines of D are lost with the process.
GiveUp(D) ==
  /\ phase' = [d \in Deployments |-> IF d \in D THEN "over" ELSE phase[d]]
  /\ UNCHANGED status

Next ==
  \/ \E d \in Deployments :
       \/ Create(d)
       \/ Start(d)
       \/ Conclude(d)
       \/ Await(d)
       \/ Confirm(d)
       \/ Cancel(d)
  \/ \E D \in SUBSET Deployments : Remove(D) \/ GiveUp(D)

Spec == Init /\ [][Next]_vars

TypeOK ==
  /\ status \in [Deployments -> Status]
  /\ phase \in [Deployments -> Phase]
=============================================================================
