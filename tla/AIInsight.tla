------------------------------- MODULE AIInsight -------------------------------
(***************************************************************************)
(* Insights into deployments (handlers/ai.go and its two providers): the   *)
(* handler loads the deployment, asks the provider as often as it is       *)
(* configured to, falls back to a text of its own, stores what it will     *)
(* answer in the table ai_request_logs, and only then answers.             *)
(*                                                                         *)
(* The provider answers, fails, times out or answers nothing.  The client  *)
(* hangs up, which fails every later call of its request; the application  *)
(* is deleted with its deployments meanwhile; an insert fails; the process *)
(* crashes.                                                                *)
(***************************************************************************)
EXTENDS Naturals

CONSTANTS
  Requests,
  Deployments,
  None,
  ProviderRetries,  \* attempts after the first
  MaxFaults         \* bound on failed inserts and crashes together

\* How the text of an insight was found.
Statuses == {"succeeded", "fallback", "disabled_fallback"}

ASSUME AIInsightAssumption ==
  /\ None \notin Deployments \cup Statuses
  /\ ProviderRetries \in Nat
  /\ MaxFaults \in Nat

VARIABLES
  enabled,  \* the feature is on and its kill switch off, for as long as the process runs
  live,     \* ids in table deployments
  pc,       \* where each request is
  about,    \* the deployment of each
  calls,    \* attempts of each that ended
  status,   \* what each will store: how the text was found
  logs,     \* table ai_request_logs: the status in the row of each, or None
  paid,     \* requests the provider gave a text
  hungUp,   \* requests whose client is gone
  late,     \* requests under way when their deployment was deleted
  faults    \* failed inserts and crashes so far

vars == <<enabled, live, pc, about, calls, status, logs, paid, hungUp, late, faults>>

Attempts == ProviderRetries + 1
UnderWay(r) == pc[r] \in {"ask", "record"}

Init ==
  /\ enabled \in BOOLEAN
  /\ live = Deployments
  /\ pc = [r \in Requests |-> "idle"]
  /\ about = [r \in Requests |-> None]
  /\ calls = [r \in Requests |-> 0]
  /\ status = [r \in Requests |-> None]
  /\ logs = [r \in Requests |-> None]
  /\ paid = {}
  /\ hungUp = {}
  /\ late = {}
  /\ faults = 0

Fault == faults < MaxFaults /\ faults' = faults + 1

Go(r, where) == pc' = [pc EXCEPT ![r] = where]

\* POST /v1/ai/deploy-insights; with the feature off nobody is asked.
PostAIDeployInsights(r) ==
  /\ pc[r] = "idle"
  /\ \E d \in live : about' = [about EXCEPT ![r] = d]
  /\ IF enabled
     THEN Go(r, "ask") /\ UNCHANGED status
     ELSE Go(r, "record") /\ status' = [status EXCEPT ![r] = "disabled_fallback"]
  /\ UNCHANGED <<enabled, live, calls, logs, paid, hungUp, late, faults>>

\* Mutant: a text is the answer only of the last attempt.
GenerateUntilLast(r) ==
  /\ pc[r] = "ask"
  /\ r \notin hungUp
  /\ paid' = paid \cup {r}
  /\ calls' = [calls EXCEPT ![r] = @ + 1]
  /\ IF calls'[r] < Attempts
     THEN UNCHANGED <<pc, status>>
     ELSE Go(r, "record") /\ status' = [status EXCEPT ![r] = "succeeded"]
  /\ UNCHANGED <<enabled, live, about, logs, hungUp, late, faults>>

\* An attempt gives a text within its time; it is the answer.
Generate(r) ==
  /\ pc[r] = "ask"
  /\ r \notin hungUp
  /\ paid' = paid \cup {r}
  /\ calls' = [calls EXCEPT ![r] = @ + 1]
  /\ status' = [status EXCEPT ![r] = "succeeded"]
  /\ Go(r, "record")
  /\ UNCHANGED <<enabled, live, about, logs, hungUp, late, faults>>

\* Mutant: the first attempt counts as a retry.
OneAttemptTooFew(r) ==
  /\ pc[r] = "ask"
  /\ calls' = [calls EXCEPT ![r] = @ + 1]
  /\ IF calls'[r] < ProviderRetries
     THEN UNCHANGED <<pc, status>>
     ELSE Go(r, "record") /\ status' = [status EXCEPT ![r] = "fallback"]
  /\ UNCHANGED <<enabled, live, about, logs, paid, hungUp, late, faults>>

\* Mutant: one attempt too many.
OneAttemptTooMany(r) ==
  /\ pc[r] = "ask"
  /\ calls' = [calls EXCEPT ![r] = @ + 1]
  /\ IF calls'[r] <= Attempts
     THEN UNCHANGED <<pc, status>>
     ELSE Go(r, "record") /\ status' = [status EXCEPT ![r] = "fallback"]
  /\ UNCHANGED <<enabled, live, about, logs, paid, hungUp, late, faults>>

\* Mutant: an attempt that fails is not counted.
RetryForever(r) ==
  /\ pc[r] = "ask"
  /\ UNCHANGED vars

\* An attempt fails, runs out of its time or gives an empty text; after the
\* last one the handler falls back.
AttemptFails(r) ==
  /\ pc[r] = "ask"
  /\ calls' = [calls EXCEPT ![r] = @ + 1]
  /\ IF calls'[r] < Attempts
     THEN UNCHANGED <<pc, status>>
     ELSE Go(r, "record") /\ status' = [status EXCEPT ![r] = "fallback"]
  /\ UNCHANGED <<enabled, live, about, logs, paid, hungUp, late, faults>>

\* The row is stored, whether or not its deployment is still there, and the
\* insight is answered.
CreateAIRequestLog(r) ==
  /\ pc[r] = "record"
  /\ r \notin hungUp
  /\ logs' = [logs EXCEPT ![r] = status[r]]
  /\ Go(r, "ok")
  /\ UNCHANGED <<enabled, live, about, calls, status, paid, hungUp, late, faults>>

\* Mutant: an error of the insert is ignored.
AnswerWithoutRecord(r) ==
  /\ pc[r] = "record"
  /\ (r \in hungUp /\ UNCHANGED faults) \/ Fault
  /\ Go(r, "ok")
  /\ UNCHANGED <<enabled, live, about, calls, status, logs, paid, hungUp, late>>

\* Without the row the answer is 500, and the insight is dropped.
RecordFails(r) ==
  /\ pc[r] = "record"
  /\ (r \in hungUp /\ UNCHANGED faults) \/ Fault
  /\ Go(r, "error")
  /\ UNCHANGED <<enabled, live, about, calls, status, logs, paid, hungUp, late>>

HangUp(r) ==
  /\ UnderWay(r)
  /\ r \notin hungUp
  /\ hungUp' = hungUp \cup {r}
  /\ UNCHANGED <<enabled, live, pc, about, calls, status, logs, paid, late, faults>>

\* Mutant: the rows stay.
DeleteKeepsLogs(d) ==
  /\ d \in live
  /\ live' = live \ {d}
  /\ late' = late \cup {r \in Requests : UnderWay(r) /\ about[r] = d}
  /\ UNCHANGED <<enabled, pc, about, calls, status, logs, paid, hungUp, faults>>

\* A deployment goes with its application, and its rows in one transaction.
DeleteDeployment(d) ==
  /\ d \in live
  /\ live' = live \ {d}
  /\ logs' = [r \in Requests |-> IF about[r] = d THEN None ELSE logs[r]]
  /\ late' = late \cup {r \in Requests : UnderWay(r) /\ about[r] = d}
  /\ UNCHANGED <<enabled, pc, about, calls, status, paid, hungUp, faults>>

\* A crash ends every request; the next process may be configured otherwise.
Crash ==
  /\ Fault
  /\ pc' = [r \in Requests |-> IF UnderWay(r) THEN "lost" ELSE pc[r]]
  /\ enabled' \in BOOLEAN
  /\ UNCHANGED <<live, about, calls, status, logs, paid, hungUp, late>>

Step(r) ==
  \/ Generate(r) \/ AttemptFails(r) \/ CreateAIRequestLog(r) \/ RecordFails(r)

Next ==
  \/ \E r \in Requests : PostAIDeployInsights(r) \/ Step(r) \/ HangUp(r)
  \/ \E d \in Deployments : DeleteDeployment(d)
  \/ Crash

Spec == Init /\ [][Next]_vars

\* Every attempt has a deadline of its own, so a handler never stops for good.
Fairness == \A r \in Requests : WF_vars(Step(r))
FairSpec == Spec /\ Fairness

-----------------------------------------------------------------------------
\* Types; and no request asks the provider more often than it may.
TypeOK ==
  /\ enabled \in BOOLEAN
  /\ live \subseteq Deployments
  /\ pc \in [Requests -> {"idle", "ask", "record", "ok", "error", "lost"}]
  /\ about \in [Requests -> {None} \cup Deployments]
  /\ calls \in [Requests -> 0 .. Attempts]
  /\ status \in [Requests -> {None} \cup Statuses]
  /\ logs \in [Requests -> {None} \cup Statuses]
  /\ paid \subseteq Requests
  /\ hungUp \subseteq Requests
  /\ late \subseteq Requests
  /\ faults \in 0 .. MaxFaults

(***************************************************************************)
(* What the table says of a request is what happened to it: a fallback was *)
(* used only when every attempt allowed was made and none gave a text, and *)
(* with the feature off nobody was asked.                                  *)
(***************************************************************************)
LogTellsWhatHappened ==
  \A r \in Requests :
    /\ logs[r] = "succeeded" => r \in paid
    /\ logs[r] = "fallback" => r \notin paid /\ calls[r] = Attempts
    /\ logs[r] = "disabled_fallback" => calls[r] = 0

\* A client that has an insight finds it in the table, until the application
\* is deleted.
AnswerIsOnRecord ==
  \A r \in Requests : pc[r] = "ok" => logs[r] # None \/ about[r] \notin live

(***************************************************************************)
(* A text the provider gave is lost only to a client that hung up, a       *)
(* failed insert, a crash, or the deletion of the application.             *)
(***************************************************************************)
PaidTextSurvives ==
  \A r \in paid : pc[r] # "record" =>
    \/ logs[r] = "succeeded"
    \/ r \in hungUp
    \/ faults > 0
    \/ about[r] \notin live

\* Of a deleted deployment only rows remain whose requests were under way
\* when it was deleted.
OnlyLateRowsRemain ==
  \A r \in Requests : logs[r] # None /\ about[r] \notin live => r \in late

\* Every request ends, whatever the provider does.
EveryRequestEnds == \A r \in Requests : UnderWay(r) ~> ~UnderWay(r)
=============================================================================
