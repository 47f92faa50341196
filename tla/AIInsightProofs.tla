---------------------------- MODULE AIInsightProofs ----------------------------
(***************************************************************************)
(* Proofs about AIInsight for any number of requests and deployments, any  *)
(* number of retries and any faults: types, the four invariants about the  *)
(* table ai_request_logs, and that handlers run out of steps.              *)
(***************************************************************************)
EXTENDS AIInsight, TLAPS

\* What status s may be stored for request r.
Honest(r, s) ==
  /\ s = "succeeded" => r \in paid
  /\ s = "fallback" => r \notin paid /\ calls[r] = Attempts
  /\ s = "disabled_fallback" => r \notin paid /\ calls[r] = 0

\* Request r asks on only as long as it has no text and attempts left; what it
\* is going to store and what it stored are honest; and it is about a deployment.
RequestOK(r) ==
  /\ pc[r] # "idle" => about[r] \in Deployments
  /\ pc[r] \in {"idle", "ask"} => r \notin paid /\ calls[r] < Attempts
  /\ pc[r] = "idle" => calls[r] = 0
  /\ pc[r] = "record" => status[r] \in Statuses /\ Honest(r, status[r])
  /\ logs[r] # None => pc[r] = "ok"
  /\ Honest(r, logs[r])
  /\ UnderWay(r) /\ about[r] \notin live => r \in late

IInv ==
  /\ TypeOK
  /\ \A r \in Requests : RequestOK(r)
  /\ AnswerIsOnRecord
  /\ PaidTextSurvives
  /\ OnlyLateRowsRemain

-----------------------------------------------------------------------------
(***************************************************************************)
(* The types.                                                              *)
(***************************************************************************)
LEMMA AttemptsNat == Attempts \in Nat /\ Attempts > 0
BY AIInsightAssumption DEF Attempts

LEMMA FaultTypes == ASSUME TypeOK, Fault PROVE faults' \in 0 .. MaxFaults /\ faults' > 0
BY AIInsightAssumption DEF Fault, TypeOK

LEMMA InitIInv == Init => IInv
<1> SUFFICES ASSUME Init PROVE IInv
  OBVIOUS
<1>1. TypeOK
  BY AttemptsNat, AIInsightAssumption DEF Init, TypeOK
<1>2. ASSUME NEW r \in Requests PROVE RequestOK(r)
  BY AttemptsNat, AIInsightAssumption DEF Init, RequestOK, Honest, UnderWay, Statuses
<1>3. AnswerIsOnRecord /\ PaidTextSurvives /\ OnlyLateRowsRemain
  BY DEF Init, AnswerIsOnRecord, PaidTextSurvives, OnlyLateRowsRemain
<1> QED
  BY <1>1, <1>2, <1>3 DEF IInv
-----------------------------------------------------------------------------
(***************************************************************************)
(* One request moves; the others, and what is said of them, stay.          *)
(***************************************************************************)
Same(q) ==
  /\ pc'[q] = pc[q] /\ about'[q] = about[q] /\ calls'[q] = calls[q]
  /\ status'[q] = status[q] /\ logs'[q] = logs[q]
  /\ q \in paid' <=> q \in paid
  /\ q \in hungUp => q \in hungUp'
  /\ q \in late => q \in late'
  /\ q \in Requests

\* What the three invariants about the table say of one request.
TableOK(r) ==
  /\ pc[r] = "ok" => logs[r] # None \/ about[r] \notin live
  /\ r \in paid /\ pc[r] # "record" =>
       \/ logs[r] = "succeeded" \/ r \in hungUp \/ faults > 0 \/ about[r] \notin live
  /\ logs[r] # None /\ about[r] \notin live => r \in late

LEMMA TableIsAll ==
  TypeOK => ((\A r \in Requests : TableOK(r))
               <=> AnswerIsOnRecord /\ PaidTextSurvives /\ OnlyLateRowsRemain)
BY DEF TypeOK, TableOK, AnswerIsOnRecord, PaidTextSurvives, OnlyLateRowsRemain

LEMMA TableIsAllNext ==
  TypeOK' /\ (\A r \in Requests : TableOK(r)')
    => AnswerIsOnRecord' /\ PaidTextSurvives' /\ OnlyLateRowsRemain'
BY DEF TypeOK, TableOK, AnswerIsOnRecord, PaidTextSurvives, OnlyLateRowsRemain

LEMMA SameKeeps ==
  ASSUME NEW q \in Requests, Same(q), live' = live, faults > 0 => faults' > 0,
         RequestOK(q), TableOK(q)
  PROVE  RequestOK(q)' /\ TableOK(q)'
BY DEF Same, RequestOK, TableOK, Honest, UnderWay, Attempts

LEMMA StepIInv == IInv /\ [Next]_vars => IInv'
<1> SUFFICES ASSUME IInv, [Next]_vars PROVE TypeOK' /\ \A r \in Requests : RequestOK(r)' /\ TableOK(r)'
  BY TableIsAllNext DEF IInv
<1> USE AttemptsNat, AIInsightAssumption
<1>was. TypeOK /\ \A r \in Requests : RequestOK(r) /\ TableOK(r)
  BY TableIsAll DEF IInv
<1>1. ASSUME NEW r \in Requests, PostAIDeployInsights(r)
      PROVE  TypeOK' /\ \A q \in Requests : RequestOK(q)' /\ TableOK(q)'
  <2>1. TypeOK'
    BY <1>1, <1>was DEF PostAIDeployInsights, Go, TypeOK, Statuses
  <2>2. RequestOK(r)' /\ TableOK(r)'
    BY <1>1, <1>was DEF PostAIDeployInsights, Go, TypeOK, RequestOK, TableOK, Honest, UnderWay, Attempts, Statuses
  <2>3. ASSUME NEW q \in Requests \ {r} PROVE Same(q)
    BY <1>1, <1>was DEF PostAIDeployInsights, Go, TypeOK, Same
  <2> QED
    BY <1>1, <1>was, <2>1, <2>2, <2>3, SameKeeps DEF PostAIDeployInsights
<1>2. ASSUME NEW r \in Requests, Generate(r)
      PROVE  TypeOK' /\ \A q \in Requests : RequestOK(q)' /\ TableOK(q)'
  <2>1. TypeOK'
    BY <1>2, <1>was DEF Generate, Go, TypeOK, RequestOK, Statuses
  <2>2. RequestOK(r)' /\ TableOK(r)'
    BY <1>2, <1>was DEF Generate, Go, TypeOK, RequestOK, TableOK, Honest, UnderWay, Attempts, Statuses
  <2>3. ASSUME NEW q \in Requests \ {r} PROVE Same(q)
    BY <1>2, <1>was DEF Generate, Go, TypeOK, Same
  <2> QED
    BY <1>2, <1>was, <2>1, <2>2, <2>3, SameKeeps DEF Generate
<1>3. ASSUME NEW r \in Requests, AttemptFails(r)
      PROVE  TypeOK' /\ \A q \in Requests : RequestOK(q)' /\ TableOK(q)'
  <2>1. TypeOK'
    BY <1>3, <1>was DEF AttemptFails, Go, TypeOK, RequestOK, Statuses
  <2>2. RequestOK(r)' /\ TableOK(r)'
    BY <1>3, <1>was DEF AttemptFails, Go, TypeOK, RequestOK, TableOK, Honest, UnderWay, Attempts, Statuses
  <2>3. ASSUME NEW q \in Requests \ {r} PROVE Same(q)
    BY <1>3, <1>was DEF AttemptFails, Go, TypeOK, Same
  <2> QED
    BY <1>3, <1>was, <2>1, <2>2, <2>3, SameKeeps DEF AttemptFails
<1>4. ASSUME NEW r \in Requests, CreateAIRequestLog(r)
      PROVE  TypeOK' /\ \A q \in Requests : RequestOK(q)' /\ TableOK(q)'
  <2>1. TypeOK'
    BY <1>4, <1>was DEF CreateAIRequestLog, Go, TypeOK, RequestOK, Statuses
  <2>2. RequestOK(r)' /\ TableOK(r)'
    BY <1>4, <1>was DEF CreateAIRequestLog, Go, TypeOK, RequestOK, TableOK, Honest, UnderWay, Attempts, Statuses
  <2>3. ASSUME NEW q \in Requests \ {r} PROVE Same(q)
    BY <1>4, <1>was DEF CreateAIRequestLog, Go, TypeOK, Same
  <2> QED
    BY <1>4, <1>was, <2>1, <2>2, <2>3, SameKeeps DEF CreateAIRequestLog
<1>5. ASSUME NEW r \in Requests, RecordFails(r)
      PROVE  TypeOK' /\ \A q \in Requests : RequestOK(q)' /\ TableOK(q)'
  <2>1. TypeOK'
    BY <1>5, <1>was, FaultTypes DEF RecordFails, Go, TypeOK, RequestOK, Statuses
  <2>2. RequestOK(r)' /\ TableOK(r)'
    BY <1>5, <1>was, FaultTypes DEF RecordFails, Go, TypeOK, RequestOK, TableOK, Honest, UnderWay, Attempts, Statuses
  <2>3. ASSUME NEW q \in Requests \ {r} PROVE Same(q)
    BY <1>5, <1>was DEF RecordFails, Go, TypeOK, Same
  <2> QED
    BY <1>5, <1>was, <2>1, <2>2, <2>3, SameKeeps, FaultTypes DEF RecordFails
<1>6. ASSUME NEW r \in Requests, HangUp(r)
      PROVE  TypeOK' /\ \A q \in Requests : RequestOK(q)' /\ TableOK(q)'
  <2>1. TypeOK'
    BY <1>6, <1>was DEF HangUp, Go, TypeOK, RequestOK, Statuses
  <2>2. RequestOK(r)' /\ TableOK(r)'
    BY <1>6, <1>was DEF HangUp, Go, TypeOK, RequestOK, TableOK, Honest, UnderWay, Attempts, Statuses
  <2>3. ASSUME NEW q \in Requests \ {r} PROVE Same(q)
    BY <1>6, <1>was DEF HangUp, Go, TypeOK, Same
  <2> QED
    BY <1>6, <1>was, <2>1, <2>2, <2>3, SameKeeps DEF HangUp
<1>7. ASSUME NEW d \in Deployments, DeleteDeployment(d)
      PROVE  TypeOK' /\ \A q \in Requests : RequestOK(q)' /\ TableOK(q)'
  <2>1. TypeOK'
    BY <1>7, <1>was DEF DeleteDeployment, TypeOK
  <2>2. ASSUME NEW q \in Requests PROVE RequestOK(q)' /\ TableOK(q)'
    BY <1>7, <1>was, AIInsightAssumption
       DEF DeleteDeployment, TypeOK, RequestOK, TableOK, Honest, UnderWay, Attempts, Statuses
  <2> QED
    BY <2>1, <2>2
<1>8. ASSUME Crash PROVE TypeOK' /\ \A q \in Requests : RequestOK(q)' /\ TableOK(q)'
  <2>1. TypeOK'
    BY <1>8, <1>was, FaultTypes DEF Crash, TypeOK
  <2>2. ASSUME NEW q \in Requests PROVE RequestOK(q)' /\ TableOK(q)'
    BY <1>8, <1>was, FaultTypes
       DEF Crash, TypeOK, RequestOK, TableOK, Honest, UnderWay, Attempts, Statuses
  <2> QED
    BY <2>1, <2>2
<1>9. ASSUME UNCHANGED vars PROVE TypeOK' /\ \A q \in Requests : RequestOK(q)' /\ TableOK(q)'
  <2>1. TypeOK'
    BY <1>9, <1>was DEF vars, TypeOK
  <2>2. ASSUME NEW q \in Requests PROVE Same(q)
    BY <1>9 DEF vars, Same
  <2> QED
    BY <1>9, <1>was, <2>1, <2>2, SameKeeps DEF vars
<1> QED
  BY <1>1, <1>2, <1>3, <1>4, <1>5, <1>6, <1>7, <1>8, <1>9 DEF Next, Step

LEMMA IInvCorrect == Spec => []IInv
BY InitIInv, StepIInv, PTL DEF Spec

-----------------------------------------------------------------------------
\* Every variable of AIInsight has its type.
THEOREM TypeCorrect == Spec => []TypeOK
<1>1. IInv => TypeOK
  BY DEF IInv
<1> QED
  BY <1>1, IInvCorrect, PTL

\* The stored status of a request tells how its text was found.
THEOREM LogsAreHonest == Spec => []LogTellsWhatHappened
<1>1. IInv => LogTellsWhatHappened
  BY DEF IInv, RequestOK, Honest, LogTellsWhatHappened
<1> QED
  BY <1>1, IInvCorrect, PTL

\* Whoever was answered has a row, until the application is deleted.
THEOREM AnswersAreOnRecord == Spec => []AnswerIsOnRecord
<1>1. IInv => AnswerIsOnRecord
  BY DEF IInv
<1> QED
  BY <1>1, IInvCorrect, PTL

\* A text that was paid for is stored, or one of four things went wrong.
THEOREM PaidTextsSurvive == Spec => []PaidTextSurvives
<1>1. IInv => PaidTextSurvives
  BY DEF IInv
<1> QED
  BY <1>1, IInvCorrect, PTL

\* Rows outlive their deployment only by requests it was deleted under.
THEOREM OnlyLateRowsStay == Spec => []OnlyLateRowsRemain
<1>1. IInv => OnlyLateRowsRemain
  BY DEF IInv
<1> QED
  BY <1>1, IInvCorrect, PTL

-----------------------------------------------------------------------------
\* How many steps the handler of request r has left, at most.
Left(r) ==
  CASE pc[r] = "idle"   -> Attempts + 2
    [] pc[r] = "ask"    -> Attempts - calls[r] + 1
    [] pc[r] = "record" -> 1
    [] OTHER            -> 0

(***************************************************************************)
(* What a request may still do: at most one attempt after the other, then  *)
(* one answer.  Nothing that happens to it or to the other requests gives  *)
(* it more, and every step of its handler leaves it less: a handler that   *)
(* goes on comes to an end after at most Attempts + 1 steps.  (That it     *)
(* goes on is the fairness EveryRequestEnds assumes.)                      *)
(***************************************************************************)
RequestsAdvance ==
  [][\A r \in Requests : Left(r)' <= Left(r) /\ (Step(r) => Left(r)' < Left(r))]_vars

LEMMA LeftBounds ==
  ASSUME IInv, NEW r \in Requests
  PROVE  Left(r) \in 0 .. Attempts + 2 /\ (UnderWay(r) <=> Left(r) \in 1 .. Attempts + 1)
<1>1. /\ pc[r] \in {"idle", "ask", "record", "ok", "error", "lost"}
      /\ calls[r] \in 0 .. Attempts
      /\ pc[r] = "ask" => calls[r] < Attempts
  BY DEF IInv, TypeOK, RequestOK
<1>2. Attempts \in Nat /\ Attempts > 0
  BY AttemptsNat
<1> QED
  BY <1>1, <1>2 DEF Left, UnderWay

LEMMA MoveAdvances ==
  ASSUME IInv, NEW r \in Requests, PostAIDeployInsights(r) \/ Step(r) \/ HangUp(r)
  PROVE  /\ Left(r)' <= Left(r) /\ (Step(r) => Left(r)' < Left(r))
         /\ \A q \in Requests \ {r} : Left(q)' = Left(q)
<1>1. /\ pc[r] \in {"idle", "ask", "record", "ok", "error", "lost"}
      /\ calls[r] \in 0 .. Attempts
      /\ pc[r] \in {"idle", "ask"} => calls[r] < Attempts
      /\ pc[r] = "idle" => calls[r] = 0
      /\ pc \in [Requests -> {"idle", "ask", "record", "ok", "error", "lost"}]
      /\ calls \in [Requests -> 0 .. Attempts]
  BY DEF IInv, TypeOK, RequestOK
<1>2. Attempts \in Nat /\ Attempts > 0 /\ Attempts' = Attempts
  BY AttemptsNat DEF Attempts
<1>3. \A q \in Requests \ {r} : pc'[q] = pc[q] /\ calls'[q] = calls[q]
  BY <1>1 DEF PostAIDeployInsights, Step, Generate, AttemptFails, CreateAIRequestLog,
              RecordFails, HangUp, Go
<1>4. \A q \in Requests \ {r} : Left(q)' = Left(q)
  BY <1>2, <1>3 DEF Left
<1>5. CASE PostAIDeployInsights(r)
  <2>1. pc[r] = "idle" /\ pc'[r] \in {"ask", "record"} /\ calls'[r] = calls[r]
    BY <1>1, <1>5 DEF PostAIDeployInsights, Go
  <2>2. ~Step(r)
    BY <2>1 DEF Step, Generate, AttemptFails, CreateAIRequestLog, RecordFails
  <2> QED BY <1>1, <1>2, <1>4, <2>1, <2>2 DEF Left
<1>6. CASE Generate(r) \/ AttemptFails(r)
  <2>1. /\ pc[r] = "ask" /\ pc'[r] \in {"ask", "record"} /\ calls'[r] = calls[r] + 1
        /\ pc'[r] = "ask" => calls'[r] < Attempts
    BY <1>1, <1>2, <1>6 DEF Generate, AttemptFails, Go
  <2> QED BY <1>1, <1>2, <1>4, <2>1 DEF Left
<1>7. CASE CreateAIRequestLog(r) \/ RecordFails(r)
  <2>1. pc[r] = "record" /\ pc'[r] \in {"ok", "error"}
    BY <1>1, <1>7 DEF CreateAIRequestLog, RecordFails, Go
  <2> QED BY <1>4, <2>1 DEF Left
<1>8. CASE HangUp(r)
  <2>1. pc' = pc /\ calls' = calls /\ r \notin hungUp /\ hungUp' = hungUp \cup {r}
    BY <1>8 DEF HangUp
  <2>2. ~Step(r)
    BY <2>1 DEF Step, Generate, AttemptFails, CreateAIRequestLog, RecordFails
  <2>3. Left(r)' = Left(r) /\ Left(r) \in 0 .. Attempts + 2
    BY <1>2, <2>1, LeftBounds DEF Left
  <2> QED BY <1>2, <1>4, <2>2, <2>3
<1> QED
  BY <1>5, <1>6, <1>7, <1>8 DEF Step

\* Every request's handler runs out of steps, whatever the provider does.
THEOREM RequestsRunOut == Spec => RequestsAdvance
<1>1. ASSUME IInv, [Next]_vars
      PROVE  [\A r \in Requests : Left(r)' <= Left(r) /\ (Step(r) => Left(r)' < Left(r))]_vars
  <2>0. Attempts \in Nat /\ Attempts' = Attempts
    BY AttemptsNat DEF Attempts
  <2>was. \A r \in Requests : Left(r) \in 0 .. Attempts + 2
    BY <1>1, LeftBounds
  <2>1. CASE \E r \in Requests : PostAIDeployInsights(r) \/ Step(r) \/ HangUp(r)
    <3>1. PICK r \in Requests : PostAIDeployInsights(r) \/ Step(r) \/ HangUp(r)
      BY <2>1
    <3>2. /\ Left(r)' <= Left(r) /\ (Step(r) => Left(r)' < Left(r))
          /\ \A q \in Requests \ {r} : Left(q)' = Left(q)
      BY <1>1, <3>1, MoveAdvances
    <3>3. ASSUME NEW q \in Requests \ {r} PROVE ~Step(q)
      <4>1. pc'[q] = pc[q] /\ calls'[q] = calls[q]
        BY <1>1, <3>1 DEF IInv, TypeOK, PostAIDeployInsights, Step, Generate, AttemptFails,
           CreateAIRequestLog, RecordFails, HangUp, Go
      <4>2. ASSUME Step(q) PROVE Left(q)' < Left(q)
        BY <1>1, <4>2, MoveAdvances
      <4> QED BY <2>0, <2>was, <3>2, <4>2
    <3> QED BY <2>0, <2>was, <3>2, <3>3
  <2>2. CASE \E d \in Deployments : DeleteDeployment(d)
    <3>1. pc' = pc /\ calls' = calls /\ live' # live
      BY <2>2 DEF DeleteDeployment
    <3>2. \A r \in Requests : Left(r)' = Left(r) /\ ~Step(r)
      BY <2>0, <3>1 DEF Left, Step, Generate, AttemptFails, CreateAIRequestLog, RecordFails
    <3> QED BY <2>0, <2>was, <3>2
  <2>3. CASE Crash
    <3>1. /\ calls' = calls /\ logs' = logs
          /\ \A r \in Requests : pc'[r] = IF UnderWay(r) THEN "lost" ELSE pc[r]
      BY <2>3 DEF Crash
    <3>2. ASSUME NEW r \in Requests PROVE Left(r)' <= Left(r)
      <4>1. CASE UnderWay(r)
        BY <2>0, <2>was, <3>1, <4>1 DEF Left
      <4>2. CASE ~UnderWay(r)
        BY <2>0, <2>was, <3>1, <4>2 DEF Left
      <4> QED BY <4>1, <4>2
    <3>3. ASSUME NEW r \in Requests, Step(r) PROVE Left(r)' < Left(r)
      BY <1>1, <3>3, MoveAdvances
    <3> QED BY <3>2, <3>3
  <2>4. CASE UNCHANGED vars
    BY <2>4
  <2> QED
    BY <1>1, <2>1, <2>2, <2>3, <2>4 DEF Next
<1> QED
  BY <1>1, IInvCorrect, PTL DEF Spec, RequestsAdvance
=============================================================================
