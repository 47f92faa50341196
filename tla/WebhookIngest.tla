----------------------------- MODULE WebhookIngest -----------------------------
(***************************************************************************)
(* Push deliveries from GitHub (handlers/webhook.go, webhook_routing.go,   *)
(* webhook_idempotency.go, webhook_autodeploy.go): the handler finds the   *)
(* applications that follow the pushed branch, claims the delivery for     *)
(* each of them in the table webhook_deliveries, and only then queues one  *)
(* deployment per claim.                                                   *)
(*                                                                         *)
(* GitHub may send a delivery again at any time, also while the first is   *)
(* still being handled; applications are patched and deleted meanwhile;    *)
(* database calls fail (GitHub hanging up cancels their context) and the   *)
(* process crashes.  What becomes of a queued deployment is the subject of *)
(* DeployLifecycle.                                                        *)
(***************************************************************************)
EXTENDS Naturals

CONSTANTS
  MaxApp,      \* applications have the ids 1 .. MaxApp
  Branches,    \* branches of the one repository modelled
  Off,         \* what an application with auto deploy switched off follows
  Deliveries,  \* delivery ids GitHub uses
  Handlers,    \* slots for deliveries handled at the same time
  MaxFaults    \* bound on failed database calls and crashes together

ASSUME WebhookAssumption ==
  /\ MaxApp \in Nat
  /\ Off \notin Branches
  /\ MaxFaults \in Nat

Apps == 1 .. MaxApp

VARIABLES
  live,     \* ids in table apps
  follows,  \* the branch each application deploys by itself, or Off
  ledger,   \* rows <<app, delivery>> of table webhook_deliveries
  made,     \* how many deployments were ever inserted for <<app, delivery>>
  pushed,   \* the branch each delivery is about; a redelivery is identical
  handler,  \* where each handler is
  answer,   \* the last answer GitHub saw for each delivery
  faults    \* failed database calls and crashes so far

vars == <<live, follows, ledger, made, pushed, handler, answer, faults>>

Pairs == Apps \X Deliveries

(***************************************************************************)
(* A handler at "work" claims the applications in todo and then queues     *)
(* deployments for those in won; at "insert" it has reloaded app and is    *)
(* about to insert its deployment.                                         *)
(***************************************************************************)
Idle == [pc |-> "idle"]
Working == [pc : {"work", "insert"}, delivery : Deliveries, todo : SUBSET Apps,
            won : SUBSET Apps, app : {0} \cup Apps]

Init ==
  /\ live = Apps
  /\ follows \in [Apps -> Branches \cup {Off}]
  /\ ledger = {}
  /\ made = [p \in Pairs |-> 0]
  /\ pushed \in [Deliveries -> Branches]
  /\ handler = [r \in Handlers |-> Idle]
  /\ answer = [d \in Deliveries |-> "none"]
  /\ faults = 0

Fault == faults < MaxFaults /\ faults' = faults + 1

Busy(r) == handler[r].pc # "idle"

\* The handler writes its answer and returns.
Reply(r, what) ==
  /\ handler' = [handler EXCEPT ![r] = Idle]
  /\ answer' = [answer EXCEPT ![handler[r].delivery] = what]

\* Rows are taken in the order of their ids.
First(a, S) == a \in S /\ \A b \in S : a <= b

Eligible(b) == {a \in live : follows[a] = b}

(***************************************************************************)
(* A signed, fresh push event: its applications are looked up.  Any other  *)
(* request is answered without touching anything.                          *)
(***************************************************************************)
ResolvePushEvent(r, d) ==
  /\ ~Busy(r)
  /\ handler' = [handler EXCEPT ![r] =
       [pc |-> "work", delivery |-> d, todo |-> Eligible(pushed[d]), won |-> {}, app |-> 0]]
  /\ UNCHANGED <<live, follows, ledger, made, pushed, answer, faults>>

\* Mutant: INSERT OR IGNORE, with every delivery counted as claimed.
ClaimIgnoringConflict(r, a) ==
  /\ handler[r].pc = "work" /\ First(a, handler[r].todo)
  /\ ledger' = ledger \cup {<<a, handler[r].delivery>>}
  /\ handler' = [handler EXCEPT ![r].todo = @ \ {a}, ![r].won = @ \cup {a}]
  /\ UNCHANGED <<live, follows, made, pushed, answer, faults>>

\* INSERT INTO webhook_deliveries: the unique key tells the first from the rest.
ClaimWebhookDelivery(r, a) ==
  /\ handler[r].pc = "work" /\ First(a, handler[r].todo)
  /\ LET claim == <<a, handler[r].delivery>>
     IN  /\ ledger' = ledger \cup {claim}
         /\ handler' = [handler EXCEPT ![r].todo = @ \ {a},
                                       ![r].won = IF claim \in ledger THEN @ ELSE @ \cup {a}]
  /\ UNCHANGED <<live, follows, made, pushed, answer, faults>>

\* Mutant: the claimed application is not read again before its deployment is made.
ReloadUnchecked(r, a) ==
  /\ handler[r].pc = "work" /\ handler[r].todo = {} /\ First(a, handler[r].won)
  /\ handler' = [handler EXCEPT ![r].pc = "insert", ![r].app = a]
  /\ UNCHANGED <<live, follows, ledger, made, pushed, answer, faults>>

(***************************************************************************)
(* With every claim settled the deployments are queued one by one.  The    *)
(* application is read again first; if it is gone the whole request ends.  *)
(***************************************************************************)
ReloadApp(r, a) ==
  /\ handler[r].pc = "work" /\ handler[r].todo = {} /\ First(a, handler[r].won)
  /\ a \in live
  /\ handler' = [handler EXCEPT ![r].pc = "insert", ![r].app = a]
  /\ UNCHANGED <<live, follows, ledger, made, pushed, answer, faults>>

ReloadFindsNoApp(r, a) ==
  /\ handler[r].pc = "work" /\ handler[r].todo = {} /\ First(a, handler[r].won)
  /\ a \notin live
  /\ Reply(r, "failed")
  /\ UNCHANGED <<live, follows, ledger, made, pushed, faults>>

\* Mutant: the loop variable is not advanced after the insert.
QueueWithoutAdvance(r) ==
  /\ handler[r].pc = "insert"
  /\ LET a == handler[r].app
     IN  /\ made' = [made EXCEPT ![<<a, handler[r].delivery>>] = @ + 1]
         /\ handler' = [handler EXCEPT ![r].won = @ \ {a}]
  /\ UNCHANGED <<live, follows, ledger, pushed, answer, faults>>

\* Mutant: the loop over the claimed applications ends after the first.
QueueFirstOnly(r) ==
  /\ handler[r].pc = "insert"
  /\ LET a == handler[r].app
     IN  /\ made' = [made EXCEPT ![<<a, handler[r].delivery>>] = @ + 1]
         /\ handler' = [handler EXCEPT ![r].pc = "work", ![r].won = {}, ![r].app = 0]
  /\ UNCHANGED <<live, follows, ledger, pushed, answer, faults>>

QueueDeployment(r) ==
  /\ handler[r].pc = "insert"
  /\ LET a == handler[r].app
     IN  /\ made' = [made EXCEPT ![<<a, handler[r].delivery>>] = @ + 1]
         /\ handler' = [handler EXCEPT ![r].pc = "work", ![r].won = @ \ {a}, ![r].app = 0]
  /\ UNCHANGED <<live, follows, ledger, pushed, answer, faults>>

\* Mutant: the answer is given once the claims are settled.
AcceptBeforeQueueing(r) ==
  /\ handler[r].pc = "work" /\ handler[r].todo = {}
  /\ Reply(r, "accepted")
  /\ UNCHANGED <<live, follows, ledger, made, pushed, faults>>

Accept(r) ==
  /\ handler[r].pc = "work" /\ handler[r].todo = {} /\ handler[r].won = {}
  /\ Reply(r, "accepted")
  /\ UNCHANGED <<live, follows, ledger, made, pushed, faults>>

\* Whichever database call comes next fails, and with it the request.
CallFails(r) ==
  /\ Busy(r) /\ (handler[r].pc = "insert" \/ handler[r].todo \cup handler[r].won # {})
  /\ Fault
  /\ Reply(r, "failed")
  /\ UNCHANGED <<live, follows, ledger, made, pushed>>

(***************************************************************************)
(* The rest of the program: PATCH /v1/apps/:id writes any branch and auto  *)
(* deploy setting, DELETE /v1/apps/:id takes the ledger rows along.        *)
(***************************************************************************)
UpdateApp(a) ==
  /\ a \in live
  /\ \E b \in Branches \cup {Off} : follows' = [follows EXCEPT ![a] = b]
  /\ UNCHANGED <<live, ledger, made, pushed, handler, answer, faults>>

DeleteApp(a) ==
  /\ a \in live
  /\ live' = live \ {a}
  /\ ledger' = {p \in ledger : p[1] # a}
  /\ UNCHANGED <<follows, made, pushed, handler, answer, faults>>

Crash ==
  /\ Fault
  /\ handler' = [r \in Handlers |-> Idle]
  /\ answer' = [d \in Deliveries |->
                  IF \E r \in Handlers : Busy(r) /\ handler[r].delivery = d THEN "failed"
                  ELSE answer[d]]
  /\ UNCHANGED <<live, follows, ledger, made, pushed>>

HandlerStep(r) ==
  \/ \E a \in Apps : \/ ClaimWebhookDelivery(r, a)
                     \/ ReloadApp(r, a)
                     \/ ReloadFindsNoApp(r, a)
  \/ QueueDeployment(r)
  \/ Accept(r)
  \/ CallFails(r)

Next ==
  \/ \E r \in Handlers, d \in Deliveries : ResolvePushEvent(r, d)
  \/ \E r \in Handlers : HandlerStep(r)
  \/ \E a \in Apps : UpdateApp(a) \/ DeleteApp(a)
  \/ Crash

Spec == Init /\ [][Next]_vars

(***************************************************************************)
(* A request that was received is worked on: its calls return.             *)
(***************************************************************************)
FairSpec == Spec /\ \A r \in Handlers : WF_vars(HandlerStep(r))

-----------------------------------------------------------------------------
(***************************************************************************)
(* Properties.                                                             *)
(***************************************************************************)

\* Every variable has its type; a handler about to insert holds a claim.
TypeOK ==
  /\ live \subseteq Apps
  /\ follows \in [Apps -> Branches \cup {Off}]
  /\ ledger \subseteq Pairs
  /\ made \in [Pairs -> Nat]
  /\ pushed \in [Deliveries -> Branches]
  /\ handler \in [Handlers -> Working \cup {Idle}]
  /\ \A r \in Handlers : handler[r].pc = "insert" => handler[r].app \in handler[r].won
  /\ answer \in [Deliveries -> {"none", "accepted", "failed"}]
  /\ faults \in 0 .. MaxFaults

\* Handler r has claimed delivery d for application a and not yet used it.
Holds(r, a, d) == Busy(r) /\ handler[r].delivery = d /\ a \in handler[r].won

\* Handler r has reloaded application a and inserts its deployment next.
Armed(r, a, d) ==
  handler[r].pc = "insert" /\ handler[r].app = a /\ handler[r].delivery = d

(***************************************************************************)
(* A delivery never queues two deployments for the same application,       *)
(* however often it is repeated, whatever handlers overlap, and although   *)
(* deleting the application takes away the ledger rows that say so.        *)
(***************************************************************************)
AtMostOneDeployment == \A p \in Pairs : made[p] <= 1

(***************************************************************************)
(* As long as no call has failed, nothing crashed and no application was   *)
(* deleted, a claim is never idle: it has led to its deployment or one     *)
(* handler still holds it.                                                 *)
(***************************************************************************)
ClaimsAreBacked ==
  faults = 0 /\ live = Apps =>
    \A p \in ledger : made[p] = 1 \/ \E r \in Handlers : Holds(r, p[1], p[2])

(***************************************************************************)
(* The claim of application p[1] on delivery p[2] as DeliveryOnce sees it. *)
(* When the application is deleted the ledger row goes and later claims    *)
(* succeed again, but only the handler that had reloaded it can use one.   *)
(***************************************************************************)
ClaimStage(p) ==
  IF made[p] > 0 THEN "settled"
  ELSE IF \E r \in Handlers : \/ p[1] \in live /\ Holds(r, p[1], p[2])
                              \/ Armed(r, p[1], p[2])
       THEN "owed"
  ELSE IF p[1] \in live /\ p \notin ledger THEN "open"
  ELSE "settled"

Once == INSTANCE DeliveryOnce WITH
          Claims <- Pairs,
          stage <- [p \in Pairs |-> ClaimStage(p)]

(***************************************************************************)
(* Handlers, ledger and deletions together keep the promise of             *)
(* DeliveryOnce: a claim is taken once, used once or lost, and then over,  *)
(* although the row that remembers it does not outlive its application.    *)
(***************************************************************************)
ImplementsDeliveryOnce == Once!Spec

(***************************************************************************)
(* Every application claimed for a delivery gets its deployment in the     *)
(* end, unless a call failed, the process crashed or an application was    *)
(* deleted: a repeated delivery never takes a claim and does nothing.      *)
(***************************************************************************)
ClaimLeadsToDeployment ==
  \A p \in Pairs : p \in ledger ~> (made[p] = 1 \/ live # Apps \/ faults # 0)

(***************************************************************************)
(* store_deploys.go:247: the unique key "makes this idempotent for webhook *)
(* retries".  A delivery accepted in the end, with nobody working on it    *)
(* any more, would have its deployment for every application that still    *)
(* exists and has a ledger row, as if it had been delivered once.          *)
(***************************************************************************)
RetryCompletes ==
  \A p \in ledger :
    /\ p[1] \in live
    /\ answer[p[2]] = "accepted"
    /\ \A r \in Handlers : Busy(r) => handler[r].delivery # p[2]
    => made[p] = 1
=============================================================================
