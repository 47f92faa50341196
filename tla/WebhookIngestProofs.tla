-------------------------- MODULE WebhookIngestProofs --------------------------
(***************************************************************************)
(* Proofs about WebhookIngest for any number of applications, deliveries   *)
(* and handlers: types, at most one deployment per application and         *)
(* delivery, and every undisturbed claim is backed.                        *)
(***************************************************************************)
EXTENDS WebhookIngest, TLAPS

-----------------------------------------------------------------------------
(***************************************************************************)
(* What a step does to one handler.                                        *)
(***************************************************************************)
LEMMA BusyIsWorking ==
  ASSUME TypeOK, NEW r \in Handlers, Busy(r)
  PROVE  /\ handler[r] \in Working
         /\ handler[r].delivery \in Deliveries
         /\ handler[r].todo \subseteq Apps /\ handler[r].won \subseteq Apps
         /\ handler[r].app \in {0} \cup Apps
         /\ handler[r].pc \in {"work", "insert"}
<1>1. handler[r] # Idle
  BY DEF Busy, Idle
<1> QED
  BY <1>1 DEF TypeOK, Working

LEMMA SlotValue ==
  ASSUME TypeOK, NEW r \in Handlers, NEW v, handler' = [handler EXCEPT ![r] = v]
  PROVE  handler'[r] = v /\ \A q \in Handlers \ {r} : handler'[q] = handler[q]
BY DEF TypeOK

(***************************************************************************)
(* The types.                                                              *)
(***************************************************************************)
LEMMA HandlerTypes ==
  ASSUME TypeOK, NEW r \in Handlers, NEW v \in Working \cup {Idle},
         v.pc = "insert" => v.app \in v.won,
         handler' = [handler EXCEPT ![r] = v]
  PROVE  /\ handler' \in [Handlers -> Working \cup {Idle}]
         /\ \A q \in Handlers : handler'[q].pc = "insert" => handler'[q].app \in handler'[q].won
<1>1. handler' \in [Handlers -> Working \cup {Idle}]
  BY DEF TypeOK
<1> QED
  BY <1>1, SlotValue DEF TypeOK

LEMMA ReplyTypes ==
  ASSUME TypeOK, NEW r \in Handlers, Busy(r),
         NEW what \in {"none", "accepted", "failed"}, Reply(r, what)
  PROVE  /\ handler' \in [Handlers -> Working \cup {Idle}]
         /\ \A q \in Handlers : handler'[q].pc = "insert" => handler'[q].app \in handler'[q].won
         /\ answer' \in [Deliveries -> {"none", "accepted", "failed"}]
<1>1. Idle.pc # "insert"
  BY DEF Idle
<1>2. answer' \in [Deliveries -> {"none", "accepted", "failed"}]
  BY DEF Reply, TypeOK
<1> QED
  BY <1>1, <1>2, HandlerTypes DEF Reply

LEMMA FaultTypes == ASSUME TypeOK, Fault PROVE faults' \in 0 .. MaxFaults
BY WebhookAssumption DEF Fault, TypeOK

LEMMA TypeInit == Init => TypeOK
<1> SUFFICES ASSUME Init PROVE TypeOK
  OBVIOUS
<1>1. \A r \in Handlers : handler[r] = Idle
  BY DEF Init
<1>2. Idle.pc # "insert"
  BY DEF Idle
<1> QED
  BY <1>1, <1>2, WebhookAssumption DEF Init, TypeOK

LEMMA TypeStep == TypeOK /\ [Next]_vars => TypeOK'
<1> SUFFICES ASSUME TypeOK, [Next]_vars PROVE TypeOK'
  OBVIOUS
<1>1. ASSUME NEW r \in Handlers, NEW d \in Deliveries, ResolvePushEvent(r, d) PROVE TypeOK'
  <2> DEFINE v == [pc |-> "work", delivery |-> d, todo |-> Eligible(pushed[d]),
                   won |-> {}, app |-> 0]
  <2>1. v \in Working /\ v.pc = "work"
    BY DEF Working, Eligible, TypeOK
  <2>2. handler' = [handler EXCEPT ![r] = v]
    BY <1>1 DEF ResolvePushEvent
  <2> HIDE DEF v
  <2> QED
    BY <1>1, <2>1, <2>2, HandlerTypes DEF ResolvePushEvent, TypeOK
<1>2. ASSUME NEW r \in Handlers, NEW a \in Apps, ClaimWebhookDelivery(r, a) PROVE TypeOK'
  <2> DEFINE v == [handler[r] EXCEPT !.todo = @ \ {a},
                      !.won = IF <<a, handler[r].delivery>> \in ledger THEN @ ELSE @ \cup {a}]
  <2>1. Busy(r) /\ handler[r].pc = "work"
    BY <1>2 DEF ClaimWebhookDelivery, Busy
  <2>2. v \in Working /\ v.pc = "work"
    BY <2>1, BusyIsWorking DEF Working
  <2>3. handler' = [handler EXCEPT ![r] = v]
    BY <1>2 DEF ClaimWebhookDelivery
  <2>4. ledger' \subseteq Pairs
    BY <1>2, <2>1, BusyIsWorking DEF ClaimWebhookDelivery, Pairs, TypeOK
  <2> HIDE DEF v
  <2> QED
    BY <1>2, <2>2, <2>3, <2>4, HandlerTypes DEF ClaimWebhookDelivery, TypeOK
<1>3. ASSUME NEW r \in Handlers, NEW a \in Apps, ReloadApp(r, a) PROVE TypeOK'
  <2> DEFINE v == [handler[r] EXCEPT !.pc = "insert", !.app = a]
  <2>1. Busy(r) /\ a \in handler[r].won
    BY <1>3 DEF ReloadApp, Busy, First
  <2>2. v \in Working /\ v.app \in v.won
    BY <2>1, BusyIsWorking DEF Working
  <2>3. handler' = [handler EXCEPT ![r] = v]
    BY <1>3 DEF ReloadApp
  <2> HIDE DEF v
  <2> QED
    BY <1>3, <2>2, <2>3, HandlerTypes DEF ReloadApp, TypeOK
<1>4. ASSUME NEW r \in Handlers, NEW a \in Apps, ReloadFindsNoApp(r, a) PROVE TypeOK'
  <2>1. Busy(r)
    BY <1>4 DEF ReloadFindsNoApp, Busy
  <2> QED
    BY <1>4, <2>1, ReplyTypes DEF ReloadFindsNoApp, TypeOK
<1>5. ASSUME NEW r \in Handlers, QueueDeployment(r) PROVE TypeOK'
  <2> DEFINE v == [handler[r] EXCEPT !.pc = "work", !.won = @ \ {handler[r].app}, !.app = 0]
  <2>1. Busy(r)
    BY <1>5 DEF QueueDeployment, Busy
  <2>2. v \in Working /\ v.pc = "work"
    BY <2>1, BusyIsWorking DEF Working
  <2>3. handler' = [handler EXCEPT ![r] = v]
    BY <1>5 DEF QueueDeployment
  <2>4. made' \in [Pairs -> Nat]
    <3> DEFINE p == <<handler[r].app, handler[r].delivery>>
    <3>1. p \in Pairs
      BY <1>5, <2>1, BusyIsWorking DEF QueueDeployment, TypeOK, Pairs
    <3>2. made' = [made EXCEPT ![p] = @ + 1]
      BY <1>5 DEF QueueDeployment
    <3> HIDE DEF p
    <3> QED
      BY <3>1, <3>2 DEF TypeOK
  <2> HIDE DEF v
  <2> QED
    BY <1>5, <2>2, <2>3, <2>4, HandlerTypes DEF QueueDeployment, TypeOK
<1>6. ASSUME NEW r \in Handlers, Accept(r) PROVE TypeOK'
  <2>1. Busy(r)
    BY <1>6 DEF Accept, Busy
  <2> QED
    BY <1>6, <2>1, ReplyTypes DEF Accept, TypeOK
<1>7. ASSUME NEW r \in Handlers, CallFails(r) PROVE TypeOK'
  BY <1>7, ReplyTypes, FaultTypes DEF CallFails, TypeOK
<1>8. ASSUME NEW a \in Apps, UpdateApp(a) PROVE TypeOK'
  BY <1>8 DEF UpdateApp, TypeOK
<1>9. ASSUME NEW a \in Apps, DeleteApp(a) PROVE TypeOK'
  BY <1>9 DEF DeleteApp, TypeOK
<1>10. ASSUME Crash PROVE TypeOK'
  <2>1. \A r \in Handlers : handler'[r] = Idle
    BY <1>10 DEF Crash
  <2>2. Idle.pc # "insert"
    BY DEF Idle
  <2> QED
    BY <1>10, <2>1, <2>2, FaultTypes DEF Crash, TypeOK
<1>11. ASSUME UNCHANGED vars PROVE TypeOK'
  BY <1>11 DEF vars, TypeOK
<1> QED
  BY <1>1, <1>2, <1>3, <1>4, <1>5, <1>6, <1>7, <1>8, <1>9, <1>10, <1>11 DEF Next, HandlerStep

(***************************************************************************)
(* The variables keep their types, for any parameters.                     *)
(***************************************************************************)
THEOREM TypeCorrect == Spec => []TypeOK
BY TypeInit, TypeStep, PTL DEF Spec

-----------------------------------------------------------------------------
(***************************************************************************)
(* The inductive invariant.  As long as the application exists the ledger  *)
(* row makes a claim unique: whoever holds it is alone, and no deployment  *)
(* was made for it.  When the application is deleted the row goes, and     *)
(* somebody else may claim again; but then only a handler that had already *)
(* reloaded the application can insert, and of those there is one at most. *)
(***************************************************************************)
ClaimIsExclusive ==
  \A a \in Apps, d \in Deliveries : a \in live =>
    /\ made[<<a, d>>] > 0 => <<a, d>> \in ledger
    /\ \A r \in Handlers : Holds(r, a, d) =>
         /\ <<a, d>> \in ledger
         /\ made[<<a, d>>] = 0
         /\ \A q \in Handlers \ {r} : ~Holds(q, a, d)

InsertIsExclusive ==
  \A a \in Apps, d \in Deliveries : \A r \in Handlers : Armed(r, a, d) =>
    /\ made[<<a, d>>] = 0
    /\ \A q \in Handlers \ {r} : ~Armed(q, a, d)

IInv == TypeOK /\ ClaimIsExclusive /\ InsertIsExclusive /\ AtMostOneDeployment

LEMMA ArmedHolds ==
  ASSUME TypeOK, NEW r \in Handlers, NEW a \in Apps, NEW d \in Deliveries, Armed(r, a, d)
  PROVE  Holds(r, a, d)
BY DEF TypeOK, Armed, Holds, Busy

\* The handlers other than r hold and insert what they did.
OthersKeep(r) ==
  \A q \in Handlers \ {r}, a \in Apps, d \in Deliveries :
    (Holds(q, a, d)' <=> Holds(q, a, d)) /\ (Armed(q, a, d)' <=> Armed(q, a, d))

LEMMA OthersUntouched ==
  ASSUME TypeOK, NEW r \in Handlers, NEW v, handler' = [handler EXCEPT ![r] = v]
  PROVE  OthersKeep(r)
<1>1. \A q \in Handlers \ {r} : handler'[q] = handler[q]
  BY SlotValue
<1> QED
  BY <1>1 DEF OthersKeep, Holds, Armed, Busy

\* Handler r holds nothing and is not about to insert.
HandsOff(r) == \A a \in Apps, d \in Deliveries : ~Holds(r, a, d) /\ ~Armed(r, a, d)

LEMMA ReplyEffect ==
  ASSUME TypeOK, NEW r \in Handlers, NEW what, Reply(r, what)
  PROVE  OthersKeep(r) /\ HandsOff(r)'
<1>1. handler'[r] = Idle
  BY SlotValue DEF Reply
<1>2. OthersKeep(r)
  BY OthersUntouched DEF Reply
<1> QED
  BY <1>1, <1>2 DEF HandsOff, Holds, Armed, Busy, Idle

LEMMA ResolveEffect ==
  ASSUME TypeOK, NEW r \in Handlers, NEW d \in Deliveries, ResolvePushEvent(r, d)
  PROVE  OthersKeep(r) /\ HandsOff(r)' /\ UNCHANGED <<live, ledger, made, faults>>
<1> DEFINE v == [pc |-> "work", delivery |-> d, todo |-> Eligible(pushed[d]),
                 won |-> {}, app |-> 0]
<1>1. handler' = [handler EXCEPT ![r] = v]
  BY DEF ResolvePushEvent
<1>2. v.won = {} /\ v.pc = "work"
  OBVIOUS
<1> HIDE DEF v
<1>3. handler'[r] = v
  BY <1>1, SlotValue
<1>4. OthersKeep(r)
  BY <1>1, OthersUntouched
<1> QED
  BY <1>2, <1>3, <1>4 DEF ResolvePushEvent, HandsOff, Holds, Armed

LEMMA ClaimEffect ==
  ASSUME TypeOK, NEW r \in Handlers, NEW x \in Apps, ClaimWebhookDelivery(r, x)
  PROVE  /\ OthersKeep(r)
         /\ handler[r].delivery \in Deliveries
         /\ ledger' = ledger \cup {<<x, handler[r].delivery>>}
         /\ \A a \in Apps, d \in Deliveries :
              /\ ~Armed(r, a, d)'
              /\ Holds(r, a, d)' <=>
                   \/ Holds(r, a, d)
                   \/ a = x /\ d = handler[r].delivery /\ <<a, d>> \notin ledger
         /\ UNCHANGED <<live, made, faults>>
<1> DEFINE w == IF <<x, handler[r].delivery>> \in ledger THEN handler[r].won
                ELSE handler[r].won \cup {x}
           v == [handler[r] EXCEPT !.todo = @ \ {x}, !.won = w]
<1>1. Busy(r) /\ handler[r].pc = "work"
  BY DEF ClaimWebhookDelivery, Busy
<1>2. handler' = [handler EXCEPT ![r] = v]
  BY DEF ClaimWebhookDelivery
<1>3. v.won = w /\ v.pc = "work" /\ v.delivery = handler[r].delivery
  BY <1>1, BusyIsWorking DEF Working
<1> HIDE DEF v
<1>4. handler'[r] = v
  BY <1>2, SlotValue
<1>5. OthersKeep(r)
  BY <1>2, OthersUntouched
<1>6. \A a \in Apps, d \in Deliveries :
        Holds(r, a, d)' <=> d = handler[r].delivery /\ a \in w
  BY <1>3, <1>4 DEF Holds, Busy
<1>7. \A a \in Apps, d \in Deliveries :
        Holds(r, a, d) <=> d = handler[r].delivery /\ a \in handler[r].won
  BY <1>1 DEF Holds
<1>8. \A a \in Apps, d \in Deliveries : ~Armed(r, a, d)'
  BY <1>3, <1>4 DEF Armed
<1> QED
  BY <1>1, <1>5, <1>6, <1>7, <1>8, BusyIsWorking DEF ClaimWebhookDelivery

LEMMA ReloadEffect ==
  ASSUME TypeOK, NEW r \in Handlers, NEW x \in Apps, ReloadApp(r, x)
  PROVE  /\ OthersKeep(r)
         /\ x \in live
         /\ \A a \in Apps, d \in Deliveries :
              /\ Holds(r, a, d)' <=> Holds(r, a, d)
              /\ Armed(r, a, d)' => a = x /\ Holds(r, a, d)
         /\ UNCHANGED <<live, ledger, made, faults>>
<1> DEFINE v == [handler[r] EXCEPT !.pc = "insert", !.app = x]
<1>1. Busy(r) /\ x \in handler[r].won
  BY DEF ReloadApp, Busy, First
<1>2. handler' = [handler EXCEPT ![r] = v]
  BY DEF ReloadApp
<1>3. v.won = handler[r].won /\ v.pc = "insert" /\ v.delivery = handler[r].delivery /\ v.app = x
  BY <1>1, BusyIsWorking DEF Working
<1> HIDE DEF v
<1>4. handler'[r] = v
  BY <1>2, SlotValue
<1>5. OthersKeep(r)
  BY <1>2, OthersUntouched
<1> QED
  BY <1>1, <1>3, <1>4, <1>5 DEF ReloadApp, Holds, Armed, Busy

LEMMA QueueEffect ==
  ASSUME TypeOK, NEW r \in Handlers, QueueDeployment(r)
  PROVE  \E x \in Apps, y \in Deliveries :
           /\ OthersKeep(r)
           /\ Armed(r, x, y)
           /\ \A a \in Apps, d \in Deliveries :
                /\ ~Armed(r, a, d)'
                /\ Holds(r, a, d)' <=> Holds(r, a, d) /\ a # x
                /\ Holds(r, a, d) => d = y
           /\ made' = [made EXCEPT ![<<x, y>>] = @ + 1]
           /\ UNCHANGED <<live, ledger, faults>>
<1> DEFINE x == handler[r].app
           y == handler[r].delivery
           v == [handler[r] EXCEPT !.pc = "work", !.won = @ \ {x}, !.app = 0]
<1>1. Busy(r) /\ handler[r].pc = "insert"
  BY DEF QueueDeployment, Busy
<1>2. handler' = [handler EXCEPT ![r] = v] /\ made' = [made EXCEPT ![<<x, y>>] = @ + 1]
  BY DEF QueueDeployment
<1>3. v.won = handler[r].won \ {x} /\ v.pc = "work" /\ v.delivery = y
  BY <1>1, BusyIsWorking DEF Working
<1>4. x \in Apps /\ y \in Deliveries
  BY <1>1, BusyIsWorking DEF TypeOK
<1> HIDE DEF v
<1>5. handler'[r] = v
  BY <1>2, SlotValue
<1>6. OthersKeep(r)
  BY <1>2, OthersUntouched
<1>7. \A a \in Apps, d \in Deliveries :
        /\ ~Armed(r, a, d)'
        /\ Holds(r, a, d)' <=> Holds(r, a, d) /\ a # x
        /\ Holds(r, a, d) => d = y
  BY <1>1, <1>3, <1>5 DEF Holds, Armed, Busy
<1>8. Armed(r, x, y)
  BY <1>1 DEF Armed
<1> QED
  BY <1>2, <1>4, <1>6, <1>7, <1>8 DEF QueueDeployment

-----------------------------------------------------------------------------
(***************************************************************************)
(* The steps that give up or begin a handler leave the claims of the       *)
(* others, the ledger and the deployments alone.                           *)
(***************************************************************************)
LetsGo(r) == OthersKeep(r) /\ HandsOff(r)' /\ UNCHANGED <<live, ledger, made>>

LEMMA StepKinds ==
  ASSUME TypeOK, [Next]_vars
  PROVE  \/ \E r \in Handlers : LetsGo(r)
         \/ \E r \in Handlers, a \in Apps : ClaimWebhookDelivery(r, a) \/ ReloadApp(r, a)
         \/ \E r \in Handlers : QueueDeployment(r)
         \/ \E a \in Apps : DeleteApp(a)
         \/ Crash
         \/ UNCHANGED <<live, ledger, made, handler>>
<1>1. ASSUME NEW r \in Handlers, NEW d \in Deliveries, ResolvePushEvent(r, d) PROVE LetsGo(r)
  BY <1>1, ResolveEffect DEF LetsGo
<1>2. ASSUME NEW r \in Handlers, NEW a \in Apps, ReloadFindsNoApp(r, a) PROVE LetsGo(r)
  BY <1>2, ReplyEffect DEF LetsGo, ReloadFindsNoApp
<1>3. ASSUME NEW r \in Handlers, Accept(r) PROVE LetsGo(r)
  BY <1>3, ReplyEffect DEF LetsGo, Accept
<1>4. ASSUME NEW r \in Handlers, CallFails(r) PROVE LetsGo(r)
  BY <1>4, ReplyEffect DEF LetsGo, CallFails
<1>5. ASSUME NEW a \in Apps, UpdateApp(a) PROVE UNCHANGED <<live, ledger, made, handler>>
  BY <1>5 DEF UpdateApp
<1>6. ASSUME UNCHANGED vars PROVE UNCHANGED <<live, ledger, made, handler>>
  BY <1>6 DEF vars
<1> QED
  BY <1>1, <1>2, <1>3, <1>4, <1>5, <1>6 DEF Next, HandlerStep

LEMMA CrashEffect ==
  ASSUME Crash
  PROVE  /\ \A r \in Handlers : HandsOff(r)'
         /\ UNCHANGED <<live, ledger, made>>
<1>1. \A r \in Handlers : handler'[r] = Idle
  BY DEF Crash
<1> QED
  BY <1>1 DEF Crash, HandsOff, Holds, Armed, Busy, Idle

LEMMA NoNewHolders ==
  ASSUME ClaimIsExclusive, UNCHANGED <<live, ledger, made>>,
         \A q \in Handlers, a \in Apps, d \in Deliveries : Holds(q, a, d)' => Holds(q, a, d)
  PROVE  ClaimIsExclusive'
BY DEF ClaimIsExclusive

LEMMA ClaimStep ==
  ASSUME TypeOK, ClaimIsExclusive, InsertIsExclusive, [Next]_vars
  PROVE  ClaimIsExclusive'
<1>1. ASSUME NEW r \in Handlers, LetsGo(r) PROVE ClaimIsExclusive'
  <2>1. \A q \in Handlers, a \in Apps, d \in Deliveries : Holds(q, a, d)' => Holds(q, a, d)
    BY <1>1 DEF LetsGo, OthersKeep, HandsOff
  <2> QED
    BY <1>1, <2>1, NoNewHolders DEF LetsGo
<1>2. ASSUME NEW r \in Handlers, NEW x \in Apps, ClaimWebhookDelivery(r, x)
      PROVE  ClaimIsExclusive'
  <2>1. /\ OthersKeep(r)
        /\ ledger' = ledger \cup {<<x, handler[r].delivery>>}
        /\ \A a \in Apps, d \in Deliveries :
             Holds(r, a, d)' <=>
               \/ Holds(r, a, d)
               \/ a = x /\ d = handler[r].delivery /\ <<a, d>> \notin ledger
        /\ UNCHANGED <<live, made>>
    BY <1>2, ClaimEffect
  <2> SUFFICES ASSUME NEW a \in Apps, NEW d \in Deliveries, a \in live
               PROVE  /\ made[<<a, d>>] > 0 => <<a, d>> \in ledger'
                      /\ \A q \in Handlers : Holds(q, a, d)' =>
                           /\ <<a, d>> \in ledger'
                           /\ made[<<a, d>>] = 0
                           /\ \A p \in Handlers \ {q} : ~Holds(p, a, d)'
    BY <2>1 DEF ClaimIsExclusive
  <2>2. made[<<a, d>>] \in Nat
    BY DEF TypeOK, Pairs
  <2>3. CASE \E q \in Handlers : Holds(q, a, d)
    BY <2>1, <2>3 DEF OthersKeep, ClaimIsExclusive
  <2>4. CASE \A q \in Handlers : ~Holds(q, a, d)
    BY <2>1, <2>2, <2>4 DEF OthersKeep, ClaimIsExclusive
  <2> QED
    BY <2>3, <2>4
<1>3. ASSUME NEW r \in Handlers, NEW x \in Apps, ReloadApp(r, x) PROVE ClaimIsExclusive'
  <2>1. \A q \in Handlers, a \in Apps, d \in Deliveries : Holds(q, a, d)' => Holds(q, a, d)
    BY <1>3, ReloadEffect DEF OthersKeep
  <2>2. UNCHANGED <<live, ledger, made>>
    BY <1>3, ReloadEffect
  <2> QED
    BY <2>1, <2>2, NoNewHolders
<1>4. ASSUME NEW r \in Handlers, QueueDeployment(r) PROVE ClaimIsExclusive'
  <2> PICK x \in Apps, y \in Deliveries :
        /\ OthersKeep(r)
        /\ Armed(r, x, y)
        /\ \A a \in Apps, d \in Deliveries :
             /\ ~Armed(r, a, d)'
             /\ Holds(r, a, d)' <=> Holds(r, a, d) /\ a # x
             /\ Holds(r, a, d) => d = y
        /\ made' = [made EXCEPT ![<<x, y>>] = @ + 1]
        /\ UNCHANGED <<live, ledger, faults>>
    BY <1>4, QueueEffect
  <2>1. Holds(r, x, y)
    BY ArmedHolds
  <2>2. \A a \in Apps, d \in Deliveries : a # x \/ d # y => made'[<<a, d>>] = made[<<a, d>>]
    BY DEF TypeOK, Pairs
  <2>3. x \in live => <<x, y>> \in ledger /\ \A q \in Handlers : ~Holds(q, x, y)'
    BY <2>1 DEF OthersKeep, ClaimIsExclusive
  <2> SUFFICES ASSUME NEW a \in Apps, NEW d \in Deliveries, a \in live
               PROVE  /\ made'[<<a, d>>] > 0 => <<a, d>> \in ledger
                      /\ \A q \in Handlers : Holds(q, a, d)' =>
                           /\ <<a, d>> \in ledger
                           /\ made'[<<a, d>>] = 0
                           /\ \A p \in Handlers \ {q} : ~Holds(p, a, d)'
    BY DEF ClaimIsExclusive
  <2>4. CASE a = x /\ d = y
    BY <2>3, <2>4
  <2>5. CASE a # x \/ d # y
    <3>1. \A q \in Handlers : Holds(q, a, d)' => Holds(q, a, d)
      BY DEF OthersKeep
    <3> QED
      BY <2>2, <2>5, <3>1 DEF ClaimIsExclusive
  <2> QED
    BY <2>4, <2>5
<1>5. ASSUME NEW x \in Apps, DeleteApp(x) PROVE ClaimIsExclusive'
  <2>1. /\ live' = live \ {x} /\ UNCHANGED <<made, handler>>
        /\ \A a \in Apps, d \in Deliveries : a # x /\ <<a, d>> \in ledger => <<a, d>> \in ledger'
    BY <1>5 DEF DeleteApp
  <2>2. \A r \in Handlers, a \in Apps, d \in Deliveries : Holds(r, a, d)' <=> Holds(r, a, d)
    BY <2>1 DEF Holds, Busy
  <2> QED
    BY <2>1, <2>2 DEF ClaimIsExclusive
<1>6. ASSUME Crash PROVE ClaimIsExclusive'
  BY <1>6, CrashEffect DEF HandsOff, ClaimIsExclusive
<1>7. ASSUME UNCHANGED <<live, ledger, made, handler>> PROVE ClaimIsExclusive'
  BY <1>7 DEF ClaimIsExclusive, Holds, Busy
<1> QED
  BY <1>1, <1>2, <1>3, <1>4, <1>5, <1>6, <1>7, StepKinds

LEMMA InsertStep ==
  ASSUME TypeOK, ClaimIsExclusive, InsertIsExclusive, AtMostOneDeployment, [Next]_vars
  PROVE  InsertIsExclusive' /\ AtMostOneDeployment'
<1>1. ASSUME NEW r \in Handlers, LetsGo(r) PROVE InsertIsExclusive' /\ made' = made
  BY <1>1 DEF LetsGo, OthersKeep, HandsOff, InsertIsExclusive
<1>2. ASSUME NEW r \in Handlers, NEW x \in Apps, ClaimWebhookDelivery(r, x)
      PROVE  InsertIsExclusive' /\ made' = made
  <2>1. OthersKeep(r) /\ made' = made /\ \A a \in Apps, d \in Deliveries : ~Armed(r, a, d)'
    BY <1>2, ClaimEffect
  <2> QED
    BY <2>1 DEF OthersKeep, InsertIsExclusive
<1>3. ASSUME NEW r \in Handlers, NEW x \in Apps, ReloadApp(r, x)
      PROVE  InsertIsExclusive' /\ made' = made
  <2>1. /\ OthersKeep(r) /\ made' = made /\ x \in live
        /\ \A a \in Apps, d \in Deliveries : Armed(r, a, d)' => a = x /\ Holds(r, a, d)
    BY <1>3, ReloadEffect
  <2>2. \A q \in Handlers, a \in Apps, d \in Deliveries : Armed(q, a, d) => Holds(q, a, d)
    BY ArmedHolds
  <2> QED
    BY <2>1, <2>2 DEF OthersKeep, InsertIsExclusive, ClaimIsExclusive
<1>4. ASSUME NEW r \in Handlers, QueueDeployment(r)
      PROVE  InsertIsExclusive' /\ AtMostOneDeployment'
  <2> PICK x \in Apps, y \in Deliveries :
        /\ OthersKeep(r)
        /\ Armed(r, x, y)
        /\ \A a \in Apps, d \in Deliveries :
             /\ ~Armed(r, a, d)'
             /\ Holds(r, a, d)' <=> Holds(r, a, d) /\ a # x
             /\ Holds(r, a, d) => d = y
        /\ made' = [made EXCEPT ![<<x, y>>] = @ + 1]
        /\ UNCHANGED <<live, ledger, faults>>
    BY <1>4, QueueEffect
  <2>1. made[<<x, y>>] = 0 /\ \A q \in Handlers : ~Armed(q, x, y)'
    BY DEF OthersKeep, InsertIsExclusive
  <2>2. \A p \in Pairs : p # <<x, y>> => made'[p] = made[p]
    BY DEF TypeOK
  <2>3. made'[<<x, y>>] = 1
    BY <2>1 DEF TypeOK, Pairs
  <2>4. InsertIsExclusive'
    BY <2>1, <2>2 DEF OthersKeep, InsertIsExclusive, Pairs
  <2>5. AtMostOneDeployment'
    BY <2>2, <2>3 DEF AtMostOneDeployment
  <2> QED
    BY <2>4, <2>5
<1>5. ASSUME NEW x \in Apps, DeleteApp(x) PROVE InsertIsExclusive' /\ made' = made
  BY <1>5 DEF DeleteApp, InsertIsExclusive, Armed
<1>6. ASSUME Crash PROVE InsertIsExclusive' /\ made' = made
  BY <1>6, CrashEffect DEF HandsOff, InsertIsExclusive
<1>7. ASSUME UNCHANGED <<live, ledger, made, handler>> PROVE InsertIsExclusive' /\ made' = made
  BY <1>7 DEF InsertIsExclusive, Armed
<1>8. ASSUME made' = made PROVE AtMostOneDeployment'
  BY <1>8 DEF AtMostOneDeployment
<1> QED
  BY <1>1, <1>2, <1>3, <1>4, <1>5, <1>6, <1>7, <1>8, StepKinds

LEMMA IInvInit == Init => IInv
<1> SUFFICES ASSUME Init PROVE IInv
  OBVIOUS
<1>1. \A r \in Handlers : HandsOff(r)
  BY DEF Init, HandsOff, Holds, Armed, Busy, Idle
<1>2. \A a \in Apps, d \in Deliveries : made[<<a, d>>] = 0
  BY DEF Init, Pairs
<1>3. \A p \in Pairs : made[p] = 0
  BY DEF Init
<1> QED
  BY <1>1, <1>2, <1>3, TypeInit
  DEF IInv, ClaimIsExclusive, InsertIsExclusive, AtMostOneDeployment, HandsOff

LEMMA IInvCorrect == Spec => []IInv
<1>1. IInv /\ [Next]_vars => IInv'
  BY TypeStep, ClaimStep, InsertStep DEF IInv
<1> QED
  BY IInvInit, <1>1, PTL DEF Spec

(***************************************************************************)
(* No delivery makes two deployments for one application, for any number   *)
(* of repetitions, overlapping handlers, failures, crashes and deletions.  *)
(***************************************************************************)
THEOREM DeliversAtMostOnce == Spec => []AtMostOneDeployment
<1>1. IInv => AtMostOneDeployment
  BY DEF IInv
<1> QED
  BY <1>1, IInvCorrect, PTL

-----------------------------------------------------------------------------
LEMMA BackedStep ==
  ASSUME TypeOK, TypeOK', AtMostOneDeployment', ClaimsAreBacked, [Next]_vars
  PROVE  ClaimsAreBacked'
<1> SUFFICES ASSUME faults' = 0, live' = Apps, NEW a \in Apps, NEW d \in Deliveries,
                    <<a, d>> \in ledger'
             PROVE  made'[<<a, d>>] = 1 \/ \E r \in Handlers : Holds(r, a, d)'
  BY DEF ClaimsAreBacked, Pairs, TypeOK
<1> DEFINE Backed == made[<<a, d>>] = 1 \/ \E r \in Handlers : Holds(r, a, d)
<1>nat. made[<<a, d>>] \in Nat /\ made'[<<a, d>>] \in Nat /\ made'[<<a, d>>] <= 1
  BY DEF TypeOK, Pairs, AtMostOneDeployment
<1>was. ASSUME faults = 0, live = Apps, <<a, d>> \in ledger PROVE Backed
  BY <1>was DEF ClaimsAreBacked, TypeOK
<1>nofault. ~Fault
  BY DEF Fault, TypeOK
<1>1. ASSUME NEW r \in Handlers, NEW e \in Deliveries, ResolvePushEvent(r, e)
      PROVE  Backed'
  <2>1. OthersKeep(r) /\ UNCHANGED <<live, ledger, made, faults>>
    BY <1>1, ResolveEffect
  <2>2. ~Holds(r, a, d)
    BY <1>1 DEF ResolvePushEvent, Holds
  <2> QED
    BY <2>1, <2>2, <1>was DEF OthersKeep
<1>2. ASSUME NEW r \in Handlers, NEW x \in Apps, ClaimWebhookDelivery(r, x) PROVE Backed'
  <2>1. /\ OthersKeep(r)
        /\ ledger' = ledger \cup {<<x, handler[r].delivery>>}
        /\ Holds(r, a, d)' <=>
             \/ Holds(r, a, d)
             \/ a = x /\ d = handler[r].delivery /\ <<a, d>> \notin ledger
        /\ UNCHANGED <<live, made, faults>>
    BY <1>2, ClaimEffect
  <2>2. CASE <<a, d>> \in ledger
    BY <2>1, <2>2, <1>was DEF OthersKeep
  <2>3. CASE <<a, d>> \notin ledger
    BY <2>1, <2>3
  <2> QED
    BY <2>2, <2>3
<1>3. ASSUME NEW r \in Handlers, NEW x \in Apps, ReloadApp(r, x) PROVE Backed'
  BY <1>3, <1>was, ReloadEffect DEF OthersKeep
<1>4. ASSUME NEW r \in Handlers, NEW x \in Apps, ReloadFindsNoApp(r, x) PROVE FALSE
  BY <1>4 DEF ReloadFindsNoApp
<1>5. ASSUME NEW r \in Handlers, QueueDeployment(r) PROVE Backed'
  <2> PICK x \in Apps, y \in Deliveries :
        /\ OthersKeep(r)
        /\ Armed(r, x, y)
        /\ \A b \in Apps, e \in Deliveries :
             /\ ~Armed(r, b, e)'
             /\ Holds(r, b, e)' <=> Holds(r, b, e) /\ b # x
             /\ Holds(r, b, e) => e = y
        /\ made' = [made EXCEPT ![<<x, y>>] = @ + 1]
        /\ UNCHANGED <<live, ledger, faults>>
    BY <1>5, QueueEffect
  <2>1. CASE a = x /\ d = y
    <3>1. made'[<<a, d>>] = made[<<a, d>>] + 1
      BY <2>1 DEF TypeOK, Pairs
    <3> QED
      BY <3>1, <1>nat
  <2>2. CASE a # x \/ d # y
    <3>1. made'[<<a, d>>] = made[<<a, d>>]
      BY <2>2 DEF TypeOK, Pairs
    <3>2. Holds(r, a, d) => Holds(r, a, d)'
      BY <2>2
    <3> QED
      BY <3>1, <3>2, <1>was DEF OthersKeep
  <2> QED
    BY <2>1, <2>2
<1>6. ASSUME NEW r \in Handlers, Accept(r) PROVE Backed'
  <2>1. OthersKeep(r) /\ UNCHANGED <<live, ledger, made, faults>>
    BY <1>6, ReplyEffect DEF Accept
  <2>2. ~Holds(r, a, d)
    BY <1>6 DEF Accept, Holds
  <2> QED
    BY <2>1, <2>2, <1>was DEF OthersKeep
<1>7. ASSUME NEW r \in Handlers, CallFails(r) PROVE FALSE
  BY <1>7, <1>nofault DEF CallFails
<1>8. ASSUME NEW x \in Apps, UpdateApp(x) PROVE Backed'
  BY <1>8, <1>was DEF UpdateApp, Holds, Busy
<1>9. ASSUME NEW x \in Apps, DeleteApp(x) PROVE FALSE
  BY <1>9 DEF DeleteApp
<1>10. ASSUME Crash PROVE FALSE
  BY <1>10, <1>nofault DEF Crash
<1>11. ASSUME UNCHANGED vars PROVE Backed'
  BY <1>11, <1>was DEF vars, Holds, Busy
<1> QED
  BY <1>1, <1>2, <1>3, <1>4, <1>5, <1>6, <1>7, <1>8, <1>9, <1>10, <1>11 DEF Next, HandlerStep

(***************************************************************************)
(* Without failures and deletions no claim is ever left behind: it has     *)
(* its deployment, or a handler that is going to make it.                  *)
(***************************************************************************)
THEOREM ClaimsStayBacked == Spec => []ClaimsAreBacked
<1>1. Init => ClaimsAreBacked
  BY DEF Init, ClaimsAreBacked
<1>2. IInv /\ IInv' /\ ClaimsAreBacked /\ [Next]_vars => ClaimsAreBacked'
  BY BackedStep DEF IInv
<1> QED
  BY <1>1, <1>2, IInvCorrect, PTL DEF Spec

-----------------------------------------------------------------------------
(***************************************************************************)
(* The refinement.  A claim is owed when a handler can still use it; what  *)
(* every step but a claim and an insert does to the stages is to settle    *)
(* some of them.                                                           *)
(***************************************************************************)
Owed(a, d) ==
  \E r \in Handlers : \/ a \in live /\ Holds(r, a, d)
                      \/ Armed(r, a, d)

LEMMA StageOf ==
  ASSUME NEW a, NEW d
  PROVE  ClaimStage(<<a, d>>) =
           IF made[<<a, d>>] > 0 THEN "settled"
           ELSE IF Owed(a, d) THEN "owed"
           ELSE IF a \in live /\ <<a, d>> \notin ledger THEN "open" ELSE "settled"
BY DEF ClaimStage, Owed

LEMMA StageOfNext ==
  ASSUME NEW a, NEW d
  PROVE  ClaimStage(<<a, d>>)' =
           IF made'[<<a, d>>] > 0 THEN "settled"
           ELSE IF Owed(a, d)' THEN "owed"
           ELSE IF a \in live' /\ <<a, d>> \notin ledger' THEN "open" ELSE "settled"
BY DEF ClaimStage, Owed

\* An owed claim of an application that is there has its row in the ledger.
LEMMA OwedIsInLedger ==
  ASSUME TypeOK, ClaimIsExclusive, NEW a \in Apps, NEW d \in Deliveries, Owed(a, d), a \in live
  PROVE  <<a, d>> \in ledger
BY ArmedHolds DEF Owed, ClaimIsExclusive

Stages == [p \in Pairs |-> ClaimStage(p)]

LEMMA RefinesLose ==
  ASSUME UNCHANGED made,
         \A a \in Apps, d \in Deliveries :
           ClaimStage(<<a, d>>)' \in {"settled", ClaimStage(<<a, d>>)}
  PROVE  Once!Next
<1> DEFINE C == {p \in Pairs : ClaimStage(p)' = "settled"}
<1>1. \A p \in Pairs : ClaimStage(p)' \in {"settled", ClaimStage(p)}
  BY DEF Pairs
<1>2. Stages' = [p \in Pairs |-> IF p \in C THEN "settled" ELSE Stages[p]]
  BY <1>1 DEF Stages
<1>3. Once!Lose(C)
  BY <1>2 DEF Once!Lose, Stages
<1>4. C \in SUBSET Pairs
  OBVIOUS
<1> HIDE DEF C
<1> QED
  BY <1>3, <1>4 DEF Once!Next

\* A step that makes nothing and lets no handler hold or insert more.
LEMMA RefinesLetGo ==
  ASSUME TypeOK, ClaimIsExclusive, UNCHANGED <<live, ledger, made>>,
         \A a \in Apps, d \in Deliveries : Owed(a, d)' => Owed(a, d)
  PROVE  Once!Next
<1>1. ASSUME NEW a \in Apps, NEW d \in Deliveries
      PROVE  ClaimStage(<<a, d>>)' \in {"settled", ClaimStage(<<a, d>>)}
  <2>1. Owed(a, d) /\ a \in live => <<a, d>> \in ledger
    BY OwedIsInLedger
  <2> QED
    BY <2>1, StageOf, StageOfNext
<1> QED
  BY <1>1, RefinesLose

LEMMA RefinesClaim ==
  ASSUME TypeOK, ClaimIsExclusive, NEW r \in Handlers, NEW x \in Apps,
         ClaimWebhookDelivery(r, x)
  PROVE  Once!Next
<1> PICK y \in Deliveries : y = handler[r].delivery
  BY ClaimEffect
<1>1. /\ OthersKeep(r)
      /\ ledger' = ledger \cup {<<x, y>>}
      /\ \A a \in Apps, d \in Deliveries :
           /\ ~Armed(r, a, d)'
           /\ Holds(r, a, d)' <=> \/ Holds(r, a, d)
                                  \/ a = x /\ d = y /\ <<a, d>> \notin ledger
      /\ UNCHANGED <<live, made, faults>>
  BY ClaimEffect
<1>2. \A a \in Apps, d \in Deliveries : ~Armed(r, a, d)
  BY DEF ClaimWebhookDelivery, Armed
<1>3. ASSUME NEW a \in Apps, NEW d \in Deliveries
      PROVE  Owed(a, d)' <=> \/ Owed(a, d)
                             \/ a = x /\ d = y /\ x \in live /\ <<x, y>> \notin ledger
  BY <1>1, <1>2 DEF Owed, OthersKeep
<1>4. CASE x \in live /\ <<x, y>> \notin ledger
  <2>1. ClaimStage(<<x, y>>) = "open"
    <3>1. ~Owed(x, y)
      BY <1>1, <1>4, OwedIsInLedger
    <3>2. ~(made[<<x, y>>] > 0)
      BY <1>1, <1>4 DEF ClaimIsExclusive
    <3> QED
      BY <1>4, <3>1, <3>2, StageOf
  <2>2. ClaimStage(<<x, y>>)' = "owed"
    <3>1. ~(made'[<<x, y>>] > 0)
      BY <1>1, <1>4 DEF ClaimIsExclusive
    <3> QED
      BY <1>1, <1>3, <1>4, <3>1, StageOfNext
  <2>3. ASSUME NEW a \in Apps, NEW d \in Deliveries, <<a, d>> # <<x, y>>
        PROVE  ClaimStage(<<a, d>>)' = ClaimStage(<<a, d>>)
    BY <1>1, <1>3, <2>3, StageOf, StageOfNext
  <2>4. <<x, y>> \in Pairs
    BY <1>1 DEF Pairs
  <2>5. \A p \in Pairs : p # <<x, y>> => ClaimStage(p)' = ClaimStage(p)
    BY <2>3 DEF Pairs
  <2>6. Stages[<<x, y>>] = "open" /\ Stages' = [Stages EXCEPT ![<<x, y>>] = "owed"]
    BY <2>1, <2>2, <2>4, <2>5 DEF Stages
  <2>7. Once!Take(<<x, y>>)
    BY <1>1, <2>6 DEF Once!Take, Stages
  <2> QED
    BY <2>4, <2>7 DEF Once!Next
<1>5. CASE ~(x \in live /\ <<x, y>> \notin ledger)
  <2>1. ASSUME NEW a \in Apps, NEW d \in Deliveries
        PROVE  ClaimStage(<<a, d>>)' = ClaimStage(<<a, d>>)
    BY <1>1, <1>3, <1>5, StageOf, StageOfNext
  <2> QED
    BY <1>1, <2>1, RefinesLose
<1> QED
  BY <1>4, <1>5

LEMMA RefinesQueue ==
  ASSUME IInv, NEW r \in Handlers, QueueDeployment(r)
  PROVE  Once!Next
<1> USE DEF IInv
<1> PICK x \in Apps, y \in Deliveries :
      /\ OthersKeep(r)
      /\ Armed(r, x, y)
      /\ \A a \in Apps, d \in Deliveries :
           /\ ~Armed(r, a, d)'
           /\ Holds(r, a, d)' <=> Holds(r, a, d) /\ a # x
           /\ Holds(r, a, d) => d = y
      /\ made' = [made EXCEPT ![<<x, y>>] = @ + 1]
      /\ UNCHANGED <<live, ledger, faults>>
  BY QueueEffect
<1>1. <<x, y>> \in Pairs /\ made[<<x, y>>] = 0
  BY DEF InsertIsExclusive, Pairs
<1>2. made'[<<x, y>>] = 1
  BY <1>1 DEF TypeOK
<1>3. ClaimStage(<<x, y>>) = "owed"
  BY <1>1, StageOf DEF Owed
<1>4. ClaimStage(<<x, y>>)' = "settled"
  BY <1>2, StageOfNext
<1>5. ASSUME NEW a \in Apps, NEW d \in Deliveries, <<a, d>> # <<x, y>>
      PROVE  ClaimStage(<<a, d>>)' = ClaimStage(<<a, d>>)
  <2>1. made'[<<a, d>>] = made[<<a, d>>]
    BY <1>5 DEF TypeOK, Pairs
  <2>2. ~Armed(r, a, d) /\ (Holds(r, a, d)' <=> Holds(r, a, d))
    BY <1>5 DEF Armed
  <2>3. Owed(a, d)' <=> Owed(a, d)
    BY <2>2 DEF Owed, OthersKeep
  <2> QED
    BY <2>1, <2>3, StageOf, StageOfNext
<1>6. \A p \in Pairs : p # <<x, y>> => ClaimStage(p)' = ClaimStage(p)
  BY <1>5 DEF Pairs
<1>7. Stages[<<x, y>>] = "owed" /\ Stages' = [Stages EXCEPT ![<<x, y>>] = "settled"]
  BY <1>1, <1>3, <1>4, <1>6 DEF Stages
<1>8. Once!Deliver(<<x, y>>)
  BY <1>7 DEF Once!Deliver, Stages
<1> QED
  BY <1>1, <1>8 DEF Once!Next

LEMMA RefinesDelete ==
  ASSUME TypeOK, NEW x \in Apps, DeleteApp(x)
  PROVE  Once!Next
<1>1. /\ live' = live \ {x} /\ UNCHANGED <<made, handler>>
      /\ \A a \in Apps, d \in Deliveries : a # x => (<<a, d>> \in ledger' <=> <<a, d>> \in ledger)
  BY DEF DeleteApp
<1>2. \A r \in Handlers, a \in Apps, d \in Deliveries :
        (Holds(r, a, d)' <=> Holds(r, a, d)) /\ (Armed(r, a, d)' <=> Armed(r, a, d))
  BY <1>1 DEF Holds, Armed, Busy
<1>3. ASSUME NEW a \in Apps, NEW d \in Deliveries
      PROVE  ClaimStage(<<a, d>>)' \in {"settled", ClaimStage(<<a, d>>)}
  <2>1. CASE a # x
    <3>1. Owed(a, d)' <=> Owed(a, d)
      BY <1>1, <1>2, <2>1 DEF Owed
    <3> QED
      BY <1>1, <2>1, <3>1, StageOf, StageOfNext
  <2>2. CASE a = x
    <3>1. Owed(a, d)' => Owed(a, d)
      BY <1>1, <1>2, <2>2 DEF Owed
    <3> QED
      BY <1>1, <2>2, <3>1, StageOf, StageOfNext
  <2> QED
    BY <2>1, <2>2
<1> QED
  BY <1>1, <1>3, RefinesLose

LEMMA RefinesStep == IInv /\ [Next]_vars => [Once!Next]_(Once!vars)
<1> SUFFICES ASSUME IInv, [Next]_vars PROVE Once!Next
  OBVIOUS
<1> USE DEF IInv
<1>1. ASSUME NEW r \in Handlers, LetsGo(r) PROVE Once!Next
  <2>1. \A a \in Apps, d \in Deliveries : Owed(a, d)' => Owed(a, d)
    BY <1>1 DEF LetsGo, HandsOff, OthersKeep, Owed
  <2> QED
    BY <1>1, <2>1, RefinesLetGo DEF LetsGo
<1>2. ASSUME NEW r \in Handlers, NEW x \in Apps, ClaimWebhookDelivery(r, x) PROVE Once!Next
  BY <1>2, RefinesClaim
<1>3. ASSUME NEW r \in Handlers, NEW x \in Apps, ReloadApp(r, x) PROVE Once!Next
  <2>1. /\ OthersKeep(r) /\ x \in live
        /\ \A a \in Apps, d \in Deliveries :
             /\ Holds(r, a, d)' <=> Holds(r, a, d)
             /\ Armed(r, a, d)' => a = x /\ Holds(r, a, d)
        /\ UNCHANGED <<live, ledger, made>>
    BY <1>3, ReloadEffect
  <2>2. \A a \in Apps, d \in Deliveries : Owed(a, d)' => Owed(a, d)
    BY <2>1 DEF OthersKeep, Owed
  <2> QED
    BY <2>1, <2>2, RefinesLetGo
<1>4. ASSUME NEW r \in Handlers, QueueDeployment(r) PROVE Once!Next
  BY <1>4, RefinesQueue
<1>5. ASSUME NEW x \in Apps, DeleteApp(x) PROVE Once!Next
  BY <1>5, RefinesDelete
<1>6. ASSUME Crash PROVE Once!Next
  <2>1. \A a \in Apps, d \in Deliveries : ~Owed(a, d)'
    BY <1>6, CrashEffect DEF HandsOff, Owed
  <2> QED
    BY <1>6, <2>1, CrashEffect, RefinesLetGo
<1>7. ASSUME UNCHANGED <<live, ledger, made, handler>> PROVE Once!Next
  <2>1. \A a \in Apps, d \in Deliveries : Owed(a, d)' => Owed(a, d)
    BY <1>7 DEF Owed, Holds, Armed, Busy
  <2> QED
    BY <1>7, <2>1, RefinesLetGo
<1> QED
  BY <1>1, <1>2, <1>3, <1>4, <1>5, <1>6, <1>7, StepKinds

LEMMA RefinesInit == Init => Once!Init
<1> SUFFICES ASSUME Init PROVE Once!Init
  OBVIOUS
<1>1. \A r \in Handlers, a \in Apps, d \in Deliveries : ~Holds(r, a, d) /\ ~Armed(r, a, d)
  BY DEF Init, Holds, Armed, Busy, Idle
<1>2. ASSUME NEW a \in Apps, NEW d \in Deliveries PROVE ClaimStage(<<a, d>>) = "open"
  <2>1. ~Owed(a, d)
    BY <1>1 DEF Owed
  <2> QED
    BY <2>1, StageOf DEF Init, Pairs
<1>3. \A p \in Pairs : ClaimStage(p) = "open"
  BY <1>2 DEF Pairs
<1> QED
  BY <1>3 DEF Init, Once!Init

(***************************************************************************)
(* Webhook handlers, with their retries, overlaps, failures and deletions, *)
(* implement DeliveryOnce: each step is a step of it or a stutter.         *)
(***************************************************************************)
THEOREM IngestImplementsDeliveryOnce == Spec => ImplementsDeliveryOnce
BY RefinesInit, RefinesStep, IInvCorrect, PTL
DEF Spec, ImplementsDeliveryOnce, Once!Spec

\* The row says the delivery was taken for this application, but nobody deploys it.
Abandoned(p) ==
  p \in ledger /\ made[p] = 0 /\ \A r \in Handlers : ~Holds(r, p[1], p[2])

\* What a step of DeliveryOnce does to a claim that is settled.
LEMMA SettledStays ==
  ASSUME NEW p \in Pairs, ClaimStage(p) = "settled", [Once!Next]_(Once!vars)
  PROVE  ClaimStage(p)' = "settled" /\ made'[p] = made[p]
<1>1. Stages[p] = "settled"
  BY DEF Stages
<1>2. ASSUME Stages'[p] = "settled" /\ made'[p] = made[p]
      PROVE  ClaimStage(p)' = "settled" /\ made'[p] = made[p]
  BY <1>2 DEF Stages
<1>3. ASSUME NEW c \in Pairs, Once!Take(c) PROVE Stages'[p] = "settled" /\ made'[p] = made[p]
  BY <1>1, <1>3 DEF Once!Take, Stages
<1>4. ASSUME NEW c \in Pairs, Once!Deliver(c)
      PROVE  Stages'[p] = "settled" /\ made'[p] = made[p]
  <2>1. c # p /\ made' = [made EXCEPT ![c] = @ + 1] /\ Stages' = [Stages EXCEPT ![c] = "settled"]
    BY <1>1, <1>4 DEF Once!Deliver, Stages
  <2> QED
    BY <1>1, <2>1
<1>5. ASSUME NEW C \in SUBSET Pairs, Once!Lose(C)
      PROVE  Stages'[p] = "settled" /\ made'[p] = made[p]
  BY <1>1, <1>5 DEF Once!Lose, Stages
<1>6. ASSUME UNCHANGED Once!vars PROVE Stages'[p] = "settled" /\ made'[p] = made[p]
  BY <1>1, <1>6 DEF Once!vars, Stages
<1> QED
  BY <1>2, <1>3, <1>4, <1>5, <1>6 DEF Once!Next

(***************************************************************************)
(* A delivery whose handler ended before deploying an application, leaving *)
(* its row in the ledger, is lost for that application for ever: neither   *)
(* repeating it nor deleting the row with the application brings the       *)
(* deployment.  This is the other side of at most once.                    *)
(***************************************************************************)
THEOREM LostDeliveriesStayLost ==
  ASSUME NEW p \in Pairs
  PROVE  Spec => [](Abandoned(p) => [](made[p] = 0))
<1> DEFINE Lost == ClaimStage(p) = "settled" /\ made[p] = 0
<1>1. IInv /\ Abandoned(p) => Lost
  <2> SUFFICES ASSUME IInv, Abandoned(p) PROVE ClaimStage(p) = "settled"
    BY DEF Abandoned
  <2>1. PICK a \in Apps, d \in Deliveries : p = <<a, d>>
    BY DEF Pairs
  <2>2. ~Owed(a, d)
    BY <2>1, ArmedHolds DEF IInv, Abandoned, Owed
  <2> QED
    BY <2>1, <2>2, StageOf DEF Abandoned
<1>2. IInv /\ Lost /\ [Next]_vars => Lost'
  BY RefinesStep, SettledStays
<1>3. Lost => made[p] = 0
  OBVIOUS
<1> HIDE DEF Lost
<1> QED
  BY <1>1, <1>2, <1>3, IInvCorrect, PTL DEF Spec

(***************************************************************************)
(* Where the promise of RetryCompletes does hold: as long as no call has   *)
(* failed, nothing crashed and no application was deleted, an accepted     *)
(* delivery nobody works on any more has all its deployments.              *)
(***************************************************************************)
THEOREM UndisturbedRetriesComplete == Spec => [](faults = 0 /\ live = Apps => RetryCompletes)
<1>1. TypeOK /\ ClaimsAreBacked => (faults = 0 /\ live = Apps => RetryCompletes)
  BY DEF ClaimsAreBacked, RetryCompletes, Holds, TypeOK
<1> QED
  BY <1>1, TypeCorrect, ClaimsStayBacked, PTL
=============================================================================
