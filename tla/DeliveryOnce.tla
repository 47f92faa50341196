----------------------------- MODULE DeliveryOnce -----------------------------
(***************************************************************************)
(* What the ledger of webhook deliveries promises about one claim, the     *)
(* right to deploy one application for one delivery.                       *)
(*                                                                         *)
(* A claim is taken at most once.  Whoever took it may use it for one      *)
(* deployment or may lose it, and a claim nobody took may be lost as well  *)
(* (its application is deleted).  Used or lost, it is settled for good:    *)
(* repeating the delivery brings no second deployment and, just as surely, *)
(* never makes up for the one that was lost.                               *)
(***************************************************************************)
EXTENDS Naturals

CONSTANT Claims   \* pairs of an application and a delivery

VARIABLES
  stage,          \* how far each claim has come
  made            \* how many deployments were inserted for it

vars == <<stage, made>>

Stages == {"open", "owed", "settled"}

Init ==
  /\ stage = [c \in Claims |-> "open"]
  /\ made = [c \in Claims |-> 0]

Take(c) ==
  /\ stage[c] = "open"
  /\ stage' = [stage EXCEPT ![c] = "owed"]
  /\ UNCHANGED made

Deliver(c) ==
  /\ stage[c] = "owed"
  /\ stage' = [stage EXCEPT ![c] = "settled"]
  /\ made' = [made EXCEPT ![c] = @ + 1]

\* Handlers fail or the process crashes, an application is deleted: all of C is lost.
Lose(C) ==
  /\ stage' = [c \in Claims |-> IF c \in C THEN "settled" ELSE stage[c]]
  /\ UNCHANGED made

Next ==
  \/ \E c \in Claims : Take(c) \/ Deliver(c)
  \/ \E C \in SUBSET Claims : Lose(C)

Spec == Init /\ [][Next]_vars

\* Every variable has its type, and only a settled claim has its one deployment.
TypeOK ==
  /\ stage \in [Claims -> Stages]
  /\ made \in [Claims -> 0 .. 1]
  /\ \A c \in Claims : made[c] = 1 => stage[c] = "settled"
=============================================================================
