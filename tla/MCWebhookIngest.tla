--------------------------- MODULE MCWebhookIngest ---------------------------
(* Instances of WebhookIngest for TLC.  Liveness is checked, so without symmetry. *)
EXTENDS WebhookIngest
=============================================================================
