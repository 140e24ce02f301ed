------------------------- MODULE MCWebhookDelivery -------------------------
(* Values of the webhook outbox's constants for TLC. *)
EXTENDS WebhookDelivery

\* Two waits, so three attempts; the code has four waits.
MCBackoff == <<1, 2>>
=============================================================================
