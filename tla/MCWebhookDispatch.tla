------------------------- MODULE MCWebhookDispatch -------------------------
(***************************************************************************)
(* Small instances of the outbound webhooks: one event, two endpoints,     *)
(* two processes.                                                          *)
(***************************************************************************)
EXTENDS WebhookDispatch
=============================================================================
