------------------------ MODULE MCWebhookRegistration ------------------------
(***************************************************************************)
(* WebhookRegistration for TLC: the constants get their values in the cfg. *)
(***************************************************************************)
EXTENDS WebhookRegistration
==============================================================================
