----------------------------- MODULE MCWebhook -----------------------------
(* The instances of Webhook for TLC.                                        *)
EXTENDS Webhook
=============================================================================
