----------------------------- MODULE MCWebhooks -----------------------------
(* Webhooks with one movement and one order: subjects share nothing but    *)
(* the account's configuration and the process.                            *)
EXTENDS Webhooks

CONSTANTS m1, r1
=============================================================================
