-------------------------- MODULE MCWebhookOutbox --------------------------
(* One event and two endpoints, the second of whose secrets was sealed under *)
(* a key that is gone.                                                       *)
EXTENDS WebhookOutbox

MCBoth == { <<"filed", 1>>, <<"filed", 2>> }

=============================================================================
