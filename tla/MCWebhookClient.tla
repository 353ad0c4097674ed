-------------------------- MODULE MCWebhookClient --------------------------
(* TLC's instance of the webhook client: the three attempts of the code.   *)
EXTENDS WebhookClient

=============================================================================
