-------------------------- MODULE MCWebhookDelivery --------------------------
(* Small instances of WebhookDelivery: the tries and the limit of the code *)
(* scaled down so that both are reached.                                   *)
EXTENDS WebhookDelivery

FirstUnreachable == {1}
=============================================================================
