------------------------- MODULE MCWebhookDelivery -------------------------
EXTENDS WebhookDelivery
CONSTANTS h1, h2, d1, d2
MCHookOf == [d \in Delivery |-> IF d = d1 THEN h1 ELSE h2]
=============================================================================
