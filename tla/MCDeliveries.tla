---------------------------- MODULE MCDeliveries ----------------------------
(* The two queues that deliver to the outside, mail and webhooks, under the   *)
(* fairness of their workers.  A behaviour is of one or of the other.          *)
EXTENDS MailQueue, WebhookDelivery

CONSTANTS h1, h2, d1, d2

MCHookOf == [d \in Delivery |-> IF d = d1 THEN h1 ELSE h2]

VARIABLE side
mcVars == <<side, mailVars, webhookVars>>

MailSide(A) == side = "mail" /\ A /\ UNCHANGED <<side, webhookVars>>
WebhookSide(A) == side = "webhook" /\ A /\ UNCHANGED <<side, mailVars>>

MCInit == side \in {"mail", "webhook"} /\ MailInit /\ WebhookInit
MCNext ==
    \/ MailSide(MailNext)
    \/ WebhookSide(WebhookNext)
MCSpec ==
    /\ MCInit /\ [][MCNext]_mcVars
    /\ \A w \in MailWorker : WF_mcVars(MailSide(MailRunOnce(w)))
    /\ \A j \in MailJob : WF_mcVars(MailSide(RetryFallsDue(j)))
    /\ \A m \in Sender : WF_mcVars(WebhookSide(RunDeliveryOnce(m)))
    /\ \A d \in Delivery :
           /\ SF_mcVars(WebhookSide(\E m \in Sender : QueueDelivery(m, d)))
           /\ SF_mcVars(WebhookSide(\E m \in Sender : NextDueDelivery(m, d)))
           /\ WF_mcVars(WebhookSide(DeliveryFallsDue(d)))
           /\ WF_mcVars(WebhookSide(OrphanEnds(d)))
=============================================================================
