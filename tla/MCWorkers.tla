------------------------------ MODULE MCWorkers ------------------------------
(* The components that workers and outside reports drive: the scan queue and   *)
(* the authority over its decisions, billing, mail, webhooks and custom domains.  In these *)
(* modules they share no state, so one run checks them side by side: a         *)
(* behaviour is of one component, and the state space is the sum of theirs.    *)
EXTENDS RiskScan, RiskAuthority, Billing, MailQueue, WebhookDelivery,
        CustomDomain

CONSTANTS
    Sides,              \* the components of the run
    MaxRecords,         \* bound: decisions and overrides together
    fp1, fp2, o1, o2, t1, t2, h1, h2, d1, d2

\* Each order has its transaction, or the first order has both.
MCApart == [t \in Txn |-> IF t = t2 THEN o2 ELSE o1]
MCAssignments == {MCApart, [t \in Txn |-> o1]}
MCPlan == {[links |-> 2, domains |-> 1], [links |-> 1, domains |-> 1],
           [links |-> 1, domains |-> 0]}
MCHookOf == [d \in Delivery |-> IF d = d1 THEN h1 ELSE h2]

VARIABLE side
mcVars == <<side, scanVars, authorityVars, billingVars, mailVars, webhookVars, domainVars>>

ScanSide(A) ==
    side = "scan" /\ A /\ UNCHANGED <<side, authorityVars, billingVars, mailVars, webhookVars, domainVars>>
AuthoritySide(A) ==
    side = "authority" /\ A /\ UNCHANGED <<side, scanVars, billingVars, mailVars, webhookVars, domainVars>>
BillingSide(A) ==
    side = "billing" /\ A /\ UNCHANGED <<side, scanVars, authorityVars, mailVars, webhookVars, domainVars>>
MailSide(A) ==
    side = "mail" /\ A /\ UNCHANGED <<side, scanVars, authorityVars, billingVars, webhookVars, domainVars>>
WebhookSide(A) ==
    side = "webhook" /\ A /\ UNCHANGED <<side, scanVars, authorityVars, billingVars, mailVars, domainVars>>

DomainSide(A) ==
    side = "domain" /\ A /\ UNCHANGED <<side, scanVars, authorityVars, billingVars, mailVars, webhookVars>>

MCInit ==
    /\ ScanInit /\ AuthorityInit /\ BillingInit /\ MailInit /\ WebhookInit /\ DomainInit
    /\ side \in Sides
    /\ (side = "domain" \/ plan = "full") /\ (side = "billing" \/ orderOf = MCApart)
MCNext ==
    \/ ScanSide(ScanNext)
    \/ AuthoritySide(AuthorityNext) /\ Len(decisions') + Len(overrides') <= MaxRecords
    \/ BillingSide(BillingNext)
    \/ MailSide(MailNext)
    \/ WebhookSide(WebhookNext)
    \/ DomainSide(DomainNext)
SafeSpec == MCInit /\ [][MCNext]_mcVars

\* The fairness of the components that decide, on their sides.
FairDecisions ==
    /\ SafeSpec
    /\ \A w \in Monitor : WF_mcVars(ScanSide(RunOnce(w)))
    /\ \A s \in Scan : WF_mcVars(ScanSide(LeaseEnds(s)))
    /\ \A p \in Projector : WF_mcVars(AuthoritySide(Project(p)))
    /\ \A fp \in Fingerprint : WF_mcVars(AuthoritySide(EntryExpires(fp)))
    /\ \A t \in Txn, out \in PaymentOutcome :
           WF_mcVars(BillingSide(ApplyAuthenticatedCallback(t, out)))
    /\ WF_mcVars(BillingSide(Tick))
=============================================================================
