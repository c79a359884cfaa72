SPECIFICATION SafeSpec
CONSTANTS
    fp1 = fp1
    fp2 = fp2
    o1 = o1
    o2 = o2
    t1 = t1
    t2 = t2
    h1 = h1
    h2 = h2
    d1 = d1
    d2 = d2
    Fingerprint = {fp1, fp2}
    Outcome = {"allow", "block"}
    Monitor = {m1, m2}
    NoScan = NoScan
    NoOutcome = NoOutcome
    Nobody = Nobody
    Report = {r1}
    Projector = {p1}
    NoReport = NoReport
    Order = {o1, o2}
    Assignments <- MCAssignments
    Capability = {"links", "domains"}
    CustomDomains = "domains"
    Plan <- MCPlan
    Term = 2
    Grace = 1
    MaxDepth = 2
    MaxRecords = 2
    MailWorker = {w1, w2}
    NoJob = NoJob
    Probe = {}
    External = {"abuse"}
    Evaluation = {1}
    MaxVersion = 2
    MaxChecks = 1
    Hook = {h1, h2}
    Delivery = {d1, d2}
    HookOf <- MCHookOf
    Sender = {n1, n2}
    MaxDeliveryAttempts = 2
    NoDelivery = NoDelivery
    NoLease = NoLease
    Orphan = Orphan
    Sides = {"scan", "authority", "billing", "mail", "webhook", "domain"}
    Scan = {s1, s2}
    MaxAttempts = 2
    MaxOverrides = 1
    Txn = {t1, t2}
    MaxNow = 5
    MailJob = {1, 2, 3}
    AuthJob = {3}
    MaxMailAttempts = 2
    MaxMailSettings = 2
    MaxMailStops = 1
    Unversioned = {d2}
    MaxLost = 1
    MaxSenderStops = 1
INVARIANTS OrderSafety PlanSafety
PROPERTIES AuthoritySafety ScanSafety MailSafety WebhookSafety DomainSafety
CHECK_DEADLOCK FALSE
