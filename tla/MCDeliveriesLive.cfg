SPECIFICATION MCSpec
CONSTANTS
    MailJob = {1, 2}
    AuthJob = {2}
    MailWorker = {w1, w2}
    MaxMailAttempts = 3
    MaxMailSettings = 2
    MaxMailStops = 1
    NoJob = NoJob
    h1 = h1
    h2 = h2
    d1 = d1
    d2 = d2
    Hook = {h1, h2}
    Delivery = {d1, d2}
    HookOf <- MCHookOf
    Unversioned = {}
    Sender = {m1, m2}
    MaxDeliveryAttempts = 2
    MaxLost = 0
    MaxSenderStops = 1
    NoDelivery = NoDelivery
    NoLease = NoLease
    Orphan = Orphan
PROPERTIES MailSettles EventsAreDelivered
CHECK_DEADLOCK FALSE
