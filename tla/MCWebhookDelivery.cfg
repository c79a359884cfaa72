SPECIFICATION FairWebhookSpec
CONSTANTS
    h1 = h1
    h2 = h2
    d1 = d1
    d2 = d2
    Hook = {h1, h2}
    Delivery = {d1, d2}
    HookOf <- MCHookOf
    Sender = {m1}
    MaxDeliveryAttempts = 2
    MaxLost = 0
    MaxSenderStops = 0
    NoDelivery = NoDelivery
    NoLease = NoLease
    Orphan = Orphan
    Unversioned = {d2}
PROPERTIES CommittedEventsAreQueued
