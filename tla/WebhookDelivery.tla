-------------------------- MODULE WebhookDelivery --------------------------
(***************************************************************************)
(* Outbound webhooks of internal/admin: link events committed to MySQL are *)
(* turned into delivery rows, and operations monitors deliver them, each   *)
(* under a Redis lease of two minutes.  The lease is not fenced: a result  *)
(* is recorded on the row's status alone.  Events are read together, a     *)
(* hundred at a time, with the version their audit record carries.         *)
(***************************************************************************)
EXTENDS Naturals, FiniteSets

CONSTANTS
    Hook,                   \* workspace_webhooks
    Delivery,               \* pairs of a webhook and an event it subscribes to
    HookOf,                 \* the webhook of a delivery
    Unversioned,            \* those of a link.update or a link.restore, whose audit
                            \* record has from_version and to_version but no version
    Sender,                 \* operationsmonitor processes
    MaxDeliveryAttempts,    \* workspaceWebhookMaxAttempts
    MaxLost,                \* bound: leases lost by a monitor that goes on
    MaxSenderStops,         \* bound: monitors that stop, results that are not recorded
    NoDelivery, NoLease, Orphan

ASSUME WebhookAssumption ==
    /\ MaxDeliveryAttempts \in Nat \ {0} /\ MaxLost \in Nat /\ MaxSenderStops \in Nat
    /\ NoDelivery \notin Delivery
    /\ HookOf \in [Delivery -> Hook] /\ Unversioned \subseteq Delivery
    /\ NoLease \notin Sender \cup {Orphan} /\ Orphan \notin Sender

DeliveryStatus == {"none", "retrying", "delivered", "failed"}
Answer == {"accepted", "refused", "permanent"}

VARIABLES
    hookActive,     \* workspace_webhooks: status = 'active'
    happened,       \* events in link_audit_events since their webhook was created
    deliveries,     \* workspace_webhook_deliveries: status, attempts, next_attempt_at come
    leases,         \* Redis: whose token a delivery's lease holds
    senders,        \* what each monitor is doing, with the attempts it read
    posts,          \* POSTs of a delivery since it was queued or retried by hand
    accepted,       \* deliveries an endpoint has accepted
    lost, senderStops

webhookVars == <<hookActive, happened, deliveries, leases, senders, posts, accepted,
                 lost, senderStops>>
ghosts == <<posts, accepted, lost, senderStops>>

IdleSender == [at |-> "idle", of |-> NoDelivery, attempts |-> 0, answer |-> "refused"]
Carries(m) == senders[m].of
Released(m) == IF leases[Carries(m)] = m THEN [leases EXCEPT ![Carries(m)] = NoLease] ELSE leases
GoIdle(m) == senders' = [senders EXCEPT ![m] = IdleSender] /\ leases' = Released(m)
Due(d) == deliveries[d].status = "retrying" /\ deliveries[d].due

-----------------------------------------------------------------------------
\* A link is changed: the audit row is written in the transaction of the change.
LinkEvent(d) ==
    /\ d \notin happened
    /\ happened' = happened \cup {d}
    /\ UNCHANGED <<hookActive, deliveries, leases, senders, ghosts>>

SetEnabled(h, enabled) ==
    /\ hookActive' = [hookActive EXCEPT ![h] = enabled]
    /\ UNCHANGED <<happened, deliveries, leases, senders, ghosts>>

FreshDelivery == [status |-> "retrying", attempts |-> 0, due |-> TRUE]

ActiveHook(d) == hookActive[HookOf[d]]
\* What QueueLinkEvents selects: fewer than its limit of 100.
Unqueued == {d \in happened : ActiveHook(d) /\ deliveries[d].status = "none"}

\* Bug: only the latest event of a webhook is looked for.
BugQueueOnlyFirst(m, d) ==
    /\ senders[m].at = "idle"
    /\ d \in Unqueued /\ Unqueued \cap Unversioned = {}
    /\ \A e \in Delivery : deliveries[e].status = "none"
    /\ deliveries' = [deliveries EXCEPT ![d] = FreshDelivery]
    /\ UNCHANGED <<hookActive, happened, leases, senders, ghosts>>

\* QueueLinkEvents scans all it selects before it queues the first: a record whose
\* version is NULL fails the whole call, for every webhook.  The unique key of the
\* webhook and the event makes the insert harmless when another monitor was faster.
QueueDelivery(m, d) ==
    /\ senders[m].at = "idle"
    /\ d \in Unqueued
    /\ Unqueued \cap Unversioned = {}
    /\ deliveries' = [deliveries EXCEPT ![d] = FreshDelivery]
    /\ UNCHANGED <<hookActive, happened, leases, senders, ghosts>>

\* A manager retries by hand what failed.
RetryDelivery(d) ==
    /\ ActiveHook(d)
    /\ deliveries[d].status = "failed"
    /\ deliveries' = [deliveries EXCEPT ![d] = FreshDelivery]
    /\ posts' = [posts EXCEPT ![d] = 0]
    /\ UNCHANGED <<hookActive, happened, leases, senders, accepted, lost, senderStops>>

\* next_attempt_at comes.
DeliveryFallsDue(d) ==
    /\ deliveries[d].status = "retrying" /\ ~deliveries[d].due
    /\ deliveries' = [deliveries EXCEPT ![d].due = TRUE]
    /\ UNCHANGED <<hookActive, happened, leases, senders, ghosts>>

\* The first due delivery of an active webhook; which one is first is left open.
NextDueDelivery(m, d) ==
    /\ senders[m].at = "idle"
    /\ Due(d) /\ ActiveHook(d)
    /\ senders' = [senders EXCEPT ![m] = [IdleSender EXCEPT !.at = "picked", !.of = d]]
    /\ UNCHANGED <<hookActive, happened, deliveries, leases, ghosts>>

\* SetNX; a monitor that finds a lease ends its iteration.
TakeLease(m) ==
    /\ senders[m].at = "picked"
    /\ IF leases[Carries(m)] = NoLease
       THEN /\ leases' = [leases EXCEPT ![Carries(m)] = m]
            /\ senders' = [senders EXCEPT ![m].at = "leased"]
       ELSE GoIdle(m)
    /\ UNCHANGED <<hookActive, happened, deliveries, ghosts>>

LoadWorkerDelivery(m) ==
    /\ senders[m].at = "leased"
    /\ IF ActiveHook(Carries(m)) /\ Due(Carries(m))
       THEN /\ senders' = [senders EXCEPT ![m].at = "posting",
                                          ![m].attempts = deliveries[Carries(m)].attempts]
            /\ UNCHANGED leases
       ELSE GoIdle(m)
    /\ UNCHANGED <<hookActive, happened, deliveries, ghosts>>

\* A permanent failure (no secret, an unsafe address) comes before anything is sent.
Post(m, answer) ==
    LET d == Carries(m) IN
    /\ senders[m].at = "posting"
    /\ senders' = [senders EXCEPT ![m].at = "marking", ![m].answer = answer]
    /\ posts' = [posts EXCEPT ![d] = IF answer = "permanent" THEN @ ELSE @ + 1]
    /\ accepted' = IF answer = "accepted" THEN accepted \cup {d} ELSE accepted
    /\ UNCHANGED <<hookActive, happened, deliveries, leases, lost, senderStops>>

\* What markDeliverySuccess and markDeliveryFailure write, from the attempts read
\* before the POST.
MarkedRow(m) ==
    LET n == senders[m].attempts + 1 IN
    CASE senders[m].answer = "accepted" -> [status |-> "delivered", attempts |-> n, due |-> FALSE]
      [] senders[m].answer = "permanent" \/ (senders[m].answer = "refused" /\ n >= MaxDeliveryAttempts) ->
            [status |-> "failed", attempts |-> n, due |-> FALSE]
      [] OTHER -> [status |-> "retrying", attempts |-> n, due |-> FALSE]

\* Bug: the row's status is not tested.
BugMarkWhatever(m) ==
    /\ senders[m].at = "marking"
    /\ deliveries' = [deliveries EXCEPT ![Carries(m)] = MarkedRow(m)]
    /\ GoIdle(m)
    /\ UNCHANGED <<hookActive, happened, ghosts>>

\* No rows, an error, when the delivery is no longer 'retrying'.
MarkDelivery(m) ==
    LET d == Carries(m) IN
    /\ senders[m].at = "marking"
    /\ deliveries' = IF deliveries[d].status = "retrying"
                     THEN [deliveries EXCEPT ![d] = MarkedRow(m)] ELSE deliveries
    /\ GoIdle(m)
    /\ UNCHANGED <<hookActive, happened, ghosts>>

\* The result cannot be recorded; the lease is given back.
MarkFails(m) ==
    /\ senders[m].at = "marking"
    /\ senderStops < MaxSenderStops
    /\ senderStops' = senderStops + 1
    /\ GoIdle(m)
    /\ UNCHANGED <<hookActive, happened, deliveries, posts, accepted, lost>>

\* The process ends; its lease stays until Redis ends it.
SenderStops(m) ==
    /\ senders[m].at \notin {"idle", "picked"}
    /\ senderStops < MaxSenderStops
    /\ senderStops' = senderStops + 1
    /\ leases' = IF leases[Carries(m)] = m THEN [leases EXCEPT ![Carries(m)] = Orphan] ELSE leases
    /\ senders' = [senders EXCEPT ![m] = IdleSender]
    /\ UNCHANGED <<hookActive, happened, deliveries, posts, accepted, lost>>

OrphanEnds(d) ==
    /\ leases[d] = Orphan
    /\ leases' = [leases EXCEPT ![d] = NoLease]
    /\ UNCHANGED <<hookActive, happened, deliveries, senders, ghosts>>

\* Redis loses a lease, or its two minutes end before a stalled monitor is done.
LeaseLost(d) ==
    /\ leases[d] \in Sender
    /\ lost < MaxLost
    /\ lost' = lost + 1
    /\ leases' = [leases EXCEPT ![d] = NoLease]
    /\ UNCHANGED <<hookActive, happened, deliveries, senders, posts, accepted, senderStops>>

-----------------------------------------------------------------------------
WebhookInit ==
    /\ hookActive = [h \in Hook |-> TRUE]
    /\ happened = {}
    /\ deliveries = [d \in Delivery |-> [status |-> "none", attempts |-> 0, due |-> FALSE]]
    /\ leases = [d \in Delivery |-> NoLease]
    /\ senders = [m \in Sender |-> IdleSender]
    /\ posts = [d \in Delivery |-> 0]
    /\ accepted = {}
    /\ lost = 0 /\ senderStops = 0

RunDeliveryOnce(m) ==
    \/ \E d \in Delivery : NextDueDelivery(m, d)
    \/ TakeLease(m)
    \/ LoadWorkerDelivery(m)
    \/ \E answer \in Answer : Post(m, answer)
    \/ MarkDelivery(m)

WebhookNext ==
    \/ \E d \in Delivery : LinkEvent(d) \/ RetryDelivery(d) \/ DeliveryFallsDue(d)
                               \/ OrphanEnds(d) \/ LeaseLost(d)
    \/ \E h \in Hook, enabled \in BOOLEAN : SetEnabled(h, enabled)
    \/ \E m \in Sender : \/ \E d \in Delivery : QueueDelivery(m, d)
                         \/ RunDeliveryOnce(m) \/ MarkFails(m) \/ SenderStops(m)

\* Monitors run on their tickers: each iteration queues what it finds and attempts
\* the delivery that is due longest, so none waits for ever for some monitor.  Time
\* passes and Redis ends what nobody renews.
WebhookFairness ==
    /\ \A m \in Sender : WF_webhookVars(RunDeliveryOnce(m))
    /\ \A d \in Delivery :
           /\ SF_webhookVars(\E m \in Sender : QueueDelivery(m, d))
           /\ SF_webhookVars(\E m \in Sender : NextDueDelivery(m, d))
           /\ WF_webhookVars(DeliveryFallsDue(d)) /\ WF_webhookVars(OrphanEnds(d))

WebhookSpec == WebhookInit /\ [][WebhookNext]_webhookVars
FairWebhookSpec == WebhookSpec /\ WebhookFairness

-----------------------------------------------------------------------------
WebhookTypeOK ==
    /\ hookActive \in [Hook -> BOOLEAN] /\ happened \subseteq Delivery
    /\ deliveries \in [Delivery -> [status : DeliveryStatus, attempts : 0 .. MaxDeliveryAttempts,
                                    due : BOOLEAN]]
    /\ leases \in [Delivery -> Sender \cup {NoLease, Orphan}]
    /\ senders \in [Sender -> [at : {"idle", "picked", "leased", "posting", "marking"},
                               of : Delivery \cup {NoDelivery},
                               attempts : 0 .. MaxDeliveryAttempts - 1, answer : Answer]]
    /\ posts \in [Delivery -> Nat] /\ accepted \subseteq Delivery
    /\ lost \in 0 .. MaxLost /\ senderStops \in 0 .. MaxSenderStops

Under(d) == {m \in Sender : Carries(m) = d /\ senders[m].at # "picked"}
Marking(d) == {m \in Under(d) : senders[m].at = "marking"}

\* Two monitors work on one delivery only where a lease was lost.
OneMonitorPerLease == \A d \in Delivery : Cardinality(Under(d)) <= 1 + lost

\* While no lease is lost, every POST is counted in the row's attempts, but for
\* the one whose result is on its way and those whose monitor stopped.
PostsAreCounted ==
    lost = 0 => \A d \in Delivery :
        posts[d] <= deliveries[d].attempts + Cardinality(Marking(d)) + senderStops

\* 'delivered' is final and says the endpoint accepted; what failed comes back
\* only by hand, with all its attempts; no row goes away.
DeliveryIsFinal ==
    [][\A d \in Delivery :
          /\ deliveries[d].status = "delivered" => deliveries'[d] = deliveries[d]
          /\ deliveries[d].status = "failed" => deliveries'[d] \in {deliveries[d], FreshDelivery}
          /\ deliveries'[d].status = "delivered" => d \in accepted]_webhookVars

EventuallyOver(d) == d \in happened ~> deliveries[d].status \in {"delivered", "failed"}

\* While its webhook stays active, an event of its links is queued and its delivery
\* is accepted or fails for good, unless an update that no webhook can be told of
\* is in the way.
EventsAreDelivered ==
    \A d \in Delivery :
        (<>[]ActiveHook(d)) /\ <>[](Unqueued \cap Unversioned = {}) => EventuallyOver(d)

\* "QueueLinkEvents reconciles committed product audit events into the durable
\* delivery queue": an event of an active webhook is queued.  Not so once a link of
\* a webhook that subscribes to link.updated is edited.
CommittedEventsAreQueued ==
    \A d \in Delivery :
        (<>[]ActiveHook(d)) => (d \in happened ~> deliveries[d].status # "none")

\* The delivery queue as a whole: leases keep monitors apart, posts are counted, and
\* 'delivered' is the endpoint's word and final.
WebhookSafety ==
    /\ [](WebhookTypeOK /\ OneMonitorPerLease /\ PostsAreCounted)
    /\ DeliveryIsFinal
=============================================================================
