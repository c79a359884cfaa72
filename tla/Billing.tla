------------------------------- MODULE Billing -------------------------------
(***************************************************************************)
(* Billing of one workspace (internal/billing): orders, the payment        *)
(* provider's callbacks, subscriptions with their entitlement grants, the  *)
(* scheduled downgrade with its grace, and the plan sources it projects    *)
(* into internal/domains.  Each callback and each downgrade request is one *)
(* serializable transaction; the provider reports in any order and repeats *)
(* a report until it is accepted.                                          *)
(***************************************************************************)
EXTENDS Integers, FiniteSets

CONSTANTS
    Order,          \* orders a workspace may place
    Txn,            \* the provider's transactions
    Assignments,    \* which order each transaction may be a payment of
    Capability,     \* what a plan may grant
    CustomDomains,  \* the capability internal/domains keeps its own source for
    Plan,           \* plans: the limit of each capability, 0 when not granted
    Term, Grace,    \* length of a billing term and of the downgrade grace
    MaxDepth,       \* bound: downgrades of one paid subscription
    MaxNow          \* bound on the clock

ASSUME BillingAssumption ==
    /\ Assignments \subseteq [Txn -> Order]
    /\ CustomDomains \in Capability
    /\ Plan \subseteq [Capability -> Nat] /\ Plan # {}
    /\ Term \in Nat \ {0} /\ Grace \in Nat \ {0}
    /\ MaxDepth \in Nat /\ MaxNow \in Nat

\* Subscription ids: <<o, 0>> hashes the order, <<o, n + 1>> the subscription
\* <<o, n>> and the end of its grace.
Sub == Order \X (0 .. MaxDepth)
Target(s) == <<s[1], s[2] + 1>>

Never == -1
PaymentOutcome == {"paid", "failed", "refunded"}
OrderStatus == {"none", "pending", "paid", "failed", "refunded"}
SubStatus == {"none", "pending", "active", "grace", "canceled", "expired"}
Current == {"active", "grace"}
SubRow == [status : SubStatus, plan : Plan, starts : Nat, until : Nat, revoked : BOOLEAN]
Source == [status : {"none", "active", "expired"}, limit : Nat,
           starts : Nat, expires : Nat, degraded : Nat \cup {Never}]

VARIABLES
    now,
    orders,     \* billing_orders (an invoice follows its order)
    planOf,     \* the plan an order is for
    orderOf,    \* the order each transaction pays; the provider's choice
    txns,       \* billing_transactions
    callback,   \* payment_callback_events, and what the provider still repeats
    subs,       \* workspace_subscriptions; until and revoked are their grants'
    sources     \* custom_domain_entitlement_sources of kind plan, by source key

billingVars == <<now, orders, planOf, orderOf, txns, callback, subs, sources>>

AnyPlan == CHOOSE p \in Plan : TRUE
NoSub == [status |-> "none", plan |-> AnyPlan, starts |-> 0, until |-> 0, revoked |-> FALSE]
NoSource == [status |-> "none", limit |-> 0, starts |-> 0, expires |-> 0, degraded |-> Never]

-----------------------------------------------------------------------------
\* The resolvers, asked about the instant t.
Granting(s, t) ==
    /\ subs[s].status # "none" /\ ~subs[s].revoked
    /\ subs[s].starts <= t /\ t < subs[s].until

SourceInForce(k, t) ==
    /\ sources[k].status = "active" /\ sources[k].starts <= t
    /\ t < IF sources[k].degraded # Never /\ sources[k].degraded <= t
           THEN sources[k].degraded + Grace
           ELSE sources[k].expires

-----------------------------------------------------------------------------
Pending == {s \in Sub : subs[s].status = "pending"}

\* Constraint chk_entitlement_grant_revoke: a grant is not revoked before it
\* starts, so the transaction that tries is rolled back.
Cancelable == \A s \in Pending :
    subs[s].starts <= now \/ \A c \in Capability : subs[s].plan[c] = 0

ExpireSource(r) ==
    IF r.status = "none" THEN r
    ELSE [r EXCEPT !.status = "expired", !.degraded = Never]

PlanSource(p, from, to) ==
    [status |-> "active", limit |-> p[CustomDomains], starts |-> from, expires |-> to,
     degraded |-> Never]

ActivateSubscription(o) ==
    subs' = [s \in Sub |->
        IF s = <<o, 0>>
        THEN [status |-> "active", plan |-> planOf[o], starts |-> now,
              until |-> now + Term, revoked |-> FALSE]
        ELSE IF subs[s].status = "none" THEN subs[s]
        ELSE [subs[s] EXCEPT
                !.status = CASE @ = "pending" -> "canceled"
                             [] @ \in Current -> "expired"
                             [] OTHER -> @,
                !.revoked = TRUE]]

ProjectDomainEntitlement(o) ==
    sources' = [plan |-> IF planOf[o][CustomDomains] > 0
                         THEN PlanSource(planOf[o], now, now + Term)
                         ELSE ExpireSource(sources["plan"]),
                target |-> ExpireSource(sources["target"])]

ControlsCurrent(o) == subs[<<o, 0>>].status \in Current

\* Bug: any refund ends the downgrade and the domains of the workspace.
BugRefundAlwaysControls(o) ==
    /\ subs' = [s \in Sub |->
         IF subs[s].status = "pending" \/ (s = <<o, 0>> /\ subs[s].status # "none")
         THEN [subs[s] EXCEPT !.status = "canceled", !.revoked = TRUE]
         ELSE subs[s]]
    /\ sources' = [k \in DOMAIN sources |-> ExpireSource(sources[k])]

\* Bug: the grants of a refunded subscription survive.
BugRefundKeepsGrants(o) ==
    /\ subs' = [s \in Sub |->
         CASE s = <<o, 0>> /\ subs[s].status # "none" -> [subs[s] EXCEPT !.status = "canceled"]
           [] ControlsCurrent(o) /\ subs[s].status = "pending" ->
                [subs[s] EXCEPT !.status = "canceled", !.revoked = TRUE]
           [] OTHER -> subs[s]]
    /\ sources' = IF ControlsCurrent(o)
                  THEN [k \in DOMAIN sources |-> ExpireSource(sources[k])]
                  ELSE sources

RevokeSubscription(o) ==
    /\ subs' = [s \in Sub |->
         IF \/ s = <<o, 0>> /\ subs[s].status # "none"
            \/ ControlsCurrent(o) /\ subs[s].status = "pending"
         THEN [subs[s] EXCEPT !.status = "canceled", !.revoked = TRUE]
         ELSE subs[s]]
    /\ sources' = IF ControlsCurrent(o)
                  THEN [k \in DOMAIN sources |-> ExpireSource(sources[k])]
                  ELSE sources

-----------------------------------------------------------------------------
TransactionTransitionAllowed(from, to) ==
    from = "none" \/ from = to \/ (from = "paid" /\ to = "refunded")

\* Bug: only the refund of what is current is taken.
BugRefundOfCurrentOnly(t, out) ==
    LET o == orderOf[t] IN
    /\ TransactionTransitionAllowed(txns[t], out)
    /\ CASE out = "paid"     -> orders[o] = "paid" \/ (orders[o] = "pending" /\ Cancelable)
         [] out = "failed"   -> orders[o] \in {"pending", "failed"}
         [] out = "refunded" -> orders[o] = "refunded" \/
                                (orders[o] = "paid" /\ ControlsCurrent(o) /\ Cancelable)

\* A report is accepted, or refused and rolled back with the row of its event.
Acceptable(t, out) ==
    LET o == orderOf[t] IN
    /\ TransactionTransitionAllowed(txns[t], out)
    /\ CASE out = "paid"     -> orders[o] = "paid" \/ (orders[o] = "pending" /\ Cancelable)
         [] out = "failed"   -> orders[o] \in {"pending", "failed"}
         [] out = "refunded" -> orders[o] = "refunded" \/
                                (orders[o] = "paid" /\ (ControlsCurrent(o) => Cancelable))

\* The same report again, once processed, changes nothing.
ApplyAuthenticatedCallback(t, out) ==
    LET o == orderOf[t] IN
    /\ callback[t][out] \in {"sent", "refused"} /\ Acceptable(t, out)
    /\ txns' = [txns EXCEPT ![t] = out]
    /\ orders' = [orders EXCEPT ![o] = out]
    /\ callback' = [callback EXCEPT ![t][out] = "processed"]
    /\ CASE out = "paid" /\ orders[o] # "paid" ->
              ActivateSubscription(o) /\ ProjectDomainEntitlement(o)
         [] out = "refunded" /\ orders[o] # "refunded" -> RevokeSubscription(o)
         [] OTHER -> UNCHANGED <<subs, sources>>
    /\ UNCHANGED <<now, planOf, orderOf>>

RefuseCallback(t, out) ==
    /\ callback[t][out] = "sent" /\ ~Acceptable(t, out)
    /\ callback' = [callback EXCEPT ![t][out] = "refused"]
    /\ UNCHANGED <<now, orders, planOf, orderOf, txns, subs, sources>>

CreateOrder(o, p) ==
    /\ orders[o] = "none"
    /\ orders' = [orders EXCEPT ![o] = "pending"]
    /\ planOf' = [planOf EXCEPT ![o] = p]
    /\ UNCHANGED <<now, orderOf, txns, callback, subs, sources>>

\* The provider: a charge succeeds or fails; a charge that succeeded may be
\* refunded.
ProviderReports(t, out) ==
    /\ orders[orderOf[t]] # "none"
    /\ callback[t][out] = "unsent"
    /\ IF out = "refunded" THEN callback[t]["paid"] # "unsent"
       ELSE callback[t]["paid"] = "unsent" /\ callback[t]["failed"] = "unsent"
    /\ callback' = [callback EXCEPT ![t][out] = "sent"]
    /\ UNCHANGED <<now, orders, planOf, orderOf, txns, subs, sources>>

-----------------------------------------------------------------------------
\* strictPlanDowngrade; prices, currencies and periods follow the limits.
StrictDowngrade(from, to) == from # to /\ \A c \in Capability : to[c] <= from[c]

\* The projection of a downgrade of a subscription with plan p to plan q.
DowngradedSources(src, p, q) ==
    IF p[CustomDomains] = 0 THEN [src EXCEPT !["target"] = ExpireSource(@)]
    ELSE [plan |-> [src["plan"] EXCEPT !.degraded = now],
          target |-> IF q[CustomDomains] = 0 THEN ExpireSource(src["target"])
                     ELSE PlanSource(q, now + Grace, now + Grace + Term)]

\* The current subscription s, in state was, ends with a grace; the target
\* starts when the grace ends.  The last conjunct is the bound.
EnterGrace(s, q, was, src) ==
    /\ Target(s) \in Sub
    /\ was[s].status = "active" /\ was[s].starts < now
    /\ StrictDowngrade(was[s].plan, q)
    /\ \A r \in Sub : was[r].status # "pending"
    /\ was[s].plan[CustomDomains] > 0 =>
         src["plan"].status = "active" /\ src["plan"].degraded = Never
    /\ subs' = [was EXCEPT
         ![s] = [@ EXCEPT !.status = "grace", !.until = now + Grace],
         ![Target(s)] = [status |-> "pending", plan |-> q, starts |-> now + Grace,
                         until |-> now + Grace + Term, revoked |-> FALSE]]
    /\ sources' = DowngradedSources(src, was[s].plan, q)
    /\ now + Grace <= MaxNow
    /\ UNCHANGED <<now, orders, planOf, orderOf, txns, callback>>

\* A downgrade that is due is promoted by the next request to downgrade, in the
\* same transaction.
Promoted(s) ==
    [subs EXCEPT ![s].status = "expired", ![Target(s)].status = "active"]

PromotedSources(s) ==
    LET r == subs[Target(s)] IN
    [plan |-> IF r.plan[CustomDomains] > 0 THEN PlanSource(r.plan, r.starts, r.until)
              ELSE ExpireSource(sources["plan"]),
     target |-> ExpireSource(sources["target"])]

\* While the grace lasts a repeated request answers with the pending target.
ScheduleDowngrade(s, q) ==
    \/ /\ subs[s].status = "active"
       /\ EnterGrace(s, q, subs, sources)
    \/ /\ Target(s) \in Sub
       /\ subs[s].status = "grace" /\ subs[s].until <= now
       /\ subs[Target(s)].status = "pending" /\ subs[Target(s)].starts <= now
       /\ EnterGrace(Target(s), q, Promoted(s), PromotedSources(s))

Tick ==
    /\ now < MaxNow
    /\ now' = now + 1
    /\ UNCHANGED <<orders, planOf, orderOf, txns, callback, subs, sources>>

-----------------------------------------------------------------------------
BillingInit ==
    /\ now = 0
    /\ orders = [o \in Order |-> "none"]
    /\ planOf = [o \in Order |-> AnyPlan]
    /\ orderOf \in Assignments
    /\ txns = [t \in Txn |-> "none"]
    /\ callback = [t \in Txn |-> [out \in PaymentOutcome |-> "unsent"]]
    /\ subs = [s \in Sub |-> NoSub]
    /\ sources = [plan |-> NoSource, target |-> NoSource]

BillingNext ==
    \/ \E o \in Order, p \in Plan : CreateOrder(o, p)
    \/ \E t \in Txn, out \in PaymentOutcome :
         \/ ProviderReports(t, out)
         \/ ApplyAuthenticatedCallback(t, out)
         \/ RefuseCallback(t, out)
    \/ \E s \in Sub, q \in Plan : ScheduleDowngrade(s, q)
    \/ Tick

BillingSpec == BillingInit /\ [][BillingNext]_billingVars

\* A provider repeats a refused report; time passes.
BillingFairness ==
    /\ \A t \in Txn, out \in PaymentOutcome : WF_billingVars(ApplyAuthenticatedCallback(t, out))
    /\ WF_billingVars(Tick)
FairBillingSpec == BillingSpec /\ BillingFairness

-----------------------------------------------------------------------------
Horizon == 0 .. MaxNow + Grace + Term
Written == {s \in Sub : subs[s].status # "none"}

BillingTypeOK ==
    /\ now \in Nat
    /\ orders \in [Order -> OrderStatus] /\ planOf \in [Order -> Plan]
    /\ orderOf \in Assignments
    /\ txns \in [Txn -> PaymentOutcome \cup {"none"}]
    /\ callback \in [Txn -> [PaymentOutcome -> {"unsent", "sent", "refused", "processed"}]]
    /\ subs \in [Sub -> SubRow]
    /\ sources \in [{"plan", "target"} -> Source]
    /\ \A k \in {"plan", "target"} : sources[k].degraded # Never => sources[k].status = "active"

\* Whatever the order of payments, refunds, downgrades and promotions, a
\* workspace has one current subscription, and a scheduled downgrade starts
\* exactly when the grace of the current one ends: no gap and no overlap.
OneCurrentSubscription ==
    /\ \A r, s \in Written :
         subs[r].status \in Current /\ subs[s].status \in Current => r = s
    /\ \A r \in Pending : \E s \in Written :
         /\ r = Target(s) /\ subs[s].status = "grace"
         /\ subs[r].starts = subs[s].until /\ ~subs[r].revoked

\* At no instant do the grants of two subscriptions count together.
OnePlanAtATime ==
    \A r, s \in Written : r # s => \A t \in Horizon : ~(Granting(r, t) /\ Granting(s, t))

\* From now on, and with nobody writing any more, the domain sources grant the
\* limit the billing grants do, at every instant of a grace and a handoff.
DomainsFollowBilling ==
    \A t \in Horizon : t >= now =>
        {subs[s].plan[CustomDomains] : s \in {r \in Written : Granting(r, t)}} \ {0}
        = {sources[k].limit : k \in {j \in DOMAIN sources : SourceInForce(j, t)}}

\* An order is settled as its transactions say, in whatever order the provider's
\* reports arrive.
LedgerAgrees ==
    \A o \in Order :
        LET outcomes == {txns[t] : t \in {u \in Txn : orderOf[u] = o}} IN
        /\ orders[o] = "paid" => "paid" \in outcomes /\ "refunded" \notin outcomes
        /\ orders[o] = "refunded" => "refunded" \in outcomes
        /\ orders[o] = "failed" => "failed" \in outcomes

\* A downgrade of order o has been promoted: it took the place of what o bought.
Replaced(o) ==
    <<o, 1>> \in Sub /\ subs[<<o, 1>>].status \in {"active", "grace", "expired"}

\* An order that was never paid grants nothing at any instant, neither itself nor
\* through a downgrade, and neither does a refunded one, even when the refund comes
\* in a grace or in a handoff that nobody has carried out yet.  The one exception is
\* what the code does (revokeSubscriptionTx names one subscription): a downgrade
\* that had been promoted when the refund came, and what followed it, goes on.
RefundEndsGrants ==
    \A s \in Written, t \in Horizon : Granting(s, t) =>
        \/ orders[s[1]] = "paid"
        \/ orders[s[1]] = "refunded" /\ s[2] > 0 /\ Replaced(s[1])

\* A refund the provider reports is applied in the end, even when it arrives
\* before the payment or in the middle of a grace.
RefundIsApplied ==
    \A t \in Txn :
        callback[t]["refunded"] = "sent" ~> orders[orderOf[t]] \in {"refunded", "failed"}

\* The money: orders agree with the provider's transactions, and what an unpaid or a
\* refunded order bought grants nothing, unless a promoted downgrade has replaced it.
OrderSafety == BillingTypeOK /\ LedgerAgrees /\ RefundEndsGrants

\* The plan in force: one subscription, one plan's grants and one domain limit at any
\* instant, through payments, refunds, downgrades, graces and handoffs.
PlanSafety == OneCurrentSubscription /\ OnePlanAtATime /\ DomainsFollowBilling
=============================================================================
