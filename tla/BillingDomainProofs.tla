------------------------- MODULE BillingDomainProofs -------------------------
(* Safety of billing and of custom domains, proved for every number of orders, *)
(* transactions and plans, and every length of the terms and graces.            *)
EXTENDS Billing, CustomDomain, TLAPS

-----------------------------------------------------------------------------
(* Billing: payments and refunds of orders.  A transaction of an order that is *)
(* not settled has not been settled either, and a row that still counts was     *)
(* paid for.                                                                    *)

Unsettled ==
    \A o \in Order, t \in Txn :
        orders[o] \in {"none", "pending"} /\ orderOf[t] = o => txns[t] = "none"

PaidBacked ==
    \A o \in Order :
        subs[<<o, 0>>].status # "none" /\ ~subs[<<o, 0>>].revoked => orders[o] = "paid"

OrderInv == BillingTypeOK /\ LedgerAgrees /\ Unsettled /\ PaidBacked

-----------------------------------------------------------------------------
(* The plan in force: what one table of subscriptions S and one pair of    *)
(* sources src keep at the instant n.                                      *)
Old(e) == e.status \in {"canceled", "expired"} /\ ~e.revoked

\* What the domains hold for an active subscription.
HeldForActive(c, src) ==
    /\ src["target"].status # "active"
    /\ IF c.plan[CustomDomains] > 0
       THEN src["plan"] = PlanSource(c.plan, c.starts, c.until)
       ELSE src["plan"].status # "active"

\* What they hold for a subscription c in its grace with the target r.
HeldForGrace(c, r, src, n) ==
    /\ r.plan[CustomDomains] <= c.plan[CustomDomains]
    /\ IF c.plan[CustomDomains] > 0
       THEN /\ src["plan"].status = "active"
            /\ src["plan"].limit = c.plan[CustomDomains]
            /\ src["plan"].starts = c.starts
            /\ src["plan"].degraded # Never
            /\ src["plan"].degraded <= n
            /\ src["plan"].degraded + Grace = c.until
       ELSE src["plan"].status # "active"
    /\ IF r.plan[CustomDomains] > 0
       THEN src["target"] = PlanSource(r.plan, c.until, r.until)
       ELSE src["target"].status # "active"

CurrentRow(S, src, n, c) ==
    /\ ~S[c].revoked /\ S[c].starts <= n /\ S[c].starts <= S[c].until
    /\ S[c].status = "active" => HeldForActive(S[c], src)
    /\ S[c].status = "grace" =>
         /\ Target(c) \in Sub
         /\ S[Target(c)].status = "pending"
         /\ HeldForGrace(S[c], S[Target(c)], src, n)

PendingRow(S, r) ==
    \E c \in Sub : /\ r = Target(c) /\ S[c].status = "grace"
                   /\ S[r].starts = S[c].until /\ ~S[r].revoked
                   /\ S[r].starts <= S[r].until

OldRow(S, n, e) ==
    /\ S[e].until <= n
    /\ \A c \in Sub : S[c].status \in Current => S[e].until <= S[c].starts
    /\ \A f \in Sub \ {e} : Old(S[f]) =>
         S[e].until <= S[f].starts \/ S[f].until <= S[e].starts

Books(S, src, n) ==
    /\ \A r, s \in Sub : S[r].status \in Current /\ S[s].status \in Current => r = s
    /\ \A c \in Sub : S[c].status \in Current => CurrentRow(S, src, n, c)
    /\ \A r \in Sub : S[r].status = "pending" => PendingRow(S, r)
    /\ \A e \in Sub : Old(S[e]) => OldRow(S, n, e)
    /\ (\A c \in Sub : S[c].status \notin Current) =>
         src["plan"].status # "active" /\ src["target"].status # "active"

BillingInv == OrderInv /\ Books(subs, sources, now)

-----------------------------------------------------------------------------
(* Lemmas about the operators.                                             *)
LEMMA ExpiredSource ==
    ASSUME NEW r \in Source, r.degraded # Never => r.status = "active"
    PROVE  /\ ExpireSource(r) \in Source
           /\ ExpireSource(r).status # "active"
           /\ ExpireSource(r).degraded = Never
BY DEF ExpireSource, Source, Never

LEMMA OpenedSource ==
    ASSUME BillingAssumption, NEW p \in Plan, NEW a \in Nat, NEW b \in Nat
    PROVE  /\ PlanSource(p, a, b) \in Source
           /\ PlanSource(p, a, b).status = "active"
           /\ PlanSource(p, a, b).degraded = Never
           /\ PlanSource(p, a, b).limit = p[CustomDomains]
           /\ PlanSource(p, a, b).starts = a
           /\ PlanSource(p, a, b).expires = b
<1>1. p[CustomDomains] \in Nat
  BY Zenon DEF BillingAssumption
<1> QED BY <1>1 DEF PlanSource, Source, Never

LEMMA TargetFacts ==
    ASSUME BillingAssumption, NEW s \in Sub
    PROVE  /\ Target(s) # s
           /\ \A o \in Order : <<o, 0>> \in Sub /\ Target(s) # <<o, 0>>
           /\ \A r \in Sub : Target(r) = Target(s) => r = s
<1>1. MaxDepth \in Nat
  BY Zenon DEF BillingAssumption
<1> QED BY <1>1 DEF Target, Sub

\* Typed tables of subscriptions and of sources.
SubsOK(S) == S \in [Sub -> SubRow]
SourcesOK(src) ==
    /\ src \in [{"plan", "target"} -> Source]
    /\ \A k \in {"plan", "target"} : src[k].degraded # Never => src[k].status = "active"

LEMMA PairOfSources ==
    ASSUME NEW a \in Source, NEW b \in Source,
           a.degraded # Never => a.status = "active",
           b.degraded # Never => b.status = "active",
           NEW src, src = [plan |-> a, target |-> b]
    PROVE  SourcesOK(src) /\ src["plan"] = a /\ src["target"] = b
BY DEF SourcesOK

-----------------------------------------------------------------------------
(* What each write of the tables does to a row.                            *)
Gone(e) == e.status = "none" \/ (e.revoked /\ e.status \notin Current \cup {"pending"})
Closed(e) == [e EXCEPT !.status = "canceled", !.revoked = TRUE]
OpenRow(o) == [status |-> "active", plan |-> planOf[o], starts |-> now,
               until |-> now + Term, revoked |-> FALSE]

Opened(o) ==
    /\ SubsOK(subs')
    /\ subs'[<<o, 0>>] = OpenRow(o)
    /\ \A s \in Sub \ {<<o, 0>>} :
         Gone(subs'[s]) /\ (subs[s].status = "none" => subs'[s].status = "none")

LEMMA ActivationOpens ==
    ASSUME BillingAssumption, BillingTypeOK, NEW o \in Order, ActivateSubscription(o)
    PROVE  Opened(o)
<1>1. Term \in Nat /\ MaxDepth \in Nat
  BY Zenon DEF BillingAssumption
<1>2. now \in Nat /\ planOf[o] \in Plan /\ SubsOK(subs)
  BY DEF BillingTypeOK, SubsOK
<1>3. OpenRow(o) \in SubRow
  BY <1>1, <1>2 DEF OpenRow, SubRow, SubStatus
<1>4. <<o, 0>> \in Sub
  BY <1>1 DEF Sub
<1> DEFINE Ended(e) == [e EXCEPT !.status = CASE e.status = "pending" -> "canceled"
                                              [] e.status \in Current -> "expired"
                                              [] OTHER -> e.status,
                                 !.revoked = TRUE]
<1>5. ASSUME NEW e \in SubRow PROVE Ended(e) \in SubRow /\ Gone(Ended(e))
  BY <1>5 DEF SubRow, SubStatus, Gone, Current
<1> DEFINE Row(s) == IF s = <<o, 0>> THEN OpenRow(o)
                     ELSE IF subs[s].status = "none" THEN subs[s] ELSE Ended(subs[s])
<1>7. subs' = [s \in Sub |-> Row(s)]
  BY Zenon DEF ActivateSubscription, OpenRow
<1>6. ASSUME NEW s \in Sub PROVE subs'[s] = Row(s)
  <2> HIDE DEF Row
  <2> QED BY <1>7, <1>6
<1> HIDE DEF Ended
<1>8. \A s \in Sub : subs[s] \in SubRow
  BY <1>2 DEF SubsOK
<1>9. \A s \in Sub : subs'[s] \in SubRow
  BY <1>3, <1>5, <1>6, <1>8
<1>10. SubsOK(subs')
  <2> HIDE DEF Row
  <2> QED BY <1>7, <1>9, <1>6 DEF SubsOK
<1> QED BY <1>4, <1>5, <1>6, <1>8, <1>10 DEF Opened, Gone

Shut(o) ==
    /\ SubsOK(subs')
    /\ \A s \in Sub : subs'[s] = subs[s] \/ (Gone(subs'[s]) /\ subs[s].status # "none")
    /\ Gone(subs'[<<o, 0>>])
    /\ IF ControlsCurrent(o)
       THEN \A s \in Sub : subs[s].status = "pending" => Gone(subs'[s])
       ELSE \A s \in Sub : s # <<o, 0>> => subs'[s] = subs[s]

LEMMA RevocationShuts ==
    ASSUME BillingAssumption, BillingTypeOK, NEW o \in Order, RevokeSubscription(o)
    PROVE  Shut(o)
<1>0. MaxDepth \in Nat
  BY Zenon DEF BillingAssumption
<1>1. <<o, 0>> \in Sub
  BY <1>0 DEF Sub
<1>2. \A s \in Sub : subs[s] \in SubRow
  BY DEF BillingTypeOK
<1>3. ASSUME NEW e \in SubRow PROVE Closed(e) \in SubRow /\ Gone(Closed(e))
  BY <1>3 DEF SubRow, SubStatus, Gone, Current, Closed
<1>4. ASSUME NEW s \in Sub
      PROVE  subs'[s] = IF \/ s = <<o, 0>> /\ subs[s].status # "none"
                           \/ ControlsCurrent(o) /\ subs[s].status = "pending"
                        THEN Closed(subs[s]) ELSE subs[s]
  BY <1>4 DEF RevokeSubscription, Closed
<1>5. subs' = [s \in Sub |-> subs'[s]]
  BY DEF RevokeSubscription
<1>6. \A s \in Sub : subs'[s] \in SubRow
  BY <1>2, <1>3, <1>4
<1>7. SubsOK(subs')
  BY <1>5, <1>6, Zenon DEF SubsOK
<1> QED BY <1>1, <1>2, <1>3, <1>4, <1>7 DEF Shut, Gone

\* The tables after a promotion that is part of a request to downgrade.
LEMMA PromotionTypes ==
    ASSUME BillingAssumption, BillingTypeOK, NEW s \in Sub, Target(s) \in Sub
    PROVE  /\ SubsOK(Promoted(s))
           /\ Promoted(s)[s] = [subs[s] EXCEPT !.status = "expired"]
           /\ Promoted(s)[Target(s)] = [subs[Target(s)] EXCEPT !.status = "active"]
           /\ \A r \in Sub \ {s, Target(s)} : Promoted(s)[r] = subs[r]
           /\ SourcesOK(PromotedSources(s))
<1>1. Target(s) # s
  BY TargetFacts
<1>2. subs \in [Sub -> SubRow]
  BY DEF BillingTypeOK
<1>3. \A e \in SubRow : /\ [e EXCEPT !.status = "expired"] \in SubRow
                        /\ [e EXCEPT !.status = "active"] \in SubRow
  BY DEF SubRow, SubStatus
<1>4. SubsOK(Promoted(s))
  BY <1>1, <1>2, <1>3 DEF Promoted, SubsOK
<1>5. /\ ExpireSource(sources["plan"]) \in Source
      /\ ExpireSource(sources["plan"]).degraded = Never
      /\ ExpireSource(sources["target"]) \in Source
      /\ ExpireSource(sources["target"]).degraded = Never
  BY ExpiredSource DEF BillingTypeOK
<1>6. /\ subs[Target(s)].plan \in Plan
      /\ subs[Target(s)].starts \in Nat /\ subs[Target(s)].until \in Nat
  BY <1>2 DEF SubRow
<1> DEFINE r == subs[Target(s)]
           a == IF r.plan[CustomDomains] > 0 THEN PlanSource(r.plan, r.starts, r.until)
                ELSE ExpireSource(sources["plan"])
           b == ExpireSource(sources["target"])
<1>8. a \in Source /\ a.degraded = Never
  BY <1>5, <1>6, OpenedSource
<1>9. b \in Source /\ b.degraded = Never
  BY <1>5
<1>10. PromotedSources(s) = [plan |-> a, target |-> b]
  BY Zenon DEF PromotedSources
<1>7. SourcesOK(PromotedSources(s))
  <2> HIDE DEF a, b
  <2> QED BY <1>8, <1>9, <1>10, PairOfSources
<1> QED BY <1>1, <1>2, <1>4, <1>7 DEF Promoted

InGrace(e) == [e EXCEPT !.status = "grace", !.until = now + Grace]
PendingTo(q) == [status |-> "pending", plan |-> q, starts |-> now + Grace,
                 until |-> now + Grace + Term, revoked |-> FALSE]

GraceRows(s, q, was) ==
    /\ Target(s) \in Sub
    /\ subs'[s] = InGrace(was[s])
    /\ subs'[Target(s)] = PendingTo(q)
    /\ \A r \in Sub \ {s, Target(s)} : subs'[r] = was[r]

GraceSources(s, q, was, src) ==
    IF was[s].plan[CustomDomains] = 0
    THEN sources'["plan"] = src["plan"] /\ sources'["target"] = ExpireSource(src["target"])
    ELSE /\ src["plan"].status = "active"
         /\ sources'["plan"] = [src["plan"] EXCEPT !.degraded = now]
         /\ sources'["target"] = IF q[CustomDomains] = 0 THEN ExpireSource(src["target"])
                                 ELSE PlanSource(q, now + Grace, now + Grace + Term)

LEMMA GraceBegins ==
    ASSUME BillingAssumption, now \in Nat, NEW s \in Sub, NEW q \in Plan,
           NEW was, SubsOK(was), NEW src, SourcesOK(src), EnterGrace(s, q, was, src)
    PROVE  /\ SubsOK(subs') /\ SourcesOK(sources')
           /\ GraceRows(s, q, was) /\ GraceSources(s, q, was, src)
<1>1. Target(s) # s /\ Target(s) \in Sub
  BY TargetFacts DEF EnterGrace
<1>2. Term \in Nat /\ Grace \in Nat
  BY Zenon DEF BillingAssumption
<1>3. was[s] \in SubRow /\ was \in [Sub -> SubRow]
  BY DEF SubsOK
<1>4. was[s].plan[CustomDomains] \in Nat /\ q[CustomDomains] \in Nat
  <2>1. was[s].plan \in Plan
    BY <1>3 DEF SubRow
  <2> QED BY <2>1, Zenon DEF BillingAssumption
<1>5. subs' = [was EXCEPT ![s] = InGrace(was[s]), ![Target(s)] = PendingTo(q)]
  BY <1>1, <1>3 DEF EnterGrace, InGrace, PendingTo
<1>6. InGrace(was[s]) \in SubRow /\ PendingTo(q) \in SubRow
  <2> DEFINE a == now + Grace
             b == now + Grace + Term
  <2>1. a \in Nat /\ b \in Nat
    BY <1>2
  <2> HIDE DEF a, b
  <2>2. [was[s] EXCEPT !.status = "grace", !.until = a] \in SubRow
    BY <1>3, <2>1 DEF SubRow, SubStatus
  <2>3. [status |-> "pending", plan |-> q, starts |-> a, until |-> b, revoked |-> FALSE]
          \in SubRow
    BY <2>1 DEF SubRow, SubStatus
  <2> USE DEF a, b
  <2> QED BY <2>2, <2>3, Zenon DEF InGrace, PendingTo
<1>7. SubsOK(subs') /\ GraceRows(s, q, was)
  BY <1>1, <1>3, <1>5, <1>6 DEF SubsOK, GraceRows
<1>8. /\ sources' = DowngradedSources(src, was[s].plan, q)
      /\ was[s].plan[CustomDomains] > 0 => src["plan"].status = "active"
  BY DEF EnterGrace
<1>9. /\ src["plan"] \in Source /\ src["target"] \in Source
      /\ src["plan"].degraded # Never => src["plan"].status = "active"
      /\ src["target"].degraded # Never => src["target"].status = "active"
  BY DEF SourcesOK
<1>10. /\ ExpireSource(src["target"]) \in Source
       /\ ExpireSource(src["target"]).degraded = Never
  BY <1>9, ExpiredSource
<1>11. CASE was[s].plan[CustomDomains] = 0
  <2>1. sources' = [src EXCEPT !["target"] = ExpireSource(src["target"])]
    BY <1>8, <1>11 DEF DowngradedSources, SourcesOK
  <2>2. SourcesOK(sources')
    BY <2>1, <1>9, <1>10 DEF SourcesOK
  <2>3. GraceSources(s, q, was, src)
    BY <2>1, <1>11 DEF GraceSources, SourcesOK
  <2> QED BY <2>2, <2>3, <1>7
<1>12. CASE was[s].plan[CustomDomains] # 0
  <2> DEFINE a == [src["plan"] EXCEPT !.degraded = now]
             b == IF q[CustomDomains] = 0 THEN ExpireSource(src["target"])
                  ELSE PlanSource(q, now + Grace, now + Grace + Term)
  <2>1. sources' = [plan |-> a, target |-> b]
    BY <1>8, <1>12, Zenon DEF DowngradedSources
  <2>2. a \in Source /\ a.status = "active"
    BY <1>4, <1>8, <1>9, <1>12 DEF Source
  <2>3. b \in Source /\ b.degraded = Never
    BY <1>2, <1>10, OpenedSource
  <2>4. SourcesOK(sources') /\ sources'["plan"] = a /\ sources'["target"] = b
    <3> HIDE DEF a, b
    <3> QED BY <2>1, <2>2, <2>3, PairOfSources
  <2>5. src["plan"].status = "active"
    BY <1>4, <1>8, <1>12
  <2>6. GraceSources(s, q, was, src)
    BY <2>4, <2>5, <1>12 DEF GraceSources
  <2> QED BY <2>4, <2>6, <1>7
<1> QED BY <1>11, <1>12

-----------------------------------------------------------------------------
(* The money is an invariant.                                              *)
LEMMA BillingStarts == ASSUME BillingAssumption, BillingInit PROVE BillingInv
<1>1. AnyPlan \in Plan
  BY Zenon DEF AnyPlan, BillingAssumption
<1>2. NoSub \in SubRow /\ NoSub.status = "none"
  BY <1>1 DEF NoSub, SubRow, SubStatus
<1>3. NoSource \in Source /\ NoSource.degraded = Never /\ NoSource.status = "none"
  BY DEF NoSource, Source
<1>4. \A s \in Sub : subs[s] = NoSub
  BY DEF BillingInit
<1>5. SourcesOK(sources) /\ sources["plan"] = NoSource /\ sources["target"] = NoSource
  BY <1>3, PairOfSources DEF BillingInit
<1>6. subs \in [Sub -> SubRow]
  BY <1>2 DEF BillingInit
<1>7. BillingTypeOK
  BY <1>1, <1>5, <1>6 DEF BillingInit, BillingTypeOK, SourcesOK, OrderStatus
<1>8. LedgerAgrees
  BY DEF BillingInit, LedgerAgrees
<1>9. Unsettled
  BY DEF BillingInit, Unsettled
<1>11. PaidBacked
  <2>0. MaxDepth \in Nat
    BY Zenon DEF BillingAssumption
  <2>1. \A o \in Order : <<o, 0>> \in Sub
    BY <2>0 DEF Sub
  <2> QED BY <1>2, <1>4, <2>1 DEF PaidBacked
<1>12. Books(subs, sources, now)
  BY <1>2, <1>3, <1>4, <1>5 DEF Books, Current, Old
<1> QED BY <1>7, <1>8, <1>9, <1>11, <1>12 DEF BillingInv, OrderInv

\* What an accepted report does to the ledger.
Settled(t, out) ==
    /\ TransactionTransitionAllowed(txns[t], out)
    /\ CASE out = "paid"     -> orders[orderOf[t]] \in {"pending", "paid"}
         [] out = "failed"   -> orders[orderOf[t]] \in {"pending", "failed"}
         [] out = "refunded" -> orders[orderOf[t]] \in {"paid", "refunded"}
    /\ txns' = [txns EXCEPT ![t] = out]
    /\ orders' = [orders EXCEPT ![orderOf[t]] = out]
    /\ orderOf' = orderOf

LEMMA SettledLedger ==
    ASSUME BillingAssumption, BillingTypeOK, LedgerAgrees, Unsettled,
           NEW t \in Txn, NEW out \in PaymentOutcome, Settled(t, out)
    PROVE  LedgerAgrees' /\ Unsettled'
<1> DEFINE Has(o, out1) == \E u \in Txn : orderOf[u] = o /\ txns[u] = out1
           Paid(o) == orders[o] = "paid" => Has(o, "paid") /\ ~Has(o, "refunded")
           Refunded(o) == orders[o] = "refunded" => Has(o, "refunded")
           Failed(o) == orders[o] = "failed" => Has(o, "failed")
<1>1. LedgerAgrees <=> \A o \in Order : Paid(o) /\ Refunded(o) /\ Failed(o)
  BY Zenon DEF LedgerAgrees
<1>2. LedgerAgrees' <=> \A o \in Order : Paid(o)' /\ Refunded(o)' /\ Failed(o)'
  BY DEF LedgerAgrees
<1>3. orderOf[t] \in Order
  BY DEF BillingTypeOK, BillingAssumption
<1>4. \A u \in Txn : txns'[u] = IF u = t THEN out ELSE txns[u]
  BY DEF Settled, BillingTypeOK
<1>5. \A o \in Order : orders'[o] = IF o = orderOf[t] THEN out ELSE orders[o]
  BY DEF Settled, BillingTypeOK
<1>6. out \in {"paid", "failed", "refunded"} /\ orderOf' = orderOf
  BY DEF PaymentOutcome, Settled
<1>7. Unsettled'
  BY <1>4, <1>5, <1>6 DEF Unsettled
<1>8. ASSUME NEW o \in Order, o # orderOf[t]
      PROVE  Paid(o)' /\ Refunded(o)' /\ Failed(o)'
  BY <1>1, <1>4, <1>5, <1>6, <1>8
<1>9. Has(orderOf[t], out)' /\ orders'[orderOf[t]] = out
  BY <1>3, <1>4, <1>5, <1>6
<1>10. ASSUME out = "paid" PROVE ~Has(orderOf[t], "refunded")'
  <2>1. txns[t] \in {"none", "paid"}
    BY <1>10 DEF Settled, TransactionTransitionAllowed
  <2>2. orders[orderOf[t]] \in {"pending", "paid"}
    BY <1>10 DEF Settled
  <2>3. ~Has(orderOf[t], "refunded")
    BY <2>2, <1>1, <1>3 DEF Unsettled
  <2> QED BY <2>3, <1>4, <1>6, <1>10
<1>11. ASSUME NEW o \in Order, o = orderOf[t]
       PROVE  Paid(o)' /\ Refunded(o)' /\ Failed(o)'
  BY <1>6, <1>9, <1>10, <1>11
<1> QED BY <1>2, <1>7, <1>8, <1>11

\* A transaction that leaves subscriptions and sources typed leaves the state typed.
LEMMA ReportTypes ==
    ASSUME BillingAssumption, BillingTypeOK,
           NEW t \in Txn, NEW out \in PaymentOutcome, ApplyAuthenticatedCallback(t, out),
           SubsOK(subs'), SourcesOK(sources')
    PROVE  BillingTypeOK'
<1>1. orders' \in [Order -> OrderStatus]
  BY DEF ApplyAuthenticatedCallback, BillingTypeOK, OrderStatus, PaymentOutcome
<1>2. txns' \in [Txn -> PaymentOutcome \cup {"none"}]
  BY DEF ApplyAuthenticatedCallback, BillingTypeOK
<1>3. callback' \in [Txn -> [PaymentOutcome -> {"unsent", "sent", "refused", "processed"}]]
  BY DEF ApplyAuthenticatedCallback, BillingTypeOK
<1>4. now' = now /\ planOf' = planOf /\ orderOf' = orderOf
  BY DEF ApplyAuthenticatedCallback
<1> QED BY <1>1, <1>2, <1>3, <1>4 DEF BillingTypeOK, SubsOK, SourcesOK

LEMMA ProjectionTypes ==
    ASSUME BillingAssumption, BillingTypeOK, NEW o \in Order, ProjectDomainEntitlement(o)
    PROVE  /\ SourcesOK(sources')
           /\ sources'["plan"] = IF planOf[o][CustomDomains] > 0
                                 THEN PlanSource(planOf[o], now, now + Term)
                                 ELSE ExpireSource(sources["plan"])
           /\ sources'["target"] = ExpireSource(sources["target"])
<1> DEFINE a == IF planOf[o][CustomDomains] > 0 THEN PlanSource(planOf[o], now, now + Term)
                ELSE ExpireSource(sources["plan"])
           b == ExpireSource(sources["target"])
<1>1. /\ ExpireSource(sources["plan"]) \in Source
      /\ ExpireSource(sources["plan"]).degraded = Never
      /\ b \in Source /\ b.degraded = Never
  BY ExpiredSource DEF BillingTypeOK
<1>2. Term \in Nat
  BY Zenon DEF BillingAssumption
<1>3. now \in Nat /\ now + Term \in Nat /\ planOf[o] \in Plan
  BY <1>2 DEF BillingTypeOK
<1>4. a \in Source /\ a.degraded = Never
  BY <1>1, <1>3, OpenedSource
<1>5. sources' = [plan |-> a, target |-> b]
  BY Zenon DEF ProjectDomainEntitlement
<1>6. SourcesOK(sources') /\ sources'["plan"] = a /\ sources'["target"] = b
  <2> HIDE DEF a, b
  <2> QED BY <1>1, <1>4, <1>5, PairOfSources
<1> QED BY <1>6

LEMMA RevocationTypes ==
    ASSUME BillingTypeOK, NEW o \in Order, RevokeSubscription(o)
    PROVE  /\ SourcesOK(sources')
           /\ IF ControlsCurrent(o)
              THEN sources'["plan"].status # "active" /\ sources'["target"].status # "active"
              ELSE sources' = sources
<1>1. SourcesOK(sources) /\ \A k \in {"plan", "target"} : sources[k] \in Source
  BY DEF SourcesOK, BillingTypeOK
<1>2. \A k \in {"plan", "target"} : /\ ExpireSource(sources[k]) \in Source
                                    /\ ExpireSource(sources[k]).status # "active"
                                    /\ ExpireSource(sources[k]).degraded = Never
  BY <1>1, ExpiredSource DEF SourcesOK
<1>3. CASE ControlsCurrent(o)
  <2>1. sources' = [k \in {"plan", "target"} |-> ExpireSource(sources[k])]
    BY <1>1, <1>3 DEF RevokeSubscription, SourcesOK
  <2> QED BY <2>1, <1>2, <1>3 DEF SourcesOK
<1>4. CASE ~ControlsCurrent(o)
  BY <1>1, <1>4 DEF RevokeSubscription
<1> QED BY <1>3, <1>4

LEMMA ReportSettles ==
    ASSUME BillingAssumption, OrderInv,
           NEW t \in Txn, NEW out \in PaymentOutcome, ApplyAuthenticatedCallback(t, out)
    PROVE  /\ Settled(t, out)
           /\ OrderInv'
           /\ CASE out = "paid" /\ orders[orderOf[t]] # "paid" ->
                     Opened(orderOf[t]) /\ ProjectDomainEntitlement(orderOf[t])
                [] out = "refunded" /\ orders[orderOf[t]] # "refunded" ->
                     Shut(orderOf[t]) /\ RevokeSubscription(orderOf[t])
                [] OTHER -> UNCHANGED <<subs, sources>>
<1> DEFINE o == orderOf[t]
<1>1. o \in Order
  BY DEF BillingTypeOK, BillingAssumption, OrderInv
<1>2. Settled(t, out)
  BY DEF ApplyAuthenticatedCallback, Acceptable, Settled, PaymentOutcome
<1>3. LedgerAgrees' /\ Unsettled'
  BY <1>2, SettledLedger DEF OrderInv
<1>7. SubsOK(subs) /\ SourcesOK(sources)
  BY DEF OrderInv, BillingTypeOK, SubsOK, SourcesOK
<1>8. \A p \in Order : <<p, 0>> \in Sub
  <2>1. MaxDepth \in Nat
    BY Zenon DEF BillingAssumption
  <2> QED BY <2>1 DEF Sub
<1>9. \A p \in Order : orders'[p] = IF p = o THEN out ELSE orders[p]
  BY DEF ApplyAuthenticatedCallback, OrderInv, BillingTypeOK
<1>4. CASE out = "paid" /\ orders[o] # "paid"
  <2>1. ActivateSubscription(o) /\ ProjectDomainEntitlement(o)
    BY <1>4 DEF ApplyAuthenticatedCallback
  <2>2. Opened(o) /\ SourcesOK(sources')
    BY <1>1, <2>1, ActivationOpens, ProjectionTypes DEF OrderInv
  <2>3. BillingTypeOK'
    BY <2>2, ReportTypes DEF Opened, OrderInv
  <2>4. PaidBacked'
    <3> SUFFICES ASSUME NEW p \in Order, p # o
                 PROVE  (subs[<<p, 0>>].status # "none" /\ ~subs[<<p, 0>>].revoked => orders[p] = "paid")'
      BY <1>9, <1>4 DEF PaidBacked
    <3>1. Gone(subs'[<<p, 0>>])
      BY <1>8, <2>2 DEF Opened
    <3> QED BY <3>1 DEF Gone
  <2> QED BY <1>2, <1>3, <1>4, <2>1, <2>2, <2>3, <2>4 DEF OrderInv
<1>5. CASE out = "refunded" /\ orders[o] # "refunded"
  <2>1. RevokeSubscription(o)
    BY <1>5 DEF ApplyAuthenticatedCallback
  <2>2. Shut(o) /\ SourcesOK(sources')
    BY <1>1, <2>1, RevocationShuts, RevocationTypes DEF OrderInv
  <2>3. BillingTypeOK'
    BY <2>2, ReportTypes DEF Shut, OrderInv
  <2>4. PaidBacked'
    BY <1>8, <1>9, <2>2 DEF PaidBacked, OrderInv, Shut, Gone
  <2> QED BY <1>2, <1>3, <1>5, <2>1, <2>2, <2>3, <2>4 DEF OrderInv
<1>6. CASE ~(out = "paid" /\ orders[o] # "paid") /\ ~(out = "refunded" /\ orders[o] # "refunded")
  <2>1. subs' = subs /\ sources' = sources
    BY <1>6 DEF ApplyAuthenticatedCallback
  <2>3. BillingTypeOK'
    BY <1>7, <2>1, ReportTypes DEF OrderInv
  <2>4. PaidBacked'
    <3>1. orders[o] = "paid" => out = "paid"
      BY <1>2, <1>6 DEF Settled, PaymentOutcome
    <3> QED BY <1>9, <2>1, <3>1 DEF PaidBacked, OrderInv
  <2> QED BY <1>2, <1>3, <1>6, <2>1, <2>3, <2>4 DEF OrderInv
<1> QED BY <1>4, <1>5, <1>6

\* A grace leaves the money alone, whichever tables the promotion handed to it.
LEMMA GraceKeepsMoney ==
    ASSUME BillingAssumption, OrderInv, NEW s \in Sub, NEW q \in Plan,
           NEW was, SubsOK(was), NEW src, SourcesOK(src), EnterGrace(s, q, was, src),
           \A o \in Order : /\ was[<<o, 0>>].status = "none" <=> subs[<<o, 0>>].status = "none"
                            /\ was[<<o, 0>>].revoked = subs[<<o, 0>>].revoked
    PROVE  OrderInv'
<1>0. now \in Nat
  BY DEF OrderInv, BillingTypeOK
<1>1. SubsOK(subs') /\ SourcesOK(sources') /\ GraceRows(s, q, was)
  BY <1>0, GraceBegins
<1>2. /\ now' = now /\ orders' = orders /\ planOf' = planOf /\ orderOf' = orderOf
      /\ txns' = txns /\ callback' = callback
  BY DEF EnterGrace
<1>3. BillingTypeOK'
  BY <1>1, <1>2 DEF BillingTypeOK, OrderInv, SubsOK, SourcesOK
<1>4. LedgerAgrees' /\ Unsettled'
  <2>1. LedgerAgrees'
    BY <1>2 DEF OrderInv, LedgerAgrees
  <2>2. Unsettled'
    BY <1>2 DEF OrderInv, Unsettled
  <2> QED BY <2>1, <2>2
<1>5. PaidBacked'
  <2> SUFFICES ASSUME NEW o \in Order
               PROVE  (subs[<<o, 0>>].status # "none" /\ ~subs[<<o, 0>>].revoked
                         => orders[o] = "paid")'
    BY DEF PaidBacked
  <2>1. <<o, 0>> \in Sub /\ Target(s) # <<o, 0>>
    BY TargetFacts
  <2>2. was[s] \in SubRow /\ was[s].status = "active"
    BY DEF SubsOK, EnterGrace
  <2>3. CASE <<o, 0>> = s
    <3>1. subs'[<<o, 0>>].revoked = was[<<o, 0>>].revoked
      BY <1>1, <2>2, <2>3 DEF GraceRows, InGrace, SubRow
    <3> QED BY <3>1, <2>2, <2>3, <1>2 DEF OrderInv, PaidBacked
  <2>4. CASE <<o, 0>> # s
    BY <1>1, <1>2, <2>1, <2>4 DEF GraceRows, OrderInv, PaidBacked
  <2> QED BY <2>3, <2>4
<1> QED BY <1>3, <1>4, <1>5 DEF OrderInv

LEMMA DowngradeKeepsMoney ==
    ASSUME BillingAssumption, OrderInv, NEW s \in Sub, NEW q \in Plan, ScheduleDowngrade(s, q)
    PROVE  OrderInv'
<1>1. SubsOK(subs) /\ SourcesOK(sources) /\ BillingTypeOK
  BY DEF OrderInv, BillingTypeOK, SubsOK, SourcesOK
<1>2. CASE EnterGrace(s, q, subs, sources)
  BY <1>1, <1>2, GraceKeepsMoney
<1>3. CASE /\ Target(s) \in Sub /\ subs[s].status = "grace"
           /\ subs[Target(s)].status = "pending"
           /\ EnterGrace(Target(s), q, Promoted(s), PromotedSources(s))
  <2>1. /\ SubsOK(Promoted(s)) /\ SourcesOK(PromotedSources(s))
        /\ Promoted(s)[s] = [subs[s] EXCEPT !.status = "expired"]
        /\ \A r \in Sub \ {s, Target(s)} : Promoted(s)[r] = subs[r]
    BY <1>1, <1>3, PromotionTypes
  <2>2. subs[s] \in SubRow
    BY <1>1 DEF SubsOK
  <2>3. Promoted(s)[s].status = "expired" /\ Promoted(s)[s].revoked = subs[s].revoked
    BY <2>1, <2>2 DEF SubRow
  <2>4. ASSUME NEW o \in Order
        PROVE  /\ Promoted(s)[<<o, 0>>].status = "none" <=> subs[<<o, 0>>].status = "none"
               /\ Promoted(s)[<<o, 0>>].revoked = subs[<<o, 0>>].revoked
    <3>1. <<o, 0>> \in Sub /\ Target(s) # <<o, 0>>
      BY TargetFacts
    <3> QED BY <3>1, <2>1, <2>3, <1>3
  <2> HIDE DEF Promoted, PromotedSources
  <2> QED BY <1>3, <2>1, <2>4, GraceKeepsMoney
<1> QED BY <1>2, <1>3 DEF ScheduleDowngrade

-----------------------------------------------------------------------------
(* The plan in force is an invariant.                                      *)

\* Only the given subscription counts.
LEMMA OneOpenBooks ==
    ASSUME BillingAssumption, NEW S, SubsOK(S), NEW src, SourcesOK(src), NEW n \in Nat,
           NEW c \in Sub, S[c].status = "active", ~S[c].revoked,
           S[c].starts <= n, S[c].starts <= S[c].until, HeldForActive(S[c], src),
           \A s \in Sub \ {c} : Gone(S[s])
    PROVE  Books(S, src, n)
<1>1. CurrentRow(S, src, n, c)
  BY DEF CurrentRow
<1>2. \A s \in Sub \ {c} : S[s].status \notin Current /\ S[s].status # "pending" /\ ~Old(S[s])
  BY DEF Gone, Current, Old
<1>3. ~Old(S[c]) /\ S[c].status \in Current
  BY DEF Old, Current
<1> HIDE DEF Current, Old
<1> QED BY <1>1, <1>2, <1>3 DEF Books

LEMMA OpenedBooks ==
    ASSUME BillingAssumption, BillingTypeOK, NEW o \in Order, Opened(o),
           ProjectDomainEntitlement(o), now' = now
    PROVE  Books(subs, sources, now)'
<1>0. <<o, 0>> \in Sub
  <2>1. MaxDepth \in Nat
    BY Zenon DEF BillingAssumption
  <2> QED BY <2>1 DEF Sub
<1>1. Term \in Nat /\ now \in Nat
  BY Zenon DEF BillingAssumption, BillingTypeOK
<1>2. SubsOK(subs') /\ SourcesOK(sources')
  BY ProjectionTypes DEF Opened
<1>3. /\ ExpireSource(sources["plan"]).status # "active"
      /\ ExpireSource(sources["target"]).status # "active"
  BY ExpiredSource DEF BillingTypeOK
<1>4. HeldForActive(OpenRow(o), sources')
  BY <1>3, ProjectionTypes DEF HeldForActive, OpenRow
<1>5. /\ subs'[<<o, 0>>].status = "active" /\ ~subs'[<<o, 0>>].revoked
      /\ subs'[<<o, 0>>].starts = now /\ subs'[<<o, 0>>].until = now + Term
      /\ HeldForActive(subs'[<<o, 0>>], sources')
  <2>1. subs'[<<o, 0>>] = OpenRow(o)
    BY DEF Opened
  <2>2. OpenRow(o).status = "active" /\ ~OpenRow(o).revoked /\ OpenRow(o).starts = now
        /\ OpenRow(o).until = now + Term
    BY DEF OpenRow
  <2> QED BY <1>4, <2>1, <2>2
<1>6. \A s \in Sub \ {<<o, 0>>} : Gone(subs'[s])
  BY DEF Opened
<1> DEFINE S == subs'
           src == sources'
<1>7. Books(S, src, now)
  <2> HIDE DEF S, src
  <2>1. /\ SubsOK(S) /\ SourcesOK(src)
        /\ S[<<o, 0>>].status = "active" /\ ~S[<<o, 0>>].revoked
        /\ S[<<o, 0>>].starts <= now /\ S[<<o, 0>>].starts <= S[<<o, 0>>].until
        /\ HeldForActive(S[<<o, 0>>], src)
        /\ \A s \in Sub \ {<<o, 0>>} : Gone(S[s])
    BY <1>1, <1>2, <1>5, <1>6 DEF S, src
  <2> QED BY <2>1, <1>0, <1>1, OneOpenBooks
<1> QED BY <1>7

LEMMA ShutBooks ==
    ASSUME BillingAssumption, BillingTypeOK, Books(subs, sources, now), NEW o \in Order,
           Shut(o), RevokeSubscription(o), now' = now
    PROVE  Books(subs, sources, now)'
<1>0. <<o, 0>> \in Sub
  <2>1. MaxDepth \in Nat
    BY Zenon DEF BillingAssumption
  <2> QED BY <2>1 DEF Sub
<1> DEFINE S == subs'
           src == sources'
<1>1. SUFFICES Books(S, src, now)
  OBVIOUS
<1>2. \A s \in Sub : S[s] = subs[s] \/ Gone(S[s])
  BY DEF Shut
<1>3. \A e : Gone(e) => e.status \notin Current /\ e.status # "pending" /\ ~Old(e)
  BY DEF Gone, Current, Old
<1>4. \A e : ~(e.status \in Current /\ e.status = "pending") /\ ~(e.status \in Current /\ Old(e))
  BY DEF Current, Old
<1>5. CASE ControlsCurrent(o)
  <2>1. subs[<<o, 0>>].status \in Current
    BY <1>5 DEF ControlsCurrent
  <2>2. src["plan"].status # "active" /\ src["target"].status # "active"
    BY <1>5, RevocationTypes
  <2>3. \A s \in Sub : subs[s].status \in Current => s = <<o, 0>>
    BY <1>0, <2>1 DEF Books
  <2>4. Gone(S[<<o, 0>>]) /\ \A s \in Sub : subs[s].status = "pending" => Gone(S[s])
    BY <1>5 DEF Shut
  <2> HIDE DEF S, src, Gone, Current, Old
  <2>5. \A s \in Sub : S[s].status \notin Current /\ S[s].status # "pending"
    BY <1>2, <1>3, <2>3, <2>4
  <2>6. ASSUME NEW e \in Sub, Old(S[e]) PROVE OldRow(S, now, e)
    <3>1. S[e] = subs[e] /\ \A f \in Sub : Old(S[f]) => S[f] = subs[f]
      BY <1>2, <1>3, <2>6
    <3>2. OldRow(subs, now, e)
      BY <3>1, <2>6 DEF Books
    <3> QED BY <3>1, <3>2, <2>5 DEF OldRow
  <2> QED BY <2>2, <2>5, <2>6 DEF Books
<1>6. CASE ~ControlsCurrent(o)
  <2>1. \A s \in Sub : s # <<o, 0>> => S[s] = subs[s]
    BY <1>6 DEF Shut
  <2>2. src = sources
    BY <1>6, RevocationTypes
  <2>3. subs[<<o, 0>>].status \notin Current
    BY <1>6 DEF ControlsCurrent
  <2>4. \A c \in Sub : Target(c) # <<o, 0>>
    BY TargetFacts
  <2>5. subs[<<o, 0>>].status # "pending"
    BY <1>0, <2>4 DEF Books, PendingRow
  <2>6. Gone(S[<<o, 0>>])
    BY DEF Shut
  <2> HIDE DEF S, src, Gone, Old
  <2>7. \A s \in Sub : /\ S[s].status \in Current <=> subs[s].status \in Current
                       /\ S[s].status = "pending" <=> subs[s].status = "pending"
                       /\ Old(S[s]) => S[s] = subs[s]
                       /\ S[s].status \in Current => S[s] = subs[s]
                       /\ S[s].status = "pending" => S[s] = subs[s]
    BY <1>3, <2>1, <2>3, <2>5, <2>6
  <2> HIDE DEF Current
  <2>8. ASSUME NEW c \in Sub, S[c].status \in Current PROVE CurrentRow(S, src, now, c)
    <3>1. CurrentRow(subs, src, now, c) /\ S[c] = subs[c]
      BY <2>2, <2>7, <2>8 DEF Books
    <3>2. S[Target(c)] = subs[Target(c)] \/ Target(c) \notin Sub
      BY <2>1, <2>4
    <3> QED BY <3>1, <3>2 DEF CurrentRow
  <2>9. ASSUME NEW r \in Sub, S[r].status = "pending" PROVE PendingRow(S, r)
    <3>1. S[r] = subs[r] /\ PendingRow(subs, r)
      BY <2>7, <2>9 DEF Books
    <3>2. PICK c \in Sub : r = Target(c) /\ subs[c].status = "grace" /\ subs[r].starts = subs[c].until
                           /\ ~subs[r].revoked /\ subs[r].starts <= subs[r].until
      BY <3>1 DEF PendingRow
    <3>3. S[c] = subs[c]
      BY <3>2, <2>1, <2>3 DEF Current
    <3> QED BY <3>1, <3>2, <3>3 DEF PendingRow
  <2>10. ASSUME NEW e \in Sub, Old(S[e]) PROVE OldRow(S, now, e)
    <3>1. S[e] = subs[e]
      BY <2>7, <2>10
    <3>2. OldRow(subs, now, e)
      BY <3>1, <2>10 DEF Books
    <3> QED BY <3>1, <3>2, <2>7 DEF OldRow
  <2>11. /\ \A r, s \in Sub : S[r].status \in Current /\ S[s].status \in Current => r = s
         /\ (\A c \in Sub : S[c].status \notin Current) =>
              src["plan"].status # "active" /\ src["target"].status # "active"
    BY <2>2, <2>7 DEF Books
  <2> QED BY <2>8, <2>9, <2>10, <2>11 DEF Books
<1> QED BY <1>5, <1>6

\* A promotion that is due: the target becomes the current subscription.
LEMMA PromotedBooks ==
    ASSUME BillingAssumption, BillingTypeOK, Books(subs, sources, now), NEW s \in Sub,
           Target(s) \in Sub, subs[s].status = "grace", subs[s].until <= now,
           subs[Target(s)].status = "pending"
    PROVE  Books(Promoted(s), PromotedSources(s), now)
<1> DEFINE S == Promoted(s)
           src == PromotedSources(s)
           r == Target(s)
<1>1. /\ SubsOK(S) /\ SourcesOK(src) /\ s # r
      /\ S[s] = [subs[s] EXCEPT !.status = "expired"]
      /\ S[r] = [subs[r] EXCEPT !.status = "active"]
      /\ \A x \in Sub \ {s, r} : S[x] = subs[x]
  BY PromotionTypes, TargetFacts
<1>2. \A x \in Sub : subs[x] \in SubRow /\ subs[x].starts \in Nat /\ subs[x].until \in Nat
  BY DEF BillingTypeOK, SubRow
<1>3. /\ S[s].status = "expired" /\ S[s].starts = subs[s].starts /\ S[s].until = subs[s].until
      /\ S[s].revoked = subs[s].revoked
  BY <1>1, <1>2 DEF SubRow
<1>4. /\ S[r].status = "active" /\ S[r].starts = subs[r].starts /\ S[r].until = subs[r].until
      /\ S[r].revoked = subs[r].revoked /\ S[r].plan = subs[r].plan
  BY <1>1, <1>2 DEF SubRow
<1>5. \A c \in Sub : subs[c].status \in Current => c = s
  BY DEF Books, Current
<1>6. CurrentRow(subs, sources, now, s)
  BY DEF Books, Current
<1>7. PendingRow(subs, r)
  BY DEF Books
<1>8. subs[r].starts = subs[s].until /\ ~subs[r].revoked /\ subs[r].starts <= subs[r].until
  <2>1. PICK c \in Sub : r = Target(c) /\ subs[c].status = "grace" /\ subs[r].starts = subs[c].until
                         /\ ~subs[r].revoked /\ subs[r].starts <= subs[r].until
    BY <1>7 DEF PendingRow
  <2>2. c = s
    BY <2>1, TargetFacts
  <2> QED BY <2>1, <2>2
<1>9. \A x \in Sub : subs[x].status = "pending" => x = r
  <2> SUFFICES ASSUME NEW x \in Sub, subs[x].status = "pending" PROVE x = r
    OBVIOUS
  <2>1. PendingRow(subs, x)
    BY DEF Books
  <2>2. PICK c \in Sub : x = Target(c) /\ subs[c].status = "grace"
    BY <2>1 DEF PendingRow
  <2> QED BY <2>2, <1>5 DEF Current
<1>10. HeldForActive(S[r], src)
  <2>1. ExpireSource(sources["plan"]).status # "active" /\ ExpireSource(sources["target"]).status # "active"
    BY ExpiredSource DEF BillingTypeOK
  <2>2. /\ src["plan"] = IF subs[r].plan[CustomDomains] > 0
                         THEN PlanSource(subs[r].plan, subs[r].starts, subs[r].until)
                         ELSE ExpireSource(sources["plan"])
        /\ src["target"] = ExpireSource(sources["target"])
    BY DEF PromotedSources
  <2> HIDE DEF S, src
  <2> QED BY <1>4, <2>1, <2>2 DEF HeldForActive
<1> HIDE DEF S, src, r
<1>11. r \in Sub
  BY DEF r
<1>16. s # r /\ \A x \in Sub : x # s /\ x # r => S[x] = subs[x]
  BY <1>1
<1>17. "active" \in Current /\ "expired" \notin Current
  BY DEF Current
<1>12. \A x \in Sub : S[x].status \in Current <=> x = r
  <2> SUFFICES ASSUME NEW x \in Sub PROVE S[x].status \in Current <=> x = r
    OBVIOUS
  <2>1. CASE x = s
    BY <2>1, <1>3, <1>16, <1>17
  <2>2. CASE x = r
    BY <2>2, <1>4, <1>17
  <2>3. CASE x # s /\ x # r
    <3>1. S[x] = subs[x] /\ subs[x].status \notin Current
      BY <2>3, <1>16, <1>5
    <3> QED BY <3>1, <2>3
  <2> QED BY <2>1, <2>2, <2>3
<1>13. \A x \in Sub : S[x].status # "pending"
  BY <1>16, <1>3, <1>4, <1>9
<1>14. CurrentRow(S, src, now, r)
  <2>1. ~S[r].revoked /\ S[r].starts <= now /\ S[r].starts <= S[r].until
    BY <1>4, <1>8
  <2> QED BY <2>1, <1>4, <1>10 DEF CurrentRow
<1>15. ASSUME NEW e \in Sub, Old(S[e]) PROVE OldRow(S, now, e)
  <2>0. subs[s].starts <= subs[s].until
    BY <1>6 DEF CurrentRow
  <2>1. \A f \in Sub \ {s} : Old(S[f]) => S[f] = subs[f] /\ OldRow(subs, now, f)
    BY <1>1, <1>4 DEF Books, Old
  <2>2. \A f \in Sub \ {s} : Old(S[f]) => S[f].until <= subs[s].starts
    BY <2>1 DEF OldRow, Current
  <2>3. CASE e = s
    <3>1. S[e].until <= now
      BY <2>3, <1>3
    <3>2. \A c \in Sub : S[c].status \in Current => S[e].until <= S[c].starts
      <4>1. S[r].starts = S[e].until /\ S[r].starts \in Nat
        BY <2>3, <1>2, <1>3, <1>4, <1>8, <1>11
      <4> QED BY <4>1, <1>12
    <3>3. \A f \in Sub \ {e} : Old(S[f]) => S[f].until <= S[e].starts
      BY <2>2, <2>3, <1>3
    <3> QED BY <3>1, <3>2, <3>3 DEF OldRow
  <2>4. CASE e # s
    <3>1. S[e] = subs[e] /\ S[e].until <= now /\ S[e].until <= subs[s].starts
      BY <2>1, <2>2, <2>4, <1>15 DEF OldRow
    <3>2. S[e].until <= S[r].starts
      BY <3>1, <2>0, <1>2, <1>4, <1>8, <1>11
    <3>3. ASSUME NEW f \in Sub \ {e}, Old(S[f])
          PROVE  S[e].until <= S[f].starts \/ S[f].until <= S[e].starts
      <4>1. CASE f = s
        BY <4>1, <3>1, <1>3
      <4>2. CASE f # s
        BY <4>2, <3>3, <2>1, <2>4, <1>15, <3>1 DEF OldRow
      <4> QED BY <4>1, <4>2
    <3> QED BY <3>1, <3>2, <3>3, <1>12 DEF OldRow
  <2> QED BY <2>3, <2>4
<1> QED BY <1>11, <1>12, <1>13, <1>14, <1>15 DEF Books, S, src

\* A grace begins: the current subscription ends with it and the target follows.
LEMMA GraceBooks ==
    ASSUME BillingAssumption, now \in Nat, NEW s \in Sub, NEW q \in Plan,
           NEW was, SubsOK(was), NEW src, SourcesOK(src), Books(was, src, now),
           EnterGrace(s, q, was, src)
    PROVE  Books(subs, sources, now)'
<1> DEFINE S == subs'
           dst == sources'
           r == Target(s)
<1>0. now' = now /\ Term \in Nat /\ Grace \in Nat
  BY Zenon DEF EnterGrace, BillingAssumption
<1>1. /\ SubsOK(S) /\ SourcesOK(dst) /\ r \in Sub /\ r # s
      /\ S[s] = InGrace(was[s]) /\ S[r] = PendingTo(q)
      /\ GraceSources(s, q, was, src)
  BY GraceBegins, TargetFacts DEF GraceRows
<1>2. \A x \in Sub : x # s /\ x # r => S[x] = was[x]
  BY GraceBegins DEF GraceRows
<1>3. /\ was[s].status = "active" /\ was[s].starts < now
      /\ q[CustomDomains] <= was[s].plan[CustomDomains]
      /\ \A x \in Sub : was[x].status # "pending"
  BY BillingAssumption DEF EnterGrace, StrictDowngrade, BillingAssumption
<1>4. \A x \in Sub : was[x] \in SubRow /\ was[x].starts \in Nat /\ was[x].until \in Nat
  BY DEF SubsOK, SubRow
<1>5. /\ S[s].status = "grace" /\ S[s].plan = was[s].plan /\ S[s].starts = was[s].starts
      /\ S[s].until = now + Grace /\ S[s].revoked = was[s].revoked
  BY <1>1, <1>4 DEF InGrace, SubRow
<1>6. /\ S[r].status = "pending" /\ S[r].plan = q /\ S[r].starts = now + Grace
      /\ S[r].until = now + Grace + Term /\ ~S[r].revoked
  BY <1>1 DEF PendingTo
<1>7. \A x \in Sub : was[x].status \in Current => x = s
  BY <1>3 DEF Books, Current
<1>8. CurrentRow(was, src, now, s)
  BY <1>3 DEF Books, Current
<1>9. HeldForGrace(S[s], S[r], dst, now)
  <2>1. HeldForActive(was[s], src)
    BY <1>3, <1>8 DEF CurrentRow
  <2>2. /\ src["target"] \in Source /\ src["plan"] \in Source
        /\ src["target"].degraded # Never => src["target"].status = "active"
    BY DEF SourcesOK
  <2>3. ExpireSource(src["target"]).status # "active"
    BY <2>2, ExpiredSource
  <2>4. was[s].plan \in Plan
    BY <1>4 DEF SubRow
  <2>5. was[s].plan[CustomDomains] \in Nat /\ q[CustomDomains] \in Nat
    BY <2>4, Zenon DEF BillingAssumption
  <2> DEFINE p == was[s].plan[CustomDomains]
             qq == q[CustomDomains]
  <2>6. CASE p = 0
    <3>1. dst["plan"] = src["plan"] /\ dst["target"] = ExpireSource(src["target"])
      BY <1>1, <2>6 DEF GraceSources
    <3>2. src["plan"].status # "active" /\ qq = 0
      BY <2>1, <2>5, <2>6, <1>3 DEF HeldForActive
    <3> HIDE DEF dst, S, r
    <3> QED BY <3>1, <3>2, <2>3, <2>6, <1>3, <1>5, <1>6 DEF HeldForGrace
  <2>7. CASE p # 0
    <3>1. /\ dst["plan"] = [src["plan"] EXCEPT !.degraded = now]
          /\ dst["target"] = IF qq = 0 THEN ExpireSource(src["target"])
                             ELSE PlanSource(q, now + Grace, now + Grace + Term)
          /\ src["plan"].status = "active"
      BY <1>1, <2>7 DEF GraceSources
    <3>2. src["plan"].limit = p /\ src["plan"].starts = was[s].starts
      <4>1. src["plan"] = PlanSource(was[s].plan, was[s].starts, was[s].until)
        BY <2>1, <2>5, <2>7 DEF HeldForActive
      <4> DEFINE a == was[s].starts
                 b == was[s].until
                 c == was[s].plan
      <4>2. a \in Nat /\ b \in Nat /\ c \in Plan
        BY <1>4, <2>4
      <4> HIDE DEF a, b, c
      <4>3. PlanSource(c, a, b).limit = c[CustomDomains] /\ PlanSource(c, a, b).starts = a
        BY <4>2, OpenedSource
      <4> QED BY <4>1, <4>3 DEF a, b, c
    <3>3. /\ dst["plan"].status = "active" /\ dst["plan"].limit = p
          /\ dst["plan"].starts = was[s].starts /\ dst["plan"].degraded = now
      BY <3>1, <3>2, <2>2 DEF Source
    <3>4. now # Never
      BY DEF Never
    <3>5. IF qq > 0 THEN dst["target"] = PlanSource(q, now + Grace, now + Grace + Term)
                    ELSE dst["target"].status # "active"
      BY <3>1, <2>3, <2>5
    <3> HIDE DEF dst, S, r
    <3> QED BY <3>3, <3>4, <3>5, <2>5, <2>7, <1>3, <1>5, <1>6 DEF HeldForGrace
  <2> QED BY <2>6, <2>7
<1> HIDE DEF S, dst
<1>10. CurrentRow(S, dst, now, s)
  <2>1. ~S[s].revoked /\ S[s].starts <= now /\ S[s].starts <= S[s].until
    BY <1>0, <1>3, <1>4, <1>5, <1>8 DEF CurrentRow
  <2> QED BY <2>1, <1>1, <1>5, <1>6, <1>9 DEF CurrentRow
<1>11. PendingRow(S, r)
  BY <1>0, <1>5, <1>6 DEF PendingRow
<1> HIDE DEF r
<1>12. \A x \in Sub : S[x].status \in Current <=> x = s
  <2> SUFFICES ASSUME NEW x \in Sub PROVE S[x].status \in Current <=> x = s
    OBVIOUS
  <2>1. CASE x = s
    BY <2>1, <1>5 DEF Current
  <2>2. CASE x = r
    BY <2>2, <1>1, <1>6 DEF Current
  <2>3. CASE x # s /\ x # r
    <3>1. S[x] = was[x] /\ was[x].status \notin Current
      BY <2>3, <1>2, <1>7
    <3> QED BY <3>1, <2>3
  <2> QED BY <2>1, <2>2, <2>3
<1>13. \A x \in Sub : S[x].status = "pending" => x = r
  BY <1>2, <1>3, <1>5
<1>14. ASSUME NEW e \in Sub, Old(S[e])
       PROVE  S[e] = was[e] /\ OldRow(was, now, e)
  BY <1>14, <1>2, <1>5, <1>6 DEF Books, Old
<1>15. ASSUME NEW e \in Sub, Old(S[e]) PROVE OldRow(S, now, e)
  <2>1. S[e].until <= was[s].starts /\ S[e].until <= now
    BY <1>14, <1>15, <1>3 DEF OldRow, Current
  <2>2. \A c \in Sub : S[c].status \in Current => S[e].until <= S[c].starts
    BY <2>1, <1>5, <1>12
  <2>3. \A f \in Sub \ {e} : Old(S[f]) => S[e].until <= S[f].starts \/ S[f].until <= S[e].starts
    BY <1>14, <1>15 DEF OldRow
  <2> QED BY <2>1, <2>2, <2>3 DEF OldRow
<1>16. Books(S, dst, now)
  BY <1>10, <1>11, <1>12, <1>13, <1>15 DEF Books
<1> QED BY <1>0, <1>16 DEF S, dst

LEMMA LaterBooks ==
    ASSUME BillingAssumption, NEW S, SubsOK(S), NEW src, SourcesOK(src), NEW n \in Nat,
           Books(S, src, n)
    PROVE  Books(S, src, n + 1)
<1>1. \A x \in Sub : S[x].starts \in Nat /\ S[x].until \in Nat
  BY DEF SubsOK, SubRow
<1>2. ASSUME src["plan"].degraded # Never, src["plan"].degraded <= n
      PROVE  src["plan"].degraded <= n + 1
  BY <1>2 DEF SourcesOK, Source
<1>3. ASSUME NEW c \in Sub, CurrentRow(S, src, n, c) PROVE CurrentRow(S, src, n + 1, c)
  <2>1. S[c].starts <= n + 1
    BY <1>1, <1>3 DEF CurrentRow
  <2>2. ASSUME S[c].status = "grace" PROVE HeldForGrace(S[c], S[Target(c)], src, n + 1)
    <3>1. HeldForGrace(S[c], S[Target(c)], src, n)
      BY <1>3, <2>2 DEF CurrentRow
    <3> QED BY <3>1, <1>2 DEF HeldForGrace
  <2> QED BY <2>1, <2>2, <1>3 DEF CurrentRow
<1>4. ASSUME NEW e \in Sub, OldRow(S, n, e) PROVE OldRow(S, n + 1, e)
  BY <1>1, <1>4 DEF OldRow
<1> QED BY <1>3, <1>4 DEF Books

LEMMA BillingStep ==
    ASSUME BillingAssumption, BillingInv, [BillingNext]_billingVars
    PROVE  BillingInv'
<1>0. /\ OrderInv /\ BillingTypeOK /\ Books(subs, sources, now)
      /\ SubsOK(subs) /\ SourcesOK(sources) /\ now \in Nat
  BY DEF BillingInv, OrderInv, BillingTypeOK, SubsOK, SourcesOK
<1>1. ASSUME NEW o \in Order, NEW p \in Plan, CreateOrder(o, p) PROVE BillingInv'
  <2>1. /\ now' = now /\ orderOf' = orderOf /\ txns' = txns /\ callback' = callback
        /\ subs' = subs /\ sources' = sources /\ orders[o] = "none"
        /\ orders' = [orders EXCEPT ![o] = "pending"] /\ planOf' = [planOf EXCEPT ![o] = p]
    BY <1>1 DEF CreateOrder
  <2>2. \A x \in Order : orders'[x] = IF x = o THEN "pending" ELSE orders[x]
    BY <2>1, <1>0 DEF BillingTypeOK
  <2>3. BillingTypeOK'
    BY <2>1, <1>0 DEF BillingTypeOK, OrderStatus
  <2>4. LedgerAgrees'
    BY <2>1, <2>2, <1>0 DEF LedgerAgrees, OrderInv
  <2>5. Unsettled'
    BY <2>1, <2>2, <1>0 DEF Unsettled, OrderInv
  <2>6. PaidBacked'
    BY <2>1, <2>2, <1>0 DEF PaidBacked, OrderInv
  <2>7. Books(subs, sources, now)'
    BY <2>1, <1>0
  <2> QED BY <2>3, <2>4, <2>5, <2>6, <2>7 DEF BillingInv, OrderInv
<1>2. ASSUME NEW t \in Txn, NEW out \in PaymentOutcome,
             ProviderReports(t, out) \/ RefuseCallback(t, out)
      PROVE  BillingInv'
  <2>1. /\ now' = now /\ orderOf' = orderOf /\ txns' = txns /\ planOf' = planOf
        /\ subs' = subs /\ sources' = sources /\ orders' = orders
        /\ \E e \in {"sent", "refused"} : callback' = [callback EXCEPT ![t][out] = e]
    BY <1>2 DEF ProviderReports, RefuseCallback
  <2>2. callback' \in [Txn -> [PaymentOutcome -> {"unsent", "sent", "refused", "processed"}]]
    <3>1. PICK e \in {"sent", "refused"} : callback' = [callback EXCEPT ![t][out] = e]
      BY <2>1
    <3>2. [callback[t] EXCEPT ![out] = e]
            \in [PaymentOutcome -> {"unsent", "sent", "refused", "processed"}]
      BY <1>0 DEF BillingTypeOK
    <3> QED BY <3>1, <3>2, <1>0 DEF BillingTypeOK
  <2>3. BillingTypeOK'
    BY <2>1, <2>2, <1>0 DEF BillingTypeOK
  <2>4. LedgerAgrees' /\ Unsettled' /\ PaidBacked'
    <3>1. LedgerAgrees'
      BY <2>1, <1>0 DEF LedgerAgrees, OrderInv
    <3>2. Unsettled'
      BY <2>1, <1>0 DEF Unsettled, OrderInv
    <3>3. PaidBacked'
      BY <2>1, <1>0 DEF PaidBacked, OrderInv
    <3> QED BY <3>1, <3>2, <3>3
  <2>7. Books(subs, sources, now)'
    BY <2>1, <1>0
  <2> QED BY <2>3, <2>4, <2>7 DEF BillingInv, OrderInv
<1>3. ASSUME NEW t \in Txn, NEW out \in PaymentOutcome, ApplyAuthenticatedCallback(t, out)
      PROVE  BillingInv'
  <2> DEFINE o == orderOf[t]
  <2>1. o \in Order
    BY <1>0 DEF BillingTypeOK, BillingAssumption
  <2>2. now' = now
    BY <1>3 DEF ApplyAuthenticatedCallback
  <2>3. OrderInv'
    BY <1>0, <1>3, ReportSettles
  <2>4. CASE out = "paid" /\ orders[o] # "paid"
    <3>1. Opened(o) /\ ProjectDomainEntitlement(o)
      BY <1>0, <1>3, <2>4, ReportSettles
    <3> QED BY <3>1, <1>0, <2>1, <2>2, <2>3, OpenedBooks DEF BillingInv
  <2>5. CASE out = "refunded" /\ orders[o] # "refunded"
    <3>1. Shut(o) /\ RevokeSubscription(o)
      BY <1>0, <1>3, <2>5, ReportSettles
    <3> QED BY <3>1, <1>0, <2>1, <2>2, <2>3, ShutBooks DEF BillingInv
  <2>6. CASE ~(out = "paid" /\ orders[o] # "paid") /\ ~(out = "refunded" /\ orders[o] # "refunded")
    <3>1. subs' = subs /\ sources' = sources
      BY <1>0, <1>3, <2>6, ReportSettles
    <3> QED BY <3>1, <1>0, <2>2, <2>3 DEF BillingInv
  <2> QED BY <2>4, <2>5, <2>6
<1>4. ASSUME NEW s \in Sub, NEW q \in Plan, ScheduleDowngrade(s, q) PROVE BillingInv'
  <2>1. OrderInv'
    BY <1>0, <1>4, DowngradeKeepsMoney
  <2>2. CASE EnterGrace(s, q, subs, sources)
    BY <1>0, <2>1, <2>2, GraceBooks DEF BillingInv
  <2>3. CASE /\ Target(s) \in Sub /\ subs[s].status = "grace" /\ subs[s].until <= now
             /\ subs[Target(s)].status = "pending"
             /\ EnterGrace(Target(s), q, Promoted(s), PromotedSources(s))
    <3>1. SubsOK(Promoted(s)) /\ SourcesOK(PromotedSources(s))
      BY <1>0, <2>3, PromotionTypes
    <3>2. Books(Promoted(s), PromotedSources(s), now)
      BY <1>0, <2>3, PromotedBooks
    <3> HIDE DEF Promoted, PromotedSources
    <3>3. Books(subs, sources, now)'
      BY <1>0, <2>3, <3>1, <3>2, GraceBooks
    <3> QED BY <2>1, <3>3 DEF BillingInv
  <2> QED BY <1>4, <2>2, <2>3 DEF ScheduleDowngrade
<1>5. CASE Tick
  <2>1. now' = now + 1 /\ UNCHANGED <<orders, planOf, orderOf, txns, callback, subs, sources>>
    BY <1>5 DEF Tick
  <2>2. BillingTypeOK'
    BY <2>1, <1>0 DEF BillingTypeOK
  <2>3. LedgerAgrees' /\ Unsettled' /\ PaidBacked'
    <3>1. LedgerAgrees'
      BY <2>1, <1>0 DEF LedgerAgrees, OrderInv
    <3>2. Unsettled'
      BY <2>1, <1>0 DEF Unsettled, OrderInv
    <3>3. PaidBacked'
      BY <2>1, <1>0 DEF PaidBacked, OrderInv
    <3> QED BY <3>1, <3>2, <3>3
  <2>4. Books(subs, sources, now)'
    BY <2>1, <1>0, LaterBooks
  <2> QED BY <2>2, <2>3, <2>4 DEF BillingInv, OrderInv
<1>6. CASE UNCHANGED billingVars
  <2>1. /\ now' = now /\ orderOf' = orderOf /\ txns' = txns /\ planOf' = planOf
        /\ subs' = subs /\ sources' = sources /\ orders' = orders /\ callback' = callback
    BY <1>6 DEF billingVars
  <2>2. BillingTypeOK'
    BY <2>1, <1>0 DEF BillingTypeOK
  <2>3. LedgerAgrees' /\ Unsettled' /\ PaidBacked'
    <3>1. LedgerAgrees'
      BY <2>1, <1>0 DEF LedgerAgrees, OrderInv
    <3>2. Unsettled'
      BY <2>1, <1>0 DEF Unsettled, OrderInv
    <3>3. PaidBacked'
      BY <2>1, <1>0 DEF PaidBacked, OrderInv
    <3> QED BY <3>1, <3>2, <3>3
  <2>4. Books(subs, sources, now)'
    BY <2>1, <1>0
  <2> QED BY <2>2, <2>3, <2>4 DEF BillingInv, OrderInv
<1> QED BY <1>1, <1>2, <1>3, <1>4, <1>5, <1>6 DEF BillingNext

(* In whatever order reports of the provider, downgrades, promotions and sweeps   *)
(* arrive, the ledger and the books of the workspace stay as described above.      *)
THEOREM BillingInvariance == BillingSpec => []BillingInv
<1>1. BillingInit => BillingInv
  BY BillingAssumption, BillingStarts
<1>2. BillingInv /\ [BillingNext]_billingVars => BillingInv'
  BY BillingAssumption, BillingStep
<1> QED BY <1>1, <1>2, PTL DEF BillingSpec

-----------------------------------------------------------------------------
(* What a refund leaves behind.  The rows of an order form a chain: row n + 1 is  *)
(* the downgrade of row n.  Only an order that was paid has rows; a row that has    *)
(* been downgraded is not active any more; and when the order is refunded, what      *)
(* still counts of its chain counts behind a downgrade that had been promoted.        *)
Chained(S, ord, o, n) ==
    S[<<o, n>>].status # "none" =>
      /\ ord[o] \in {"paid", "refunded"}
      /\ n > 0 => S[<<o, 0>>].status \in {"grace", "expired", "canceled"}
      /\ n > 1 => S[<<o, 1>>].status \in {"grace", "expired"}
      /\ n = 1 /\ S[<<o, n>>].status = "canceled" => S[<<o, n>>].revoked
      /\ n > 0 /\ ord[o] = "refunded" /\ ~S[<<o, n>>].revoked =>
           S[<<o, 1>>].status \in {"active", "grace", "expired"}

Chains(S, ord) == \A o \in Order, n \in 0 .. MaxDepth : Chained(S, ord, o, n)

LEMMA ChainRows ==
    ASSUME BillingAssumption
    PROVE  /\ \A o \in Order, n \in 0 .. MaxDepth : <<o, n>> \in Sub
           /\ \A o \in Order : <<o, 0>> \in Sub
           /\ \A o \in Order, n \in 0 .. MaxDepth : n > 0 => <<o, 1>> \in Sub
           /\ \A s \in Sub : \E o \in Order, n \in 0 .. MaxDepth : s = <<o, n>>
           /\ \A o \in Order, n \in 0 .. MaxDepth : Target(<<o, n>>) = <<o, n + 1>>
           /\ \A o, p, n, m : <<o, n>> = <<p, m>> <=> o = p /\ n = m
           /\ MaxDepth \in Nat
<1>1. MaxDepth \in Nat
  BY Zenon DEF BillingAssumption
<1> QED BY <1>1 DEF Sub, Target

LEMMA ChainsBegin == ASSUME BillingAssumption, BillingInit PROVE Chains(subs, orders)
<1>1. \A s \in Sub : subs[s].status = "none"
  BY DEF BillingInit, NoSub
<1> QED BY <1>1, ChainRows DEF Chains, Chained

LEMMA ActivationEnds ==
    ASSUME BillingAssumption, BillingTypeOK, NEW o \in Order, ActivateSubscription(o)
    PROVE  \A s \in Sub \ {<<o, 0>>} :
             /\ subs[s].status = "none" => subs'[s] = subs[s]
             /\ subs[s].status # "none" =>
                  /\ subs'[s].revoked
                  /\ subs'[s].status = IF subs[s].status = "pending" THEN "canceled"
                                       ELSE IF subs[s].status \in Current THEN "expired"
                                       ELSE subs[s].status
<1> SUFFICES ASSUME NEW s \in Sub \ {<<o, 0>>}
             PROVE  /\ subs[s].status = "none" => subs'[s] = subs[s]
                    /\ subs[s].status # "none" =>
                         /\ subs'[s].revoked
                         /\ subs'[s].status = IF subs[s].status = "pending" THEN "canceled"
                                              ELSE IF subs[s].status \in Current THEN "expired"
                                              ELSE subs[s].status
  OBVIOUS
<1>1. subs[s] \in SubRow
  BY DEF BillingTypeOK
<1>2. subs'[s] = IF subs[s].status = "none" THEN subs[s]
                 ELSE [subs[s] EXCEPT
                         !.status = CASE subs[s].status = "pending" -> "canceled"
                                      [] subs[s].status \in Current -> "expired"
                                      [] OTHER -> subs[s].status,
                         !.revoked = TRUE]
  BY DEF ActivateSubscription
<1> QED BY <1>1, <1>2 DEF SubRow, SubStatus, Current

LEMMA ActivationChains ==
    ASSUME BillingAssumption, BillingTypeOK, Chains(subs, orders), NEW o \in Order,
           orders[o] = "pending", ActivateSubscription(o),
           orders' = [orders EXCEPT ![o] = "paid"]
    PROVE  Chains(subs', orders')
<1>1. orders'[o] = "paid" /\ \A p \in Order : p # o => orders'[p] = orders[p]
  BY DEF BillingTypeOK
<1>2. \A n \in 0 .. MaxDepth : subs[<<o, n>>].status = "none"
  BY DEF Chains, Chained
<1>3. subs'[<<o, 0>>].status = "active"
  <2>1. subs'[<<o, 0>>] = OpenRow(o)
    BY ActivationOpens DEF Opened
  <2>2. OpenRow(o).status = "active"
    BY DEF OpenRow
  <2> QED BY <2>1, <2>2
<1> SUFFICES ASSUME NEW p \in Order, NEW n \in 0 .. MaxDepth
             PROVE  Chained(subs', orders', p, n)
  BY DEF Chains
<1>4. CASE p = o
  <2>1. n > 0 => subs'[<<o, n>>].status = "none"
    BY <1>2, ActivationEnds, ChainRows
  <2> QED BY <2>1, <1>1, <1>4, ChainRows DEF Chained
<1>5. CASE p # o
  <2>1. \A m \in 0 .. MaxDepth : <<p, m>> \in Sub \ {<<o, 0>>}
    BY <1>5, ChainRows
  <2>2. /\ 0 \in 0 .. MaxDepth /\ (n > 0 => 1 \in 0 .. MaxDepth)
    BY ChainRows
  <2>3. Chained(subs, orders, p, n)
    BY DEF Chains
  <2> QED BY <2>1, <2>2, <2>3, <1>1, <1>5, ActivationEnds DEF Chained, Current
<1> QED BY <1>4, <1>5

LEMMA RevocationChains ==
    ASSUME BillingAssumption, BillingTypeOK, Books(subs, sources, now), Chains(subs, orders),
           NEW o \in Order, orders[o] = "paid", RevokeSubscription(o),
           orders' = [orders EXCEPT ![o] = "refunded"]
    PROVE  Chains(subs', orders')
<1>1. orders'[o] = "refunded" /\ \A p \in Order : p # o => orders'[p] = orders[p]
  BY DEF BillingTypeOK
<1>2. ASSUME NEW s \in Sub
      PROVE  IF \/ s = <<o, 0>> /\ subs[s].status # "none"
                \/ ControlsCurrent(o) /\ subs[s].status = "pending"
             THEN subs'[s].status = "canceled" /\ subs'[s].revoked
             ELSE subs'[s] = subs[s]
  <2>1. subs[s] \in SubRow
    BY DEF BillingTypeOK
  <2>2. subs'[s] = IF \/ s = <<o, 0>> /\ subs[s].status # "none"
                      \/ ControlsCurrent(o) /\ subs[s].status = "pending"
                   THEN [subs[s] EXCEPT !.status = "canceled", !.revoked = TRUE]
                   ELSE subs[s]
    BY DEF RevokeSubscription
  <2> QED BY <2>1, <2>2 DEF SubRow
\* Only the target of the root can be pending, and only while the root is in its grace.
<1>3. ASSUME NEW p \in Order, NEW n \in 0 .. MaxDepth, subs[<<p, n>>].status = "pending"
      PROVE  /\ n > 0
             /\ \E m \in 0 .. MaxDepth : n = m + 1 /\ subs[<<p, m>>].status = "grace"
  <2>1. PICK c \in Sub : <<p, n>> = Target(c) /\ subs[c].status = "grace"
    BY <1>3, ChainRows DEF Books, PendingRow
  <2>2. PICK q \in Order, m \in 0 .. MaxDepth : c = <<q, m>>
    BY ChainRows
  <2>3. <<p, n>> = <<q, m + 1>>
    BY <2>1, <2>2, ChainRows
  <2>4. p = q /\ n = m + 1
    BY <2>3, ChainRows
  <2> QED BY <2>1, <2>2, <2>4
<1>4. ASSUME ControlsCurrent(o), NEW p \in Order, NEW n \in 0 .. MaxDepth,
             subs[<<p, n>>].status = "pending"
      PROVE  p = o /\ n = 1
  <2>1. PICK m \in 0 .. MaxDepth : n = m + 1 /\ subs[<<p, m>>].status = "grace"
    BY <1>3, <1>4
  <2>2. <<p, m>> = <<o, 0>>
    BY <1>4, <2>1, ChainRows DEF Books, ControlsCurrent, Current
  <2>3. p = o /\ m = 0
    BY <2>2, ChainRows
  <2> QED BY <2>1, <2>3
<1> SUFFICES ASSUME NEW p \in Order, NEW n \in 0 .. MaxDepth
             PROVE  Chained(subs', orders', p, n)
  BY DEF Chains
<1>5. /\ 0 \in 0 .. MaxDepth /\ (n > 0 => 1 \in 0 .. MaxDepth)
      /\ <<p, n>> \in Sub /\ <<p, 0>> \in Sub /\ (n > 0 => <<p, 1>> \in Sub)
  BY ChainRows
<1>6. Chained(subs, orders, p, n)
  BY DEF Chains
<1>7. CASE p # o
  <2>1. \A m \in 0 .. MaxDepth : subs'[<<p, m>>] = subs[<<p, m>>]
    BY <1>2, <1>4, <1>7, ChainRows
  <2> QED BY <2>1, <1>1, <1>5, <1>6, <1>7 DEF Chained
<1>8. CASE p = o /\ ControlsCurrent(o)
  <2>1. subs[<<o, 0>>].status \in Current
    BY <1>8 DEF ControlsCurrent
  <2>2. subs'[<<o, 0>>].status = "canceled" /\ subs'[<<o, 0>>].revoked
    BY <2>1, <1>2, <1>5, <1>8 DEF Current
  <2>3. CASE n = 0
    BY <2>2, <2>3, <1>1, <1>8 DEF Chained
  <2>4. CASE n > 0 /\ subs[<<o, n>>].status = "none"
    <3>1. subs'[<<o, n>>] = subs[<<o, n>>]
      BY <1>2, <1>5, <1>8, <2>4, ChainRows
    <3> QED BY <3>1, <2>4, <1>8 DEF Chained
  <2>5. CASE n > 0 /\ subs[<<o, n>>].status # "none"
    <3>1. subs[<<o, 0>>].status = "grace"
      BY <2>1, <2>5, <1>6, <1>8 DEF Chained, Current
    <3>2. subs[<<o, 1>>].status = "pending"
      <4>1. CurrentRow(subs, sources, now, <<o, 0>>)
        BY <2>1, <1>5, <1>8 DEF Books
      <4>2. Target(<<o, 0>>) = <<o, 1>>
        BY <1>5, ChainRows
      <4> QED BY <3>1, <4>1, <4>2 DEF CurrentRow
    <3>3. n = 1
      BY <2>5, <3>2, <1>6, <1>8 DEF Chained
    <3>4. subs'[<<o, 1>>].status = "canceled" /\ subs'[<<o, 1>>].revoked
      BY <3>2, <3>3, <1>2, <1>5, <1>8
    <3> QED BY <2>2, <3>3, <3>4, <1>1, <1>8 DEF Chained
  <2> QED BY <2>3, <2>4, <2>5, <1>5
<1>9. CASE p = o /\ ~ControlsCurrent(o)
  <2>1. \A m \in 0 .. MaxDepth : m > 0 => subs'[<<o, m>>] = subs[<<o, m>>]
    BY <1>2, <1>9, ChainRows
  <2>2. subs[<<o, 0>>].status # "none" => subs'[<<o, 0>>].status = "canceled" /\ subs'[<<o, 0>>].revoked
    BY <1>2, <1>5, <1>9
  <2>3. CASE n = 0
    BY <2>3, <1>1, <1>9 DEF Chained
  <2>4. CASE n > 0 /\ subs[<<o, n>>].status = "none"
    BY <2>1, <2>4, <1>9 DEF Chained
  <2>5. CASE n > 0 /\ subs[<<o, n>>].status # "none"
    <3>1. subs[<<o, 1>>].status # "pending"
      <4> SUFFICES ASSUME subs[<<o, 1>>].status = "pending" PROVE FALSE
        OBVIOUS
      <4>1. 1 \in 0 .. MaxDepth
        BY <1>5, <2>5
      <4>2. PICK m \in 0 .. MaxDepth : 1 = m + 1 /\ subs[<<o, m>>].status = "grace"
        BY <4>1, <1>3
      <4>3. m = 0
        BY <4>2, ChainRows
      <4> QED BY <4>2, <4>3, <1>9 DEF ControlsCurrent, Current
    <3>2. subs[<<o, n>>].status \in SubStatus /\ subs[<<o, 1>>].status \in SubStatus
      BY <1>5, <1>9, <2>5 DEF BillingTypeOK, SubRow
    <3>3. ~subs[<<o, n>>].revoked => subs[<<o, 1>>].status \in {"active", "grace", "expired"}
      BY <3>1, <3>2, <2>5, <1>6, <1>9 DEF Chained, SubStatus
    <3>4. subs'[<<o, 1>>] = subs[<<o, 1>>] /\ subs'[<<o, n>>] = subs[<<o, n>>]
      BY <2>1, <2>5, <1>5
    <3>5. subs[<<o, 0>>].status # "none"
      BY <2>5, <1>6, <1>9 DEF Chained
    <3> QED BY <3>3, <3>4, <3>5, <2>2, <2>5, <1>1, <1>6, <1>9 DEF Chained
  <2> QED BY <2>3, <2>4, <2>5, <1>5
<1> QED BY <1>7, <1>8, <1>9

LEMMA PromotionChains ==
    ASSUME BillingAssumption, BillingTypeOK, Chains(subs, orders), NEW s \in Sub,
           Target(s) \in Sub, subs[s].status = "grace", subs[Target(s)].status = "pending"
    PROVE  Chains(Promoted(s), orders)
<1>1. /\ Promoted(s)[s].status = "expired" /\ Promoted(s)[s].revoked = subs[s].revoked
      /\ Promoted(s)[Target(s)].status = "active"
      /\ Promoted(s)[Target(s)].revoked = subs[Target(s)].revoked
      /\ \A r \in Sub : r # s /\ r # Target(s) => Promoted(s)[r] = subs[r]
  <2>1. subs[s] \in SubRow /\ subs[Target(s)] \in SubRow
    BY DEF BillingTypeOK
  <2>2. \A e \in SubRow, x \in SubStatus :
          [e EXCEPT !.status = x].status = x /\ [e EXCEPT !.status = x].revoked = e.revoked
    BY DEF SubRow
  <2>3. "expired" \in SubStatus /\ "active" \in SubStatus
    BY DEF SubStatus
  <2>4. /\ Promoted(s)[s] = [subs[s] EXCEPT !.status = "expired"]
        /\ Promoted(s)[Target(s)] = [subs[Target(s)] EXCEPT !.status = "active"]
        /\ \A r \in Sub \ {s, Target(s)} : Promoted(s)[r] = subs[r]
    BY PromotionTypes
  <2> HIDE DEF Promoted, SubRow, SubStatus
  <2> QED BY <2>1, <2>2, <2>3, <2>4
<1>2. PICK p \in Order, k \in 0 .. MaxDepth : s = <<p, k>>
  BY ChainRows
<1>3. Target(s) = <<p, k + 1>>
  BY <1>2, ChainRows
<1> DEFINE S == Promoted(s)
<1> HIDE DEF S
<1> SUFFICES ASSUME NEW o \in Order, NEW n \in 0 .. MaxDepth
             PROVE  Chained(S, orders, o, n)
  BY DEF Chains, S
<1>4. /\ <<o, n>> \in Sub /\ <<o, 0>> \in Sub /\ (n > 0 => <<o, 1>> \in Sub)
  BY ChainRows
<1>5. Chained(subs, orders, o, n)
  BY DEF Chains
<1>6. /\ S[s].status = "expired" /\ S[s].revoked = subs[s].revoked
      /\ S[Target(s)].status = "active" /\ S[Target(s)].revoked = subs[Target(s)].revoked
      /\ \A r \in Sub : r # s /\ r # Target(s) => S[r] = subs[r]
  BY <1>1 DEF S
<1>7. \A r \in Sub :
        /\ S[r].status = "none" <=> subs[r].status = "none"
        /\ S[r].revoked = subs[r].revoked
        /\ subs[r].status \in {"grace", "expired", "canceled"} =>
             /\ S[r].status \in {"grace", "expired", "canceled"}
             /\ S[r].status = "canceled" <=> subs[r].status = "canceled"
        /\ subs[r].status \in {"active", "grace", "expired"} =>
             S[r].status \in {"active", "grace", "expired"}
        /\ S[r].status = "canceled" => subs[r].status = "canceled"
  BY <1>6
<1> QED BY <1>4, <1>5, <1>7 DEF Chained

LEMMA GraceChains ==
    ASSUME BillingAssumption, BillingTypeOK, NEW s \in Sub, NEW q \in Plan,
           NEW was, SubsOK(was), NEW src, SourcesOK(src), Books(was, src, now),
           EnterGrace(s, q, was, src), Chains(was, orders),
           \A o \in Order : was[<<o, 0>>].status # "none" /\ ~was[<<o, 0>>].revoked
                              => orders[o] = "paid"
    PROVE  Chains(subs', orders')
<1>1. GraceRows(s, q, was) /\ orders' = orders
  BY GraceBegins DEF EnterGrace, BillingTypeOK
<1>2. PICK p \in Order, k \in 0 .. MaxDepth : s = <<p, k>>
  BY ChainRows
<1>3. Target(s) = <<p, k + 1>> /\ k + 1 \in 0 .. MaxDepth
  <2>1. Target(s) = <<p, k + 1>>
    BY <1>2, ChainRows
  <2>2. PICK o1 \in Order, m1 \in 0 .. MaxDepth : Target(s) = <<o1, m1>>
    BY <1>1, ChainRows DEF GraceRows
  <2>3. k + 1 = m1
    BY <2>1, <2>2, ChainRows
  <2> QED BY <2>1, <2>2, <2>3
<1>4. was[s].status = "active" /\ ~was[s].revoked /\ was[s] \in SubRow
  BY DEF EnterGrace, Books, CurrentRow, Current, SubsOK
<1> DEFINE S == subs'
<1>5. /\ S[s].status = "grace" /\ ~S[s].revoked
      /\ S[Target(s)].status = "pending" /\ ~S[Target(s)].revoked
      /\ \A r \in Sub : r # s /\ r # Target(s) => S[r] = was[r]
  BY <1>1, <1>4 DEF GraceRows, InGrace, PendingTo, SubRow
<1> HIDE DEF S
<1> SUFFICES ASSUME NEW o \in Order, NEW n \in 0 .. MaxDepth
             PROVE  Chained(S, orders, o, n)
  BY <1>1 DEF Chains, S
<1>6. /\ <<o, n>> \in Sub /\ <<o, 0>> \in Sub /\ (n > 0 => <<o, 1>> \in Sub)
      /\ 0 \in 0 .. MaxDepth /\ MaxDepth \in Nat
  BY ChainRows
<1>7. Chained(was, orders, o, n) /\ Chained(was, orders, p, k)
  BY DEF Chains
<1>8. CASE o # p
  <2>1. \A m \in 0 .. MaxDepth : S[<<o, m>>] = was[<<o, m>>]
    BY <1>2, <1>3, <1>5, <1>8, ChainRows
  <2>2. n > 0 => 1 \in 0 .. MaxDepth
    BY <1>6
  <2> QED BY <2>1, <2>2, <1>6, <1>7 DEF Chained
<1>9. ASSUME o = p, k > 0, n > 0 PROVE Chained(S, orders, o, n)
  <2>1. was[<<p, 0>>].status \in {"grace", "expired", "canceled"}
    BY <1>2, <1>4, <1>7, <1>9 DEF Chained
  <2>2. S[<<p, 0>>] = was[<<p, 0>>]
    BY <1>2, <1>3, <1>5, <1>6, <1>9, ChainRows
  <2>3. k = 1 => S[<<p, 1>>].status = "grace"
    BY <1>2, <1>5
  <2>4. k > 1 => /\ was[<<p, 1>>].status \in {"grace", "expired"}
                 /\ S[<<p, 1>>] = was[<<p, 1>>]
    BY <1>2, <1>3, <1>4, <1>5, <1>6, <1>7, <1>9, ChainRows DEF Chained
  <2>5. S[<<p, 1>>].status \in {"grace", "expired"}
    BY <2>3, <2>4, <1>9
  <2>6. orders[p] \in {"paid", "refunded"}
    BY <1>2, <1>4, <1>7 DEF Chained
  <2>7. S[<<p, 0>>].status \in {"grace", "expired", "canceled"}
    BY <2>1, <2>2
  <2>8. n = 1 => S[<<o, n>>].status # "canceled"
    BY <2>5, <1>9
  <2> QED BY <2>5, <2>6, <2>7, <2>8, <1>9 DEF Chained
<1>10. ASSUME o = p, k = 0 PROVE Chained(S, orders, o, n)
  <2>1. orders[p] = "paid" /\ was[<<p, 0>>].status = "active"
    BY <1>2, <1>4, <1>10
  <2>2. S[<<p, 0>>].status = "grace"
    BY <1>2, <1>5, <1>10
  <2>3. Target(s) = <<p, 1>>
    BY <1>3, <1>10
  <2>4. n > 1 => S[<<p, n>>].status = "none"
    <3>1. n > 1 => was[<<p, n>>].status = "none"
      BY <2>1, <1>7, <1>10 DEF Chained
    <3> QED BY <3>1, <2>3, <1>2, <1>5, <1>6, <1>10, ChainRows
  <2>5. n = 1 => S[<<p, n>>].status = "pending"
    BY <2>3, <1>5
  <2> QED BY <2>1, <2>2, <2>4, <2>5, <1>10 DEF Chained
<1>11. ASSUME o = p, n = 0 PROVE Chained(S, orders, o, n)
  <2>1. orders[p] \in {"paid", "refunded"}
    BY <1>2, <1>4, <1>7 DEF Chained
  <2> QED BY <2>1, <1>11 DEF Chained
<1> QED BY <1>8, <1>9, <1>10, <1>11, <1>6

LEMMA DowngradeChains ==
    ASSUME BillingAssumption, BillingInv, Chains(subs, orders), NEW s \in Sub, NEW q \in Plan,
           ScheduleDowngrade(s, q)
    PROVE  Chains(subs', orders')
<1>0. /\ BillingTypeOK /\ Books(subs, sources, now) /\ SubsOK(subs) /\ SourcesOK(sources)
      /\ \A o \in Order : subs[<<o, 0>>].status # "none" /\ ~subs[<<o, 0>>].revoked
                            => orders[o] = "paid"
  BY DEF BillingInv, OrderInv, BillingTypeOK, SubsOK, SourcesOK, PaidBacked
<1>1. CASE EnterGrace(s, q, subs, sources)
  BY <1>0, <1>1, GraceChains
<1>2. CASE /\ Target(s) \in Sub /\ subs[s].status = "grace" /\ subs[s].until <= now
           /\ subs[Target(s)].status = "pending"
           /\ EnterGrace(Target(s), q, Promoted(s), PromotedSources(s))
  <2>1. /\ SubsOK(Promoted(s)) /\ SourcesOK(PromotedSources(s))
        /\ Books(Promoted(s), PromotedSources(s), now) /\ Chains(Promoted(s), orders)
    BY <1>0, <1>2, PromotionTypes, PromotedBooks, PromotionChains
  <2>2. /\ Promoted(s)[s].revoked = subs[s].revoked
        /\ \A r \in Sub \ {s, Target(s)} : Promoted(s)[r] = subs[r]
    <3>1. subs[s] \in SubRow
      BY <1>0 DEF SubsOK
    <3>2. [subs[s] EXCEPT !.status = "expired"].revoked = subs[s].revoked
      BY <3>1 DEF SubRow
    <3> QED BY <3>2, <1>0, <1>2, PromotionTypes
  <2>3. ASSUME NEW o \in Order, Promoted(s)[<<o, 0>>].status # "none",
               ~Promoted(s)[<<o, 0>>].revoked
        PROVE  orders[o] = "paid"
    <3>1. <<o, 0>> \in Sub /\ Target(s) # <<o, 0>>
      BY TargetFacts
    <3> QED BY <3>1, <2>2, <2>3, <1>0, <1>2
  <2> HIDE DEF Promoted, PromotedSources
  <2> QED BY <1>0, <1>2, <2>1, <2>3, GraceChains
<1> QED BY <1>1, <1>2 DEF ScheduleDowngrade

LEMMA ChainsStep ==
    ASSUME BillingAssumption, BillingInv, Chains(subs, orders), [BillingNext]_billingVars
    PROVE  Chains(subs, orders)'
<1>0. /\ BillingTypeOK /\ Books(subs, sources, now) /\ OrderInv
  BY DEF BillingInv, OrderInv
\* A step that leaves the rows alone leaves an order without rows, or with its status.
<1>1. ASSUME subs' = subs,
             \A o \in Order : orders'[o] = orders[o] \/ orders[o] \notin {"paid", "refunded"}
      PROVE  Chains(subs, orders)'
  <2> SUFFICES ASSUME NEW o \in Order, NEW n \in 0 .. MaxDepth
               PROVE  Chained(subs, orders', o, n)
    BY <1>1 DEF Chains
  <2>1. Chained(subs, orders, o, n)
    BY DEF Chains
  <2> QED BY <1>1, <2>1 DEF Chained
<1>2. ASSUME NEW o \in Order, NEW p \in Plan, CreateOrder(o, p) PROVE Chains(subs, orders)'
  <2>1. subs' = subs /\ orders[o] = "none" /\ orders' = [orders EXCEPT ![o] = "pending"]
    BY <1>2 DEF CreateOrder
  <2>2. \A x \in Order : orders'[x] = orders[x] \/ orders[x] \notin {"paid", "refunded"}
    BY <2>1, <1>0 DEF BillingTypeOK
  <2> QED BY <2>1, <2>2, <1>1
<1>3. ASSUME NEW t \in Txn, NEW out \in PaymentOutcome, ApplyAuthenticatedCallback(t, out)
      PROVE  Chains(subs, orders)'
  <2> DEFINE o == orderOf[t]
  <2>1. o \in Order /\ orders' = [orders EXCEPT ![o] = out] /\ Settled(t, out)
    BY <1>0, <1>3, ReportSettles DEF BillingTypeOK, BillingAssumption, ApplyAuthenticatedCallback
  <2>2. CASE out = "paid" /\ orders[o] # "paid"
    <3>1. orders[o] = "pending" /\ ActivateSubscription(o)
      BY <1>3, <2>1, <2>2 DEF ApplyAuthenticatedCallback, Settled
    <3>2. Chains(subs', orders')
      BY <3>1, <1>0, <2>1, <2>2, ActivationChains
    <3> QED BY <3>2
  <2>3. CASE out = "refunded" /\ orders[o] # "refunded"
    <3>1. orders[o] = "paid" /\ RevokeSubscription(o)
      BY <1>3, <2>1, <2>3 DEF ApplyAuthenticatedCallback, Settled
    <3>2. Chains(subs', orders')
      BY <3>1, <1>0, <2>1, <2>3, RevocationChains
    <3> QED BY <3>2
  <2>4. CASE ~(out = "paid" /\ orders[o] # "paid") /\ ~(out = "refunded" /\ orders[o] # "refunded")
    <3>1. subs' = subs
      BY <1>3, <2>4 DEF ApplyAuthenticatedCallback
    <3>2. orders[o] = out \/ orders[o] \notin {"paid", "refunded"}
      <4>1. CASE out = "paid"
        BY <4>1, <2>4
      <4>2. CASE out = "failed"
        BY <4>2, <2>1 DEF Settled
      <4>3. CASE out = "refunded"
        BY <4>3, <2>4
      <4> QED BY <4>1, <4>2, <4>3 DEF PaymentOutcome
    <3>3. \A x \in Order : orders'[x] = orders[x] \/ orders[x] \notin {"paid", "refunded"}
      BY <3>2, <2>1, <1>0 DEF BillingTypeOK
    <3> QED BY <3>1, <3>3, <1>1
  <2> QED BY <2>2, <2>3, <2>4
<1>4. ASSUME NEW s \in Sub, NEW q \in Plan, ScheduleDowngrade(s, q) PROVE Chains(subs, orders)'
  <2>1. Chains(subs', orders')
    BY <1>4, DowngradeChains
  <2> QED BY <2>1
<1>5. ASSUME subs' = subs /\ orders' = orders PROVE Chains(subs, orders)'
  BY <1>5, <1>1
<1> QED BY <1>2, <1>3, <1>4, <1>5
        DEF BillingNext, ProviderReports, RefuseCallback, Tick, billingVars

LEMMA ChainsInvariance == BillingSpec => [](BillingInv /\ Chains(subs, orders))
<1>1. BillingInit => BillingInv /\ Chains(subs, orders)
  BY BillingAssumption, BillingStarts, ChainsBegin
<1>2. /\ BillingInv /\ Chains(subs, orders)
      /\ [BillingNext]_billingVars
      => (BillingInv /\ Chains(subs, orders))'
  <2>1. ASSUME BillingInv, Chains(subs, orders), [BillingNext]_billingVars
        PROVE  BillingInv' /\ Chains(subs, orders)'
    BY <2>1, BillingAssumption, BillingStep, ChainsStep
  <2> QED BY <2>1
<1> QED BY <1>1, <1>2, PTL DEF BillingSpec

LEMMA MoneyIsSafe ==
    ASSUME BillingAssumption, OrderInv, Chains(subs, orders)
    PROVE  OrderSafety
<1>1. RefundEndsGrants
  <2> SUFFICES ASSUME NEW s \in Written, NEW t \in Horizon, Granting(s, t)
               PROVE  \/ orders[s[1]] = "paid"
                      \/ orders[s[1]] = "refunded" /\ s[2] > 0 /\ Replaced(s[1])
    BY DEF RefundEndsGrants
  <2>1. s \in Sub /\ subs[s].status # "none" /\ ~subs[s].revoked
    BY DEF Written, Granting
  <2>2. PICK o \in Order, n \in 0 .. MaxDepth : s = <<o, n>>
    BY <2>1, ChainRows
  <2>3. s[1] = o /\ s[2] = n
    BY <2>2
  <2>4. CASE n = 0
    BY <2>1, <2>2, <2>3, <2>4 DEF OrderInv, PaidBacked
  <2>5. CASE n > 0
    <3>1. Chained(subs, orders, o, n) /\ <<o, 1>> \in Sub
      BY <2>5, ChainRows DEF Chains
    <3>2. orders[o] \in {"paid", "refunded"}
      BY <3>1, <2>1, <2>2 DEF Chained
    <3>3. orders[o] = "refunded" => subs[<<o, 1>>].status \in {"active", "grace", "expired"}
      BY <3>1, <2>1, <2>2, <2>5 DEF Chained
    <3> QED BY <3>1, <3>2, <3>3, <2>3, <2>5 DEF Replaced
  <2> QED BY <2>4, <2>5
<1> QED BY <1>1 DEF OrderSafety, OrderInv

LEMMA PlansAreSafe == ASSUME BillingAssumption, BillingInv PROVE PlanSafety
<1>0. /\ Books(subs, sources, now) /\ SourcesOK(sources)
      /\ Grace \in Nat /\ Term \in Nat /\ MaxNow \in Nat /\ now \in Nat
      /\ \A s \in Sub : /\ subs[s] \in SubRow /\ subs[s].starts \in Nat /\ subs[s].until \in Nat
                        /\ subs[s].plan \in Plan
  BY DEF BillingInv, OrderInv, BillingTypeOK, SourcesOK, SubRow, BillingAssumption
<1>4. \A c \in Sub : subs[c].status \in Current =>
        /\ CurrentRow(subs, sources, now, c)
        /\ \A d \in Sub : subs[d].status \in Current => d = c
  BY <1>0 DEF Books
<1>5. ASSUME NEW r \in Sub, subs[r].status = "pending"
      PROVE  \E c \in Sub : /\ r = Target(c) /\ subs[c].status = "grace"
                            /\ subs[r].starts = subs[c].until /\ ~subs[r].revoked
  BY <1>0, <1>5 DEF Books, PendingRow
<1>6. ASSUME NEW e \in Sub, Old(subs[e])
      PROVE  OldRow(subs, now, e)
  BY <1>0, <1>6 DEF Books
<1>7. ASSUME NEW s \in Written, ~subs[s].revoked
      PROVE  s \in Sub /\ (subs[s].status \in Current \/ subs[s].status = "pending" \/ Old(subs[s]))
  BY <1>0, <1>7 DEF Written, SubRow, SubStatus, Current, Old
<1>1. OneCurrentSubscription
  BY <1>4, <1>5 DEF OneCurrentSubscription, Written, Pending
<1>2. OnePlanAtATime
  <2> DEFINE Ahead(r, s) == subs[r].until <= subs[s].starts
  <2>1. ASSUME NEW r \in Sub, NEW s \in Sub, r # s, subs[r].status \in Current, subs[s].status = "pending"
        PROVE  Ahead(r, s)
    BY <2>1, <1>0, <1>4, <1>5 DEF Current
  <2>2. ASSUME NEW r \in Sub, NEW s \in Sub, r # s, Old(subs[r]), subs[s].status \in Current
        PROVE  Ahead(r, s)
    BY <2>2, <1>6 DEF OldRow
  <2>3. ASSUME NEW r \in Sub, NEW s \in Sub, r # s, Old(subs[r]), subs[s].status = "pending"
        PROVE  Ahead(r, s)
    <3>1. PICK c \in Sub : s = Target(c) /\ subs[c].status = "grace" /\ subs[s].starts = subs[c].until
      BY <2>3, <1>5
    <3>2. subs[c].status \in Current
      BY <3>1 DEF Current
    <3>3. subs[r].until <= subs[c].starts /\ subs[c].starts <= subs[c].until
      BY <2>3, <3>2, <1>4, <1>6 DEF OldRow, CurrentRow
    <3> QED BY <3>1, <3>3, <1>0
  <2>4. ASSUME NEW r \in Sub, NEW s \in Sub, r # s, Old(subs[r]), Old(subs[s])
        PROVE  Ahead(r, s) \/ Ahead(s, r)
    BY <2>4, <1>6 DEF OldRow
  <2>5. ASSUME NEW r \in Sub, NEW s \in Sub, subs[r].status = "pending", subs[s].status = "pending"
        PROVE  r = s
    BY <2>5, <1>4, <1>5 DEF Current
  <2> SUFFICES ASSUME NEW r \in Written, NEW s \in Written, r # s, NEW t \in Horizon,
                      Granting(r, t), Granting(s, t)
               PROVE  FALSE
    BY DEF OnePlanAtATime
  <2>6. ~subs[r].revoked /\ ~subs[s].revoked /\ r \in Sub /\ s \in Sub
    BY DEF Granting, Written
  <2>7. Ahead(r, s) \/ Ahead(s, r)
    <3> HIDE DEF Ahead
    <3> QED BY <2>1, <2>2, <2>3, <2>4, <2>5, <2>6, <1>4, <1>7
  <2>8. t \in Nat
    BY <1>0 DEF Horizon
  <2> QED BY <1>0, <2>6, <2>7, <2>8 DEF Granting
<1>3. DomainsFollowBilling
  <2> SUFFICES ASSUME NEW t \in Horizon, t >= now
               PROVE  {subs[s].plan[CustomDomains] : s \in {r \in Written : Granting(r, t)}} \ {0}
                      = {sources[k].limit : k \in {j \in DOMAIN sources : SourceInForce(j, t)}}
    BY DEF DomainsFollowBilling
  <2> DEFINE Goal ==
        {subs[s].plan[CustomDomains] : s \in {r \in Written : Granting(r, t)}} \ {0}
        = {sources[k].limit : k \in {j \in DOMAIN sources : SourceInForce(j, t)}}
  <2>0. t \in Nat /\ DOMAIN sources = {"plan", "target"}
    BY <1>0 DEF Horizon, SourcesOK
  <2>1. \A e \in Sub : Old(subs[e]) => ~Granting(e, t)
    BY <1>0, <1>6, <2>0 DEF OldRow, Granting
  <2>2. \A k \in {"plan", "target"} : sources[k].status # "active" => ~SourceInForce(k, t)
    BY DEF SourceInForce
  <2>3. CASE \A c \in Sub : subs[c].status \notin Current
    <3>1. \A r \in Written : ~Granting(r, t)
      <4>1. \A r \in Sub : subs[r].status # "pending"
        BY <2>3, <1>5 DEF Current
      <4> QED BY <4>1, <2>1, <2>3, <1>7 DEF Granting
    <3>2. \A k \in {"plan", "target"} : ~SourceInForce(k, t)
      BY <1>0, <2>2, <2>3 DEF Books
    <3> QED BY <3>1, <3>2, <2>0
  <2>4. ASSUME NEW c \in Sub, subs[c].status = "active" PROVE Goal
    <3> DEFINE p == subs[c].plan[CustomDomains]
    <3>1. CurrentRow(subs, sources, now, c) /\ \A d \in Sub : subs[d].status \in Current => d = c
      BY <2>4, <1>4 DEF Current
    <3>2. HeldForActive(subs[c], sources) /\ subs[c].starts <= now /\ ~subs[c].revoked
      BY <2>4, <3>1 DEF CurrentRow
    <3>3. p \in Nat /\ c \in Written
      BY <2>4, <1>0, Zenon DEF BillingAssumption, Written
    <3>4. \A r \in Sub : subs[r].status # "pending"
      BY <2>4, <3>1, <1>5 DEF Current
    <3>5. \A r \in Written : Granting(r, t) <=> r = c /\ t < subs[c].until
      <4>1. \A r \in Written : Granting(r, t) => r = c
        BY <3>1, <3>4, <2>1, <1>7 DEF Granting
      <4>2. Granting(c, t) <=> t < subs[c].until
        BY <2>0, <2>4, <3>2, <1>0 DEF Granting
      <4> QED BY <4>1, <4>2
    <3>6. ~SourceInForce("target", t)
      BY <3>2, <2>2 DEF HeldForActive
    <3>7. CASE p = 0
      <4>1. ~SourceInForce("plan", t)
        BY <3>2, <3>7, <2>2 DEF HeldForActive
      <4> QED BY <4>1, <3>5, <3>6, <3>7, <2>0
    <3>8. CASE p # 0
      <4>1. /\ sources["plan"].status = "active" /\ sources["plan"].degraded = Never
            /\ sources["plan"].limit = p /\ sources["plan"].starts = subs[c].starts
            /\ sources["plan"].expires = subs[c].until
        <5>1. sources["plan"] = PlanSource(subs[c].plan, subs[c].starts, subs[c].until)
          BY <3>2, <3>3, <3>8 DEF HeldForActive
        <5> QED BY <5>1, <1>0, OpenedSource
      <4>2. SourceInForce("plan", t) <=> t < subs[c].until
        BY <4>1, <3>2, <2>0, <1>0 DEF SourceInForce
      <4> HIDE DEF p
      <4>3. \A s \in Written : Granting(s, t) => subs[s].plan[CustomDomains] = p
        BY <3>5 DEF p
      <4> QED BY <4>1, <4>2, <4>3, <3>3, <3>5, <3>6, <3>8, <2>0
    <3> QED BY <3>7, <3>8
  <2>5. ASSUME NEW c \in Sub, subs[c].status = "grace" PROVE Goal
    <3> DEFINE r == Target(c)
               p == subs[c].plan[CustomDomains]
               q == subs[r].plan[CustomDomains]
    <3>1. CurrentRow(subs, sources, now, c) /\ \A d \in Sub : subs[d].status \in Current => d = c
      BY <2>5, <1>4 DEF Current
    <3>2. /\ HeldForGrace(subs[c], subs[r], sources, now) /\ subs[c].starts <= now
          /\ ~subs[c].revoked /\ r \in Sub /\ subs[r].status = "pending"
      BY <2>5, <3>1 DEF CurrentRow
    <3>3. p \in Nat /\ q \in Nat /\ c \in Written /\ r \in Written /\ r # c
      BY <2>5, <3>2, <1>0, Zenon DEF BillingAssumption, Written
    <3>4. /\ \A x \in Sub : subs[x].status = "pending" => x = r
          /\ subs[r].starts = subs[c].until /\ ~subs[r].revoked
      BY <2>5, <3>1, <3>2, <1>5 DEF Current
    <3>5. \A x \in Written : Granting(x, t) => x = c \/ x = r
      BY <3>1, <3>4, <2>1, <1>7 DEF Granting
    <3>6. Granting(c, t) <=> t < subs[c].until
      BY <2>0, <2>5, <3>2, <1>0 DEF Granting
    <3>7. Granting(r, t) <=> subs[c].until <= t /\ t < subs[r].until
      BY <2>0, <3>2, <3>4, <1>0 DEF Granting
    <3>8. SourceInForce("plan", t) <=> p # 0 /\ t < subs[c].until
      BY <3>2, <3>3, <2>0, <1>0 DEF HeldForGrace, SourceInForce, SourcesOK, Source
    <3>9. p # 0 => sources["plan"].limit = p
      BY <3>2, <3>3 DEF HeldForGrace
    <3>10. q # 0 => /\ sources["target"].status = "active" /\ sources["target"].degraded = Never
                    /\ sources["target"].limit = q /\ sources["target"].starts = subs[c].until
                    /\ sources["target"].expires = subs[r].until
      <4>1. q # 0 => sources["target"] = PlanSource(subs[r].plan, subs[c].until, subs[r].until)
        BY <3>2, <3>3 DEF HeldForGrace
      <4> QED BY <4>1, <3>2, <1>0, OpenedSource
    <3>11. SourceInForce("target", t) <=> q # 0 /\ subs[c].until <= t /\ t < subs[r].until
      <4>1. q = 0 => sources["target"].status # "active"
        BY <3>2 DEF HeldForGrace
      <4> QED BY <4>1, <3>10 DEF SourceInForce
    <3>12. t < subs[c].until \/ subs[c].until <= t
      BY <2>0, <1>0
    <3> HIDE DEF r, p, q
    <3>13. subs[c].plan[CustomDomains] = p /\ subs[r].plan[CustomDomains] = q
      BY DEF p, q
    <3> QED BY <3>3, <3>5, <3>6, <3>7, <3>8, <3>9, <3>10, <3>11, <3>13, <2>0
  <2> QED BY <2>3, <2>4, <2>5 DEF Current
<1> QED BY <1>1, <1>2, <1>3 DEF PlanSafety

(* An order is settled as its transactions say, in whatever order the reports come,  *)
(* and what an unpaid or a refunded order bought grants nothing, its downgrades        *)
(* included, unless a downgrade had been promoted by the time of the refund.            *)
THEOREM OrdersAreSafe == BillingSpec => []OrderSafety
<1>1. BillingInv /\ Chains(subs, orders) => OrderSafety
  BY BillingAssumption, MoneyIsSafe DEF BillingInv
<1> QED BY <1>1, ChainsInvariance, PTL

(* A workspace has one current subscription and one plan's grants at any instant,   *)
(* a downgrade starts when the grace ends, and the sources of the domain limit grant  *)
(* what the subscriptions do, through every payment, refund, downgrade and handoff.   *)
THEOREM PlansStaySafe == BillingSpec => []PlanSafety
<1>1. BillingInv => PlanSafety
  BY BillingAssumption, PlansAreSafe
<1> QED BY <1>1, BillingInvariance, PTL

-----------------------------------------------------------------------------
(* CustomDomain: one domain with its four axes *)

\* While a transaction holds the row to enable its routing, the row stays as it was read.
LockedRowIsKept ==
    /\ ~Unlocked => Exists /\ AllReady
    /\ holder \in {"activate", "restore"} => domain.category = ""
    /\ holder = "abuse_restore" => domain.category = "abuse" /\ abuseHold

DomainInv ==
    /\ DomainTypeOK
    /\ SecuritySuspensionHolds
    /\ OwnershipIsCurrent
    /\ LockedRowIsKept

RowIsSafe(r) ==
    /\ r.category # "" => r.routing = "suspended"
    /\ r.ownership = "verified" => r.proof = r.version

\* What a step may make of the row: it stays, or it is not locked or is unlocked by the
\* step, stays safe, and keeps a security category except for the restore of an abuse report.
RowStep ==
    \/ UNCHANGED domain
    \/ /\ domain' \in DomainRow /\ RowIsSafe(domain')
       /\ Unlocked \/ holder' = "nobody" \/ ~Exists
       /\ Exists => domain'.routing # "none"
       /\ \/ domain.category \in {"", domain'.category}
          \/ holder = "abuse_restore" /\ domain'.category = ""

\* A row with these fields, whatever its axes.
RowIs(r, routing, category, ownership, version, proof) ==
    /\ r \in DomainRow
    /\ r.routing = routing /\ r.category = category /\ r.ownership = ownership
    /\ r.version = version /\ r.proof = proof

LEMMA VersionBound == MaxVersion \in Nat \ {0} /\ MaxChecks \in Nat \ {0}
  BY CustomDomainAssumption, Zenon

(* What one axis was found to be says nothing of the others. *)
LEMMA ObservedStep ==
    ASSUME domain \in DomainRow, RowIsSafe(domain), Unlocked, NEW a \in Observed, NEW b \in BOOLEAN,
           domain' = [domain EXCEPT !.good[a] = b]
    PROVE  RowStep
  <1>1. RowIs(domain', domain.routing, domain.category, domain.ownership, domain.version, domain.proof)
    BY DEF DomainRow, RowIs
  <1> QED BY <1>1 DEF RowStep, RowIsSafe, Exists, RowIs

LEMMA DomainRowStep ==
    ASSUME DomainInv, [DomainNext]_domainVars
    PROVE  RowStep
  <1>1. domain \in DomainRow /\ RowIsSafe(domain) /\ checks \in [Checks -> Observation]
    BY DEF DomainInv, DomainTypeOK, RowIsSafe, SecuritySuspensionHolds, OwnershipIsCurrent
  <1>2. CASE UNCHANGED domain
    BY <1>2 DEF RowStep
  <1>3. CASE CreateDomain
    <2>1. domain' = [domain EXCEPT !.routing = "pending"] /\ domain.routing = "none"
      BY <1>3 DEF CreateDomain, Exists
    <2>2. RowIs(domain', "pending", domain.category, domain.ownership, domain.version, domain.proof)
      BY <1>1, <2>1 DEF DomainRow, RowIs
    <2> QED BY <1>1, <2>1, <2>2 DEF RowStep, RowIsSafe, Exists, RowIs
  <1>4. CASE RotateOwnershipSecret
    <2>1. domain' = [domain EXCEPT !.version = domain.version + 1, !.ownership = "pending"]
          /\ domain.version < MaxVersion /\ Unlocked
      BY <1>4 DEF RotateOwnershipSecret
    <2>2. domain.version \in 1 .. MaxVersion
      BY <1>1 DEF DomainRow
    <2>3. domain.version + 1 \in 1 .. MaxVersion
      BY <2>1, <2>2, VersionBound
    <2>4. RowIs(domain', domain.routing, domain.category, "pending", domain.version + 1, domain.proof)
      BY <1>1, <2>1, <2>3 DEF DomainRow, RowIs
    <2> QED BY <1>1, <2>1, <2>4 DEF RowStep, RowIsSafe, Exists, RowIs
  <1>5. ASSUME NEW a \in Axis, FinishVerify(a), ~UNCHANGED domain PROVE RowStep
    <2>1. Unlocked /\ checks[a] \in Observation
      BY <1>1, <1>5 DEF FinishVerify, Checks
    <2>2. CASE a = "ownership"
      <3>1. WriteOwnership(checks[a].txt) /\ checks[a].txt \in 0 .. MaxVersion
        BY <1>5, <2>1, <2>2 DEF FinishVerify, Observation
      <3>2. PICK o \in {"pending", "verified"}, p \in 0 .. MaxVersion :
              domain' = [domain EXCEPT !.ownership = o, !.proof = p] /\ (o = "verified" => p = domain.version)
        <4>1. domain.proof \in 0 .. MaxVersion
          BY <1>1 DEF DomainRow
        <4> QED BY <3>1, <4>1 DEF WriteOwnership, Proves
      <3>3. RowIs(domain', domain.routing, domain.category, o, domain.version, p)
        BY <1>1, <3>2 DEF DomainRow, RowIs
      <3> QED BY <1>1, <2>1, <3>2, <3>3 DEF RowStep, RowIsSafe, Exists, RowIs
    <2>3. CASE a # "ownership"
      <3>1. domain' = [domain EXCEPT !.good[a] = checks[a].good[a]] /\ a \in Observed
        BY <1>5, <2>3 DEF FinishVerify, Axis, WriteObserved
      <3>2. checks[a].good[a] \in BOOLEAN
        BY <2>1, <3>1 DEF Observation
      <3> QED BY <1>1, <2>1, <3>1, <3>2, ObservedStep
    <2> QED BY <2>2, <2>3
  <1>6. CASE FinishPeriodic
    <2> DEFINE seen == checks["periodic"]
    <2>1. Unlocked /\ seen \in Observation
      BY <1>1, <1>6 DEF FinishPeriodic, Checks
    <2>2. seen.good \in [Observed -> BOOLEAN] /\ seen.txt \in 0 .. MaxVersion
      BY <2>1 DEF Observation
    <2> HIDE DEF seen
    <2>3. PICK o \in {"pending", "verified", "lost"}, p \in 0 .. MaxVersion :
            /\ domain' = [domain EXCEPT !.ownership = o, !.proof = p, !.good = seen.good]
            /\ o = "verified" => p = domain.version
      <3>1. domain.proof \in 0 .. MaxVersion
        BY <1>1 DEF DomainRow
      <3> QED BY <1>6, <2>2, <3>1 DEF FinishPeriodic, Proves, seen
    <2>4. RowIs(domain', domain.routing, domain.category, o, domain.version, p)
      BY <1>1, <2>2, <2>3 DEF DomainRow, RowIs
    <2> QED BY <1>1, <2>1, <2>3, <2>4 DEF RowStep, RowIsSafe, Exists, RowIs
  <1>7. ASSUME NEW released \in BOOLEAN, EnableRouting(released) PROVE RowStep
    <2>1. domain' = [domain EXCEPT !.routing = "enabled", !.category = ""]
          /\ ~Unlocked /\ holder' = "nobody"
      BY <1>7 DEF EnableRouting
    <2>2. domain.category = "" \/ holder = "abuse_restore"
      BY <2>1 DEF DomainInv, DomainTypeOK, LockedRowIsKept, Unlocked
    <2>3. "" \in Category
      BY DEF Category
    <2>4. RowIs(domain', "enabled", "", domain.ownership, domain.version, domain.proof)
      BY <1>1, <2>1, <2>3 DEF DomainRow, RowIs
    <2> QED BY <1>1, <2>1, <2>2, <2>4 DEF RowStep, RowIsSafe, Exists, RowIs
  <1>8. ASSUME NEW c \in Category, NEW o \in {"pending", "verified", "lost"}, Unlocked,
               domain' = [domain EXCEPT !.ownership = o, !.routing = "suspended", !.category = c],
               domain.category \in {"", c}, o \in {domain.ownership, "lost"}
        PROVE  RowStep
    <2>1. RowIs(domain', "suspended", c, o, domain.version, domain.proof)
      BY <1>1, <1>8 DEF DomainRow, RowIs
    <2> QED BY <1>1, <1>8, <2>1 DEF RowStep, RowIsSafe, Exists, RowIs
  <1>9. ASSUME NEW c \in External, Suspend(c) PROVE RowStep
    <2>1. domain' = [domain EXCEPT !.routing = "suspended", !.category = c]
          /\ domain.category \in {"", c} /\ Unlocked
      BY <1>9 DEF Suspend, ApplyDomainSecuritySuspension
    <2>2. c \in Category /\ domain.ownership \in {"pending", "verified", "lost"}
      BY <1>1 DEF Category, DomainRow
    <2>3. domain' = [domain EXCEPT !.ownership = domain.ownership, !.routing = "suspended", !.category = c]
      BY <1>1, <2>1 DEF DomainRow
    <2> QED BY <1>8, <2>1, <2>2, <2>3
  <1>10. CASE ApplyOwnershipLoss
    <2> DEFINE c == IF domain.category = "" THEN "ownership_loss" ELSE domain.category
    <2>1. Unlocked /\ domain' = [domain EXCEPT !.ownership = "lost", !.routing = "suspended", !.category = c]
      BY <1>10 DEF ApplyOwnershipLoss
    <2>2. c \in Category /\ domain.category \in {"", c}
      BY <1>1 DEF Category, DomainRow
    <2> HIDE DEF c
    <2> QED BY <1>8, <2>1, <2>2
  <1>11. CASE SetDomainEntitlementControl /\ ~UNCHANGED domain
    <2>1. domain' = [domain EXCEPT !.routing =
             IF domain.routing \in {"pending", "enabled"} THEN "suspended" ELSE domain.routing]
      BY <1>11 DEF SetDomainEntitlementControl
    <2>2. domain.routing \in {"pending", "enabled"}
      BY <1>1, <1>11, <2>1 DEF DomainRow
    <2>3. Unlocked
      BY <1>11, <2>2 DEF SetDomainEntitlementControl
    <2>4. RowIs(domain', "suspended", domain.category, domain.ownership, domain.version, domain.proof)
      BY <1>1, <2>1, <2>2 DEF DomainRow, RowIs
    <2> QED BY <1>1, <2>3, <2>4 DEF RowStep, RowIsSafe, Exists, RowIs
  <1>12. ASSUME NEW e \in Evaluation,
                BeginDomainRiskEvaluation(e) \/ FinishDomainRiskEvaluation(e) \/ ExpireDomainRiskAllow(e)
         PROVE  RowStep
    <2>1. \E b \in BOOLEAN : domain' = [domain EXCEPT !.good["risk"] = b]
      BY <1>12 DEF BeginDomainRiskEvaluation, FinishDomainRiskEvaluation, ExpireDomainRiskAllow
    <2>2. Unlocked /\ "risk" \in Observed
      BY <1>12 DEF BeginDomainRiskEvaluation, FinishDomainRiskEvaluation, ExpireDomainRiskAllow, Observed
    <2> QED BY <1>1, <2>1, <2>2, ObservedStep
  <1>13. \/ UNCHANGED domain
         \/ CreateDomain \/ RotateOwnershipSecret
         \/ \E a \in Axis : FinishVerify(a)
         \/ FinishPeriodic
         \/ \E released \in BOOLEAN : EnableRouting(released)
         \/ \E c \in External : Suspend(c)
         \/ ApplyOwnershipLoss \/ SetDomainEntitlementControl
         \/ \E e \in Evaluation :
              \/ BeginDomainRiskEvaluation(e) \/ FinishDomainRiskEvaluation(e) \/ ExpireDomainRiskAllow(e)
    BY DEF DomainNext, domainVars, EntitlementChanges, WorldChanges, BeginVerify, VerifyFails,
           BeginPeriodic, LockForRouting, RestoreDomainEntitlementControl, ObserveDomainRisk
  <1> QED BY <1>2, <1>3, <1>4, <1>5, <1>6, <1>7, <1>9, <1>10, <1>11, <1>12, <1>13

(* The other variables. *)
LEMMA DomainTypeStep ==
    ASSUME DomainInv, [DomainNext]_domainVars
    PROVE  DomainTypeOK'
  <1>1. DomainTypeOK /\ RowStep
    BY DomainRowStep DEF DomainInv
  <1>2. domain' \in DomainRow
    BY <1>1 DEF RowStep, DomainTypeOK
  <1>3. world' \in Observation /\ plan' \in {"full", "grace", "none"} /\ control' \in BOOLEAN
    BY <1>1 DEF DomainTypeOK, DomainNext, domainVars, EntitlementChanges, WorldChanges, CreateDomain,
         RotateOwnershipSecret, BeginVerify, FinishVerify, VerifyFails, BeginPeriodic, FinishPeriodic,
         LockForRouting, EnableRouting, Suspend, ApplyOwnershipLoss, SetDomainEntitlementControl,
         RestoreDomainEntitlementControl, BeginDomainRiskEvaluation, ObserveDomainRisk,
         FinishDomainRiskEvaluation, ExpireDomainRiskAllow
  <1>4. abuseHold' \in BOOLEAN /\ holder' \in {"nobody", "activate", "restore", "abuse_restore"}
    BY <1>1 DEF DomainTypeOK, DomainNext, domainVars, EntitlementChanges, WorldChanges, CreateDomain,
         RotateOwnershipSecret, BeginVerify, FinishVerify, VerifyFails, BeginPeriodic, FinishPeriodic,
         LockForRouting, EnableRouting, Suspend, ApplyOwnershipLoss, SetDomainEntitlementControl,
         RestoreDomainEntitlementControl, BeginDomainRiskEvaluation, ObserveDomainRisk,
         FinishDomainRiskEvaluation, ExpireDomainRiskAllow
  <1>5. evals' \in [Evaluation -> EvaluationState]
    <2>1. \/ UNCHANGED evals
          \/ \E e \in Evaluation, s \in EvaluationState : evals' = [evals EXCEPT ![e] = s]
      BY DEF DomainNext, domainVars, EntitlementChanges, WorldChanges, CreateDomain,
         RotateOwnershipSecret, BeginVerify, FinishVerify, VerifyFails, BeginPeriodic, FinishPeriodic,
         LockForRouting, EnableRouting, Suspend, ApplyOwnershipLoss, SetDomainEntitlementControl,
         RestoreDomainEntitlementControl, BeginDomainRiskEvaluation, ObserveDomainRisk,
         FinishDomainRiskEvaluation, ExpireDomainRiskAllow, EvaluationState
    <2> QED BY <1>1, <2>1 DEF DomainTypeOK
  <1>6. checks' \in [Checks -> Observation] /\ inFlight' \subseteq Checks
    <2>1. checks \in [Checks -> Observation] /\ inFlight \subseteq Checks /\ world \in Observation
      BY <1>1 DEF DomainTypeOK
    <2>2. NoCheck \in Observation
      BY VersionBound DEF NoCheck, Observation
    <2>3. ASSUME NEW k \in Checks, NEW o \in Observation, checks' = [checks EXCEPT ![k] = o],
                 inFlight' \subseteq inFlight \cup {k}
          PROVE  checks' \in [Checks -> Observation] /\ inFlight' \subseteq Checks
      BY <2>1, <2>3
    <2>4. ASSUME NEW a \in Axis, BeginVerify(a) PROVE checks' \in [Checks -> Observation] /\ inFlight' \subseteq Checks
      <3> DEFINE o == IF a = "ownership" THEN [NoCheck EXCEPT !.txt = world.txt]
                      ELSE [NoCheck EXCEPT !.good[a] = world.good[a]]
      <3>1. o \in Observation
        BY <2>1, <2>2 DEF Observation, Axis
      <3>2. checks' = [checks EXCEPT ![a] = o] /\ inFlight' = inFlight \cup {a} /\ a \in Checks
        BY <2>4 DEF BeginVerify, Checks
      <3> HIDE DEF o
      <3> QED BY <2>3, <3>1, <3>2
    <2>5. ASSUME NEW a \in Axis, FinishVerify(a) \/ VerifyFails(a)
          PROVE  checks' \in [Checks -> Observation] /\ inFlight' \subseteq Checks
      BY <2>2, <2>3, <2>5 DEF FinishVerify, VerifyFails, Checks
    <2>6. CASE BeginPeriodic \/ FinishPeriodic
      BY <2>1, <2>2, <2>3, <2>6 DEF BeginPeriodic, FinishPeriodic, Checks
    <2>7. CASE UNCHANGED <<checks, inFlight>>
      BY <2>1, <2>7
    <2>8. \/ UNCHANGED <<checks, inFlight>>
          \/ \E a \in Axis : BeginVerify(a) \/ FinishVerify(a) \/ VerifyFails(a)
          \/ BeginPeriodic \/ FinishPeriodic
      BY DEF DomainNext, domainVars, EntitlementChanges, WorldChanges, CreateDomain,
         RotateOwnershipSecret, LockForRouting, EnableRouting, Suspend, ApplyOwnershipLoss,
         SetDomainEntitlementControl, RestoreDomainEntitlementControl, BeginDomainRiskEvaluation,
         ObserveDomainRisk, FinishDomainRiskEvaluation, ExpireDomainRiskAllow
    <2> QED BY <2>4, <2>5, <2>6, <2>7, <2>8
  <1> QED BY <1>2, <1>3, <1>4, <1>5, <1>6 DEF DomainTypeOK

(* Nobody changes the row, or withdraws the hold, under the transaction that holds it. *)
LEMMA LockedRowStep ==
    ASSUME DomainInv, [DomainNext]_domainVars
    PROVE  LockedRowIsKept'
  <1>1. DomainTypeOK /\ LockedRowIsKept /\ RowStep
    BY DomainRowStep DEF DomainInv
  <1>2. CASE holder' = "nobody"
    BY <1>2 DEF LockedRowIsKept, Unlocked
  <1>3. CASE UNCHANGED holder /\ holder # "nobody"
    <2>1. UNCHANGED domain
      BY <1>1, <1>3 DEF RowStep, LockedRowIsKept, Unlocked
    <2>2. abuseHold' = abuseHold
      BY <1>3 DEF DomainNext, domainVars, EntitlementChanges, WorldChanges, CreateDomain,
         RotateOwnershipSecret, BeginVerify, FinishVerify, VerifyFails, BeginPeriodic, FinishPeriodic,
         LockForRouting, EnableRouting, Suspend, ApplyOwnershipLoss, SetDomainEntitlementControl,
         RestoreDomainEntitlementControl, BeginDomainRiskEvaluation, ObserveDomainRisk,
         FinishDomainRiskEvaluation, ExpireDomainRiskAllow, Unlocked
    <2> QED BY <1>1, <1>3, <2>1, <2>2 DEF LockedRowIsKept, Unlocked, Exists, AllReady, Ready
  <1>4. ASSUME NEW op \in {"activate", "restore", "abuse_restore"}, LockForRouting(op)
        PROVE  LockedRowIsKept'
    <2>1. Exists /\ AllReady /\ UNCHANGED <<domain, abuseHold>> /\ holder' = op
      BY <1>4 DEF LockForRouting
    <2>2. op \in {"activate", "restore"} => domain.category = ""
      BY <1>4 DEF LockForRouting, Unsafe
    <2>3. op = "abuse_restore" => domain.category = "abuse" /\ abuseHold
      BY <1>4 DEF LockForRouting
    <2> QED BY <2>1, <2>2, <2>3 DEF LockedRowIsKept, Unlocked, Exists, AllReady, Ready
  <1>5. \/ holder' = "nobody" \/ UNCHANGED holder
        \/ \E op \in {"activate", "restore", "abuse_restore"} : LockForRouting(op)
    BY DEF DomainNext, domainVars, EntitlementChanges, WorldChanges, CreateDomain,
         RotateOwnershipSecret, BeginVerify, FinishVerify, VerifyFails, BeginPeriodic, FinishPeriodic,
         EnableRouting, Suspend, ApplyOwnershipLoss, SetDomainEntitlementControl,
         RestoreDomainEntitlementControl, BeginDomainRiskEvaluation, ObserveDomainRisk,
         FinishDomainRiskEvaluation, ExpireDomainRiskAllow
  <1> QED BY <1>2, <1>3, <1>4, <1>5

LEMMA DomainInvStep ==
    ASSUME DomainInv, [DomainNext]_domainVars
    PROVE  DomainInv'
  <1>1. RowStep /\ SecuritySuspensionHolds /\ OwnershipIsCurrent
    BY DomainRowStep DEF DomainInv
  <1>2. SecuritySuspensionHolds' /\ OwnershipIsCurrent'
    BY <1>1 DEF RowStep, RowIsSafe, SecuritySuspensionHolds, OwnershipIsCurrent
  <1> QED BY <1>2, DomainTypeStep, LockedRowStep DEF DomainInv

LEMMA DomainInvInit == DomainInit => DomainInv
  <1> SUFFICES ASSUME DomainInit PROVE DomainInv
    OBVIOUS
  <1>0. 0 \in 0 .. MaxVersion /\ 1 \in 1 .. MaxVersion /\ "" \in Category
    BY VersionBound DEF Category
  <1>1. domain \in DomainRow /\ world \in Observation /\ NoCheck \in Observation
    <2>1. domain \in DomainRow
      BY <1>0 DEF DomainInit, DomainRow
    <2>2. world \in Observation /\ NoCheck \in Observation
      BY <1>0 DEF DomainInit, Observation, NoCheck
    <2> QED BY <2>1, <2>2
  <1>2. DomainTypeOK
    BY <1>1 DEF DomainInit, DomainTypeOK, EvaluationState
  <1>3. SecuritySuspensionHolds /\ OwnershipIsCurrent /\ LockedRowIsKept
    BY DEF DomainInit, SecuritySuspensionHolds, OwnershipIsCurrent, LockedRowIsKept, Unlocked
  <1> QED BY <1>2, <1>3 DEF DomainInv

(* Only a restore that holds the row lifts a category, and a verdict only expires. *)
LEMMA DomainActionStep ==
    ASSUME DomainInv, [DomainNext]_domainVars
    PROVE  /\ domain.category # "" /\ domain'.category # domain.category
                => domain.category = "abuse" /\ domain'.category = "" /\ AllReady /\ abuseHold
           /\ \A e \in Evaluation :
                evals[e] \in {"allow", "refused", "stale"} /\ evals'[e] # evals[e]
                  => evals[e] = "allow" /\ evals'[e] = "stale"
  <1>1. DomainTypeOK /\ LockedRowIsKept /\ RowStep
    BY DomainRowStep DEF DomainInv
  <1>2. domain.category # "" /\ domain'.category # domain.category
          => domain.category = "abuse" /\ domain'.category = "" /\ AllReady /\ abuseHold
    BY <1>1 DEF RowStep, LockedRowIsKept, Unlocked
  <1>3. ASSUME NEW e \in Evaluation, evals[e] \in {"allow", "refused", "stale"}, evals'[e] # evals[e]
        PROVE  evals[e] = "allow" /\ evals'[e] = "stale"
    <2>1. \E f \in Evaluation :
            \/ BeginDomainRiskEvaluation(f) \/ ObserveDomainRisk(f)
            \/ FinishDomainRiskEvaluation(f) \/ ExpireDomainRiskAllow(f)
      BY <1>3 DEF DomainNext, domainVars, EntitlementChanges, WorldChanges, CreateDomain,
         RotateOwnershipSecret, BeginVerify, FinishVerify, VerifyFails, BeginPeriodic, FinishPeriodic,
         LockForRouting, EnableRouting, Suspend, ApplyOwnershipLoss, SetDomainEntitlementControl,
         RestoreDomainEntitlementControl
    <2>2. evals \in [Evaluation -> EvaluationState]
      BY <1>1 DEF DomainTypeOK
    <2> QED BY <1>3, <2>1, <2>2 DEF BeginDomainRiskEvaluation, ObserveDomainRisk,
              FinishDomainRiskEvaluation, ExpireDomainRiskAllow
  <1> QED BY <1>2, <1>3

(* No verification, rotation, periodic run, control or evaluation routes a domain with a *)
(* security category, lifts one, or lets an old record prove a new secret.               *)
THEOREM DomainIsSafe == DomainSpec => DomainSafety
  <1>1. DomainInv /\ [DomainNext]_domainVars
          => [domain.category # "" /\ domain'.category # domain.category
                => domain.category = "abuse" /\ domain'.category = "" /\ AllReady /\ abuseHold]_domainVars
    BY DomainActionStep
  <1>2. DomainInv /\ [DomainNext]_domainVars
          => [\A e \in Evaluation :
                evals[e] \in {"allow", "refused", "stale"} /\ evals'[e] # evals[e]
                  => evals[e] = "allow" /\ evals'[e] = "stale"]_domainVars
    BY DomainActionStep
  <1>3. DomainInv => DomainTypeOK /\ SecuritySuspensionHolds /\ OwnershipIsCurrent
    BY DEF DomainInv
  <1> QED BY <1>1, <1>2, <1>3, DomainInvInit, DomainInvStep, PTL
          DEF DomainSpec, DomainSafety, SuspensionEndsByRestore, VerdictsOnlyExpire
==============================================================================
