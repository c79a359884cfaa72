------------------------- MODULE RedirectEngineProofs -------------------------
(* Safety of RedirectEngine, proved for every number of requests, links,       *)
(* editors, versions and clicks, over the invariants of the store it runs on;  *)
(* and of GuardedRedirect, the engine with the authority that decides for it.  *)
EXTENDS GuardedRedirect, LinkStoreProofs

-----------------------------------------------------------------------------
(* The inductive invariant.  A request under way stands on the version of its  *)
(* link that it looked up, which no edit takes out of the history, and past    *)
(* the risk check on an allow of that version's targets that was in force at   *)
(* the check; one that is to send has the event of its click.                  *)

Grounded(q, past) ==
    /\ q.version \in 1 .. Len(past[q.link])
    /\ past[q.link][q.version].cfg = q.cfg
    /\ q.dest \in q.cfg.targets
    /\ q.pc # "risk" => q.cfg.targets \in q.granted

SentGrounded(s, past) ==
    /\ s.version \in 1 .. Len(past[s.link])
    /\ s.dest \in past[s.link][s.version].cfg.targets
    /\ past[s.link][s.version].cfg.targets \in s.granted

\* The click of a redirect is no earlier than its check.
HasClick(q, events) ==
    \E x \in events :
        x.link = q.link /\ x.seq = q.seq /\ x.version = q.version /\ q.checked <= x.at

\* The check is past, and so is the time the request will claim at.
InTime(q, t) ==
    /\ q.pc \in {"access", "verify"} => q.checked <= t
    /\ q.pc = "claim" => q.checked <= q.at

SentApart == \A s, z \in sent : s.link = z.link /\ s.seq = z.seq => s = z

StoreInv == IInv /\ AddressUnique /\ EventsAreClicks /\ ClicksWithinLimits

EngineInv ==
    /\ StoreInv
    /\ EngineTypeOK
    /\ \A r \in Request : req[r] # Idle => Grounded(req[r], history)
    /\ \A s \in sent : SentGrounded(s, history)
    /\ \A r \in Request : InTime(req[r], now)
    /\ \A r \in Request : req[r].pc = "send" => HasClick(req[r], outbox)
    /\ \A s \in sent : HasClick(s, outbox)
    /\ RedirectHasItsClick /\ SentApart

-----------------------------------------------------------------------------
(* The store.                                                                  *)

(* The store steps as it does alone: a claim is made by a request. *)
LEMMA EngineStoreStep ==
    ASSUME EngineInv, [EngineNext]_allVars
    PROVE  StoreInv' /\ StoreStep
  <1>0. IInv /\ AddressUnique /\ EventsAreClicks /\ ClicksWithinLimits
    BY DEF EngineInv, StoreInv
  <1>1. CASE [Next]_vars
    BY <1>0, <1>1, StepInv, StepKinds, AddressStep, ClicksStep, LimitsStep DEF StoreInv
  <1>2. ASSUME NEW r \in Request, ClaimAccess(r) PROVE StoreInv' /\ StoreStep
    <2>1. req[r] \in Active
      BY <1>2 DEF EngineInv, EngineTypeOK, ClaimAccess, Idle
    <2>2. /\ req[r].link \in Link /\ req[r].version \in Nat \ {0}
          /\ req[r].cfg.targets \in Fingerprint /\ req[r].at \in Nat
      BY <2>1 DEF Active, ConfigRecord
    <2>3. Claim(req[r].link, req[r].version, req[r].cfg.targets, req[r].at)
      BY <1>2 DEF ClaimAccess
    <2>4. IInv' /\ StoreStep
      BY <1>0, <2>2, <2>3, ClaimInv DEF StoreStep, AnyClaim
    <2> QED BY <1>0, <2>4, AddressStep, ClicksStep, LimitsStep DEF StoreInv
  <1>3. [Next]_vars \/ \E r \in Request : ClaimAccess(r)
    <2>1. CASE \E r \in Request : Handler(r)
      <3>1. PICK r \in Request : Handler(r)
        BY <2>1
      <3>2. ClaimAccess(r) \/ UNCHANGED vars
        BY <3>1 DEF Handler, vars, Lookup, ResolveRisk, CountAttempt, AcceptPassword, SendLocation, Drop
      <3> QED BY <3>2
    <2>2. CASE Edit \/ Environment
      BY <2>2 DEF Next
    <2>3. CASE Trust \/ Tick \/ UNCHANGED allVars
      BY <2>3 DEF Trust, Tick, allVars, vars, EndAttemptWindow, LoseDecision, PutDecision
    <2> QED BY <2>1, <2>2, <2>3 DEF EngineNext
  <1> QED BY <1>1, <1>2, <1>3

(* What is written of the past stays: versions and clicks. *)
LEMMA PastStays ==
    ASSUME EngineInv, [EngineNext]_allVars
    PROVE  /\ \A l \in Link : /\ Len(history[l]) \in Nat /\ Len(history'[l]) \in Nat
                              /\ Len(history[l]) <= Len(history'[l])
                              /\ \A n \in 1 .. Len(history[l]) : history'[l][n] = history[l][n]
           /\ outbox \subseteq outbox'
  <1>1. StoreStep /\ TypeOK /\ IInv /\ TypeOK'
    BY EngineStoreStep DEF EngineInv, StoreInv, IInv
  <1>2. \A l \in Link : history[l] \in Seq(Snapshot) /\ history'[l] \in Seq(Snapshot)
    BY <1>1 DEF TypeOK
  <1>3. CASE VersionWrite
    <2>1. PICK l \in Link, r \in Row, b \in Nat : Write(l, r, b)
      BY <1>3 DEF VersionWrite
    <2> DEFINE s == [cfg |-> r.cfg, status |-> r.status, clicks |-> r.clicks, base |-> b]
    <2>2. s \in Snapshot
      BY DEF Row, Snapshot
    <2>3. history'[l] = Append(history[l], s) /\ \A m \in Link : m # l => history'[m] = history[m]
      BY <1>1, <2>1 DEF TypeOK, Write
    <2> HIDE DEF s
    <2>4. /\ Len(history'[l]) = Len(history[l]) + 1
          /\ \A n \in 1 .. Len(history[l]) : history'[l][n] = history[l][n]
      BY <1>2, <2>2, <2>3, AppendSnapshot
    <2>5. ASSUME NEW m \in Link PROVE Len(history[m]) \in Nat /\ Len(history'[m]) \in Nat
      BY <1>2
    <2>6. outbox' = outbox
      BY <1>3 DEF VersionWrite
    <2> QED BY <2>3, <2>4, <2>5, <2>6
  <1>4. CASE AnyClaim
    BY <1>2, <1>4 DEF AnyClaim, Claim
  <1>5. CASE UNCHANGED <<row, history, outbox>>
    BY <1>2, <1>5
  <1> QED BY <1>1, <1>3, <1>4, <1>5 DEF StoreStep

-----------------------------------------------------------------------------
(* The clock and the decisions.                                                *)

DecisionsTypeOK ==
    /\ now \in 0 .. MaxNow
    /\ risk \in [Link -> [Fingerprint -> Decision \cup {NoDecision}]]

LEMMA DecisionsStep ==
    ASSUME EngineInv, [EngineNext]_allVars
    PROVE  DecisionsTypeOK'
  <1>1. DecisionsTypeOK
    BY DEF EngineInv, EngineTypeOK, DecisionsTypeOK
  <1>2. MaxNow \in Nat /\ now \in Nat /\ TTL \in Nat
    BY <1>1, BoundAssumption, EngineAssumption DEF DecisionsTypeOK
  <1>3. CASE Tick
    BY <1>1, <1>2, <1>3 DEF Tick, DecisionsTypeOK
  <1>4. CASE UNCHANGED <<now, risk>>
    BY <1>1, <1>4 DEF DecisionsTypeOK
  <1>5. ASSUME NEW l \in Link, NEW t \in Fingerprint, NEW s \in Verdict, PutDecision(l, t, s)
        PROVE  DecisionsTypeOK'
    <2>1. [state |-> s, until |-> now + TTL] \in Decision
      BY <1>2 DEF Decision
    <2> QED BY <1>1, <1>5, <2>1 DEF PutDecision, DecisionsTypeOK
  <1>6. ASSUME NEW l \in Link, NEW t \in Fingerprint, LoseDecision(l, t)
        PROVE  DecisionsTypeOK'
    BY <1>1, <1>6 DEF LoseDecision, DecisionsTypeOK
  <1>7. \/ UNCHANGED <<now, risk>> \/ Tick
        \/ \E l \in Link, t \in Fingerprint : LoseDecision(l, t) \/ \E s \in Verdict : PutDecision(l, t, s)
    BY DEF EngineNext, Handler, Trust, allVars, engineVars, Lookup, ResolveRisk, CountAttempt,
           AcceptPassword, ClaimAccess, SendLocation, Drop, EndAttemptWindow
  <1> QED BY <1>3, <1>4, <1>5, <1>6, <1>7

-----------------------------------------------------------------------------
(* The requests.                                                               *)

(* What a request stands on stays where it is. *)
LEMMA GroundStays ==
    ASSUME EngineInv, [EngineNext]_allVars
    PROVE  /\ \A q \in Active : Grounded(q, history) => Grounded(q, history')
           /\ \A s \in sent : SentGrounded(s, history')
  <1>1. ASSUME NEW q \in Active, Grounded(q, history) PROVE Grounded(q, history')
    <2>1. q.link \in Link /\ q.version \in 1 .. Len(history[q.link])
      BY <1>1 DEF Active, Grounded
    <2>2. q.version \in 1 .. Len(history'[q.link]) /\ history'[q.link][q.version] = history[q.link][q.version]
      BY <2>1, PastStays
    <2> QED BY <1>1, <2>2 DEF Grounded
  <1>2. ASSUME NEW s \in sent PROVE SentGrounded(s, history')
    <2>1. SentGrounded(s, history) /\ s \in Redirected
      BY DEF EngineInv, EngineTypeOK
    <2>2. s.link \in Link /\ s.version \in 1 .. Len(history[s.link])
      BY <2>1 DEF Redirected, SentGrounded
    <2>3. s.version \in 1 .. Len(history'[s.link]) /\ history'[s.link][s.version] = history[s.link][s.version]
      BY <2>2, PastStays
    <2> QED BY <2>1, <2>3 DEF SentGrounded
  <1> QED BY <1>1, <1>2

\* The request q after a step that leaves what it is about.
SameRequest(q, p) ==
    /\ p.link = q.link /\ p.version = q.version /\ p.cfg = q.cfg /\ p.dest = q.dest

\* A request after a step of its own: over, or well typed and well grounded.
Sound(p, past) ==
    p = Idle \/ (p \in Active /\ Grounded(p, past))

LEMMA RequestIs ==
    ASSUME EngineInv, NEW r \in Request, req[r] # Idle
    PROVE  /\ req[r] \in Active /\ Grounded(req[r], history)
           /\ req[r].link \in Link /\ req[r].cfg \in ConfigRecord
           /\ req[r].cfg.targets \in Fingerprint /\ req[r].pc \in PC
           /\ req[r].version \in Nat \ {0} /\ req[r].at \in Nat /\ req[r].seq \in Nat
           /\ req[r].checked \in Nat /\ req[r].granted \subseteq Fingerprint
  <1>1. req[r] \in Active /\ Grounded(req[r], history)
    BY DEF EngineInv, EngineTypeOK
  <1> QED BY <1>1 DEF Active, ConfigRecord

(* A lookup grounds the request on the current version. *)
LEMMA LookupStep ==
    ASSUME EngineInv, NEW r \in Request, NEW l \in Link, NEW m \in Method, NEW d \in Target,
           Lookup(r, l, m, d)
    PROVE  /\ Sound(req'[r], history) /\ req' = [req EXCEPT ![r] = req'[r]]
           /\ req'[r].pc = "risk" /\ req'[r].granted = {}
  <1> DEFINE q == [pc |-> "risk", link |-> l, version |-> row[l].version,
                   cfg |-> row[l].cfg, method |-> m, dest |-> d,
                   at |-> 0, seq |-> 0, checked |-> 0, granted |-> {}]
  <1>1. row[l] \in Row /\ d \in row[l].cfg.targets
    BY DEF Lookup, EngineInv, StoreInv, IInv, TypeOK
  <1>2. row[l].version \in Nat \ {0} /\ row[l].cfg \in ConfigRecord
    BY <1>1 DEF Row
  <1>3. Len(history[l]) = row[l].version /\ history[l][row[l].version].cfg = row[l].cfg
    BY DEF Lookup, EngineInv, StoreInv, IInv, HistoryIsComplete
  <1>4. q \in Active
    BY <1>2 DEF Active, PC
  <1>5. /\ q.pc = "risk" /\ q.link = l /\ q.version = row[l].version /\ q.cfg = row[l].cfg /\ q.dest = d
        /\ q.granted = {}
    OBVIOUS
  <1>6. req' = [req EXCEPT ![r] = q] /\ req \in [Request -> Active \cup {Idle}]
    BY DEF Lookup, EngineInv, EngineTypeOK
  <1> HIDE DEF q
  <1>7. row[l].version \in 1 .. Len(history[l])
    BY <1>2, <1>3
  <1>8. Grounded(q, history)
    BY <1>1, <1>3, <1>5, <1>7 DEF Grounded
  <1>9. req'[r] = q
    BY <1>6
  <1> QED BY <1>4, <1>5, <1>6, <1>8, <1>9 DEF Sound

(* The risk check grounds it on an allow: what the handler takes for one is in force. *)
LEMMA ResolveRiskStep ==
    ASSUME EngineInv, NEW r \in Request, ResolveRisk(r)
    PROVE  /\ Sound(req'[r], history) /\ req' = [req EXCEPT ![r] = req'[r]]
           /\ req[r] # Idle /\ req'[r].link = req[r].link
           /\ req'[r].granted = AllowsInForce(req[r].link)
           /\ req'[r].pc \in {"access", "claim"} /\ req'[r].checked = now
           /\ req'[r].pc = "claim" => req'[r].at = now
  <1> DEFINE q == req[r]  t == q.cfg.targets  g == AllowsInForce(q.link)
  <1>1. q.pc = "risk" /\ q # Idle /\ req \in [Request -> Active \cup {Idle}]
    BY DEF ResolveRisk, Idle, EngineInv, EngineTypeOK
  <1>2. q \in Active /\ Grounded(q, history) /\ q.link \in Link /\ t \in Fingerprint
    BY <1>1, RequestIs
  <1>3. now \in Nat /\ risk[q.link][t] \in Decision \cup {NoDecision}
    BY <1>2, BoundAssumption DEF EngineInv, EngineTypeOK
  <1>4. t \in g
    <2>1. CurrentVerdict(q.link, t) = "allow"
      BY DEF ResolveRisk
    <2>2. risk[q.link][t] # NoDecision
      BY <2>1 DEF CurrentVerdict
    <2>3. risk[q.link][t].until \in Nat
      BY <1>3, <2>2 DEF Decision
    <2>4. risk[q.link][t].state = "allow" /\ now < risk[q.link][t].until
      BY <1>3, <2>1, <2>2, <2>3 DEF CurrentVerdict
    <2> QED BY <1>2, <2>2, <2>4 DEF AllowsInForce
  <1>5. g \subseteq Fingerprint
    BY DEF AllowsInForce
  <1> HIDE DEF g
  <1>6. PICK p : /\ \/ p = [q EXCEPT !.pc = "access", !.at = 0, !.checked = now, !.granted = g]
                    \/ p = [q EXCEPT !.pc = "claim", !.at = now, !.checked = now, !.granted = g]
                 /\ req' = [req EXCEPT ![r] = p]
    BY <1>1 DEF ResolveRisk, Checked, g
  <1> HIDE DEF q, t
  <1>7. /\ p \in Active /\ SameRequest(q, p) /\ p.pc \in {"access", "claim"} /\ p.checked = now
        /\ p.granted = g /\ (p.pc = "claim" => p.at = now)
    <2>1. p.granted = g
      BY <1>2, <1>6 DEF Active
    <2>2. p \in Active /\ p.pc \in {"access", "claim"} /\ p.checked = now
      <3>1. g \in SUBSET Fingerprint /\ 0 \in Nat /\ {"access", "claim"} \subseteq PC
        BY <1>5 DEF PC
      <3>2. CASE p = [q EXCEPT !.pc = "access", !.at = 0, !.checked = now, !.granted = g]
        BY <1>2, <1>3, <3>1, <3>2 DEF Active
      <3>3. CASE p = [q EXCEPT !.pc = "claim", !.at = now, !.checked = now, !.granted = g]
        BY <1>2, <1>3, <3>1, <3>3 DEF Active
      <3> QED BY <1>6, <3>2, <3>3
    <2>3. SameRequest(q, p) /\ (p.pc = "claim" => p.at = now)
      BY <1>2, <1>6 DEF Active, SameRequest
    <2> QED BY <2>1, <2>2, <2>3
  <1>8. Grounded(p, history)
    BY <1>2, <1>4, <1>7 DEF Grounded, SameRequest, t
  <1>9. req'[r] = p
    BY <1>1, <1>6
  <1> QED BY <1>1, <1>6, <1>7, <1>8, <1>9 DEF Sound, SameRequest, g, q

\* A request knows of no allows, of those of its check, or checks this moment.
GrantedNow(r) ==
    \/ req'[r] = Idle \/ req'[r].granted = {}
    \/ /\ req[r] # Idle /\ req'[r].link = req[r].link
       /\ req'[r].granted \in {req[r].granted, AllowsInForce(req[r].link)}

(* A step past the check keeps the ground. *)
LEMMA LaterStep ==
    ASSUME EngineInv, NEW r \in Request, req[r] # Idle, req[r].pc # "risk",
           NEW p \in Active, SameRequest(req[r], p), p.granted = req[r].granted, p.pc # "risk",
           req' = [req EXCEPT ![r] = p]
    PROVE  /\ Sound(req'[r], history) /\ GrantedNow(r)
           /\ req'[r] = p /\ req' = [req EXCEPT ![r] = req'[r]]
  <1>1. Grounded(req[r], history) /\ req \in [Request -> Active \cup {Idle}]
    BY RequestIs DEF EngineInv, EngineTypeOK
  <1>2. Grounded(p, history)
    BY <1>1 DEF Grounded, SameRequest
  <1>3. req'[r] = p
    BY <1>1
  <1> QED BY <1>2, <1>3 DEF Sound, SameRequest, GrantedNow

(* One step of one request. *)
HandlerEffect(r) ==
    /\ GrantedNow(r)
    /\ Sound(req'[r], history)
    /\ req' = [req EXCEPT ![r] = req'[r]]
    /\ req'[r].pc = "send" => ClaimAccess(r)
    /\ sent' = sent \/ SendLocation(r)

LEMMA HandlerStep ==
    ASSUME EngineInv, NEW r \in Request, Handler(r)
    PROVE  HandlerEffect(r)
  <1>0. req \in [Request -> Active \cup {Idle}] /\ Idle.pc = "idle"
    BY DEF EngineInv, EngineTypeOK, Idle
  <1>1. ASSUME NEW l \in Link, NEW m \in Method, NEW d \in Target, Lookup(r, l, m, d)
        PROVE  HandlerEffect(r)
    BY <1>1, LookupStep DEF HandlerEffect, GrantedNow, Lookup
  <1>2. CASE ResolveRisk(r)
    BY <1>2, ResolveRiskStep DEF HandlerEffect, GrantedNow, ResolveRisk
  <1>3. CASE Finish(r) /\ (sent' = sent \/ SendLocation(r))
    <2>1. req'[r] = Idle /\ req' = [req EXCEPT ![r] = Idle]
      BY <1>0, <1>3 DEF Finish
    <2> QED BY <1>0, <1>3, <2>1 DEF HandlerEffect, GrantedNow, Sound
  <1>4. CASE CountAttempt(r) /\ ~Finish(r)
    <2>1. req[r].pc = "access" /\ req' = [req EXCEPT ![r] = [req[r] EXCEPT !.pc = "verify"]] /\ sent' = sent
      BY <1>4 DEF CountAttempt, Goto
    <2>2. req[r] # Idle /\ req[r].pc # "risk"
      BY <1>0, <2>1
    <2> DEFINE p == [req[r] EXCEPT !.pc = "verify"]
    <2>3. p \in Active /\ SameRequest(req[r], p) /\ p.granted = req[r].granted /\ p.pc = "verify"
      BY <2>2, RequestIs DEF Active, PC, SameRequest
    <2>4. req' = [req EXCEPT ![r] = p]
      BY <2>1
    <2> HIDE DEF p
    <2> QED BY <2>1, <2>2, <2>3, <2>4, LaterStep DEF HandlerEffect
  <1>5. CASE AcceptPassword(r)
    <2> DEFINE p == [req[r] EXCEPT !.pc = "claim", !.at = now]
    <2>1. req[r].pc = "verify" /\ req' = [req EXCEPT ![r] = p] /\ sent' = sent
      BY <1>5 DEF AcceptPassword
    <2>2. req[r] # Idle /\ req[r].pc # "risk"
      BY <1>0, <2>1
    <2>3. now \in Nat
      BY BoundAssumption DEF EngineInv, EngineTypeOK
    <2>4. p \in Active /\ SameRequest(req[r], p) /\ p.granted = req[r].granted /\ p.pc = "claim"
      BY <2>2, <2>3, RequestIs DEF Active, PC, SameRequest
    <2> HIDE DEF p
    <2> QED BY <2>1, <2>2, <2>4, LaterStep DEF HandlerEffect
  <1>6. CASE ClaimAccess(r)
    <2> DEFINE n == row[req[r].link].clicks + 1
               p == [req[r] EXCEPT !.pc = "send", !.seq = n]
    <2>1. req[r].pc = "claim" /\ req' = [req EXCEPT ![r] = p] /\ sent' = sent
      BY <1>6 DEF ClaimAccess
    <2>2. req[r] # Idle /\ req[r].pc # "risk"
      BY <1>0, <2>1
    <2>3. row[req[r].link] \in Row
      BY <1>6, <2>2, RequestIs DEF ClaimAccess, Claim, ClaimAllowed, EngineInv, StoreInv, IInv, TypeOK
    <2>4. n \in Nat
      BY <2>3 DEF Row
    <2> HIDE DEF n
    <2>5. p \in Active /\ SameRequest(req[r], p) /\ p.granted = req[r].granted /\ p.pc = "send"
      BY <2>2, <2>4, RequestIs DEF Active, PC, SameRequest
    <2> HIDE DEF p
    <2> QED BY <1>6, <2>1, <2>2, <2>5, LaterStep DEF HandlerEffect
  <1>7. CASE SendLocation(r) \/ Drop(r)
    BY <1>3, <1>7 DEF SendLocation, Drop
  <1>8. CASE CountAttempt(r)
    BY <1>3, <1>4, <1>8 DEF CountAttempt
  <1> QED BY <1>1, <1>2, <1>5, <1>6, <1>7, <1>8 DEF Handler

(* Or none moves. *)
LEMMA RequestsStep ==
    ASSUME EngineInv, [EngineNext]_allVars
    PROVE  UNCHANGED <<req, sent>> \/ \E r \in Request : Handler(r) /\ HandlerEffect(r)
  <1>1. UNCHANGED <<req, sent>> \/ \E r \in Request : Handler(r)
    BY DEF EngineNext, Trust, Tick, allVars, engineVars, EndAttemptWindow, LoseDecision, PutDecision
  <1> QED BY <1>1, HandlerStep

(* The clock never goes back.                                                  *)
LEMMA InTimeStep ==
    ASSUME EngineInv, [EngineNext]_allVars
    PROVE  \A r \in Request : InTime(req'[r], now')
  <1>1. /\ req \in [Request -> Active \cup {Idle}] /\ now \in Nat
        /\ \A r \in Request : InTime(req[r], now)
    BY BoundAssumption DEF EngineInv, EngineTypeOK
  <1>2. now' \in Nat /\ now <= now'
    <2>1. UNCHANGED now \/ Tick
      BY DEF EngineNext, Handler, Trust, allVars, engineVars, Lookup, ResolveRisk, CountAttempt,
             AcceptPassword, ClaimAccess, SendLocation, Drop, EndAttemptWindow, LoseDecision, PutDecision
    <2> QED BY <1>1, <2>1 DEF Tick
  <1>3. ASSUME NEW r \in Request PROVE InTime(req[r], now')
    <2>1. req[r] = Idle \/ req[r].checked \in Nat
      BY RequestIs
    <2>2. CASE req[r] = Idle
      BY <2>2 DEF Idle, InTime
    <2>3. CASE req[r].checked \in Nat
      BY <1>1, <1>2, <2>3 DEF InTime
    <2> QED BY <2>1, <2>2, <2>3
  <1>4. ASSUME NEW r \in Request, NEW p, req' = [req EXCEPT ![r] = p], InTime(p, now')
        PROVE  \A q \in Request : InTime(req'[q], now')
    BY <1>1, <1>3, <1>4
  <1>5. CASE UNCHANGED req
    BY <1>3, <1>5
  <1>6. ASSUME NEW r \in Request, Handler(r) PROVE \A q \in Request : InTime(req'[q], now')
    <2>0. now' = now
      BY <1>6 DEF Handler, Lookup, ResolveRisk, CountAttempt, AcceptPassword, ClaimAccess, SendLocation, Drop
    <2>1. req[r] = Idle \/ (req[r] \in Active /\ req[r].checked \in Nat)
      BY RequestIs
    <2>2. CASE Finish(r)
      BY <1>4, <2>2 DEF Finish, Idle, InTime
    <2>3. ASSUME NEW l \in Link, NEW m \in Method, NEW d \in Target, Lookup(r, l, m, d)
          PROVE  \A q \in Request : InTime(req'[q], now')
      BY <1>4, <2>3, LookupStep DEF InTime
    <2>4. CASE ResolveRisk(r)
      <3>1. /\ req' = [req EXCEPT ![r] = req'[r]] /\ req'[r].pc \in {"access", "claim"}
            /\ req'[r].checked = now /\ (req'[r].pc = "claim" => req'[r].at = now)
        BY <2>4, ResolveRiskStep
      <3>2. InTime(req'[r], now')
        BY <1>1, <2>0, <3>1 DEF InTime
      <3> QED BY <1>4, <3>1, <3>2
    <2>5. CASE CountAttempt(r) /\ ~Finish(r)
      <3> DEFINE p == [req[r] EXCEPT !.pc = "verify"]
      <3>1. req[r].pc = "access" /\ req' = [req EXCEPT ![r] = p]
        BY <2>5 DEF CountAttempt, Goto
      <3>2. p.pc = "verify" /\ p.checked = req[r].checked
        BY <2>1, <3>1 DEF Active, Idle
      <3> HIDE DEF p
      <3> QED BY <1>1, <1>4, <2>0, <3>1, <3>2 DEF InTime
    <2>6. CASE AcceptPassword(r)
      <3> DEFINE p == [req[r] EXCEPT !.pc = "claim", !.at = now]
      <3>1. req[r].pc = "verify" /\ req' = [req EXCEPT ![r] = p]
        BY <2>6 DEF AcceptPassword
      <3>2. p.pc = "claim" /\ p.checked = req[r].checked /\ p.at = now
        BY <2>1, <3>1 DEF Active, Idle
      <3> HIDE DEF p
      <3> QED BY <1>1, <1>4, <3>1, <3>2 DEF InTime
    <2>7. CASE ClaimAccess(r)
      <3>1. req[r] \in Active
        BY <2>1, <2>7 DEF ClaimAccess, Idle
      <3>2. req'[r].pc = "send" /\ req' = [req EXCEPT ![r] = req'[r]]
        BY <1>1, <2>7, <3>1 DEF ClaimAccess, Active
      <3> QED BY <1>4, <3>2 DEF InTime
    <2> QED BY <1>6, <2>2, <2>3, <2>4, <2>5, <2>6, <2>7 DEF Handler, CountAttempt, SendLocation, Drop
  <1> QED BY <1>5, <1>6, RequestsStep

LEMMA AttemptsStep ==
    ASSUME EngineInv, [EngineNext]_allVars
    PROVE  attempts' \in [Link -> Nat]
  <1>1. attempts \in [Link -> Nat] /\ \A r \in Request : req[r] # Idle => req[r].link \in Link
    BY RequestIs DEF EngineInv, EngineTypeOK
  <1>2. \/ UNCHANGED attempts
        \/ \E l \in Link : EndAttemptWindow(l)
        \/ \E r \in Request : CountAttempt(r) \/ AcceptPassword(r)
    BY DEF EngineNext, Handler, Trust, Tick, allVars, engineVars, Lookup, ResolveRisk, ClaimAccess,
           SendLocation, Drop, LoseDecision, PutDecision
  <1>3. ASSUME NEW r \in Request, CountAttempt(r) \/ AcceptPassword(r) PROVE attempts' \in [Link -> Nat]
    <2>1. req[r].link \in Link
      BY <1>1, <1>3 DEF CountAttempt, AcceptPassword, Idle
    <2>2. attempts[req[r].link] \in Nat
      BY <1>1, <2>1
    <2>3. \E n \in Nat : attempts' = [attempts EXCEPT ![req[r].link] = n]
      BY <1>3, <2>2 DEF CountAttempt, AcceptPassword
    <2> QED BY <1>1, <2>1, <2>3
  <1> QED BY <1>1, <1>2, <1>3 DEF EndAttemptWindow

SentBy(q) == [link |-> q.link, version |-> q.version, dest |-> q.dest, seq |-> q.seq,
              checked |-> q.checked, granted |-> q.granted]

(* Whatever was sent was sent by a request on its ground. *)
LEMMA SentStep ==
    ASSUME EngineInv, NEW r \in Request, SendLocation(r)
    PROVE  /\ req[r] # Idle /\ req[r].pc = "send"
           /\ sent' = sent \cup {SentBy(req[r])}
           /\ SentBy(req[r]) \in Redirected
           /\ SentGrounded(SentBy(req[r]), history)
           /\ HasClick(req[r], outbox)
  <1>1. req[r] # Idle /\ req[r].pc = "send"
    BY DEF SendLocation, Idle
  <1>2. sent' = sent \cup {SentBy(req[r])}
    BY DEF SendLocation, SentBy
  <1>3. Grounded(req[r], history) /\ req[r].dest \in Target
    BY <1>1, RequestIs DEF Active
  <1>4. SentBy(req[r]) \in Redirected
    BY <1>1, <1>3, RequestIs DEF SentBy, Redirected
  <1>5. SentGrounded(SentBy(req[r]), history)
    BY <1>1, <1>3 DEF Grounded, SentGrounded, SentBy
  <1> QED BY <1>1, <1>2, <1>4, <1>5 DEF EngineInv

(* A claim gives the request a number no event of the link has. *)
LEMMA ClaimStep ==
    ASSUME EngineInv, NEW r \in Request, ClaimAccess(r)
    PROVE  /\ req[r] # Idle /\ sent' = sent
           /\ SameRequest(req[r], req'[r]) /\ HasClick(req'[r], outbox')
           /\ \A x \in outbox : x.link = req[r].link => x.seq # req'[r].seq
  <1> DEFINE l == req[r].link
  <1>1. req[r] # Idle /\ sent' = sent /\ Claim(l, req[r].version, req[r].cfg.targets, req[r].at)
    BY DEF ClaimAccess, Idle
  <1>2. l \in Link /\ req[r] \in Active /\ req \in [Request -> Active \cup {Idle}]
    BY <1>1, RequestIs DEF EngineInv, EngineTypeOK
  <1>3. row[l] \in Row /\ row[l] # NoRow
    BY <1>1, <1>2 DEF Claim, ClaimAllowed, EngineInv, StoreInv, IInv, TypeOK
  <1>4. req'[r] = [req[r] EXCEPT !.pc = "send", !.seq = row[l].clicks + 1]
    BY <1>2 DEF ClaimAccess
  <1>5. /\ SameRequest(req[r], req'[r]) /\ req'[r].seq = row[l].clicks + 1 /\ row[l].clicks \in Nat
        /\ req'[r].checked = req[r].checked
    BY <1>2, <1>3, <1>4 DEF Active, SameRequest, Row
  <1>6. HasClick(req'[r], outbox')
    <2> DEFINE x == [link |-> l, seq |-> row[l].clicks + 1, version |-> req[r].version,
                     targets |-> req[r].cfg.targets, at |-> req[r].at]
    <2>1. x \in outbox'
      BY <1>1 DEF Claim
    <2>2. x.link = l /\ x.seq = row[l].clicks + 1 /\ x.version = req[r].version /\ x.at = req[r].at
      OBVIOUS
    <2>3. req[r].checked <= req[r].at
      BY DEF ClaimAccess, EngineInv, InTime
    <2> HIDE DEF x
    <2> QED BY <1>5, <2>1, <2>2, <2>3 DEF HasClick, SameRequest
  <1>7. ASSUME NEW x \in outbox, x.link = l PROVE x.seq # row[l].clicks + 1
    <2>1. x.seq <= row[l].clicks /\ x.seq \in Nat
      BY <1>2, <1>3, <1>7 DEF EngineInv, StoreInv, EventsAreClicks, IInv, TypeOK, Event
    <2> QED BY <1>5, <2>1
  <1> QED BY <1>1, <1>5, <1>6, <1>7

-----------------------------------------------------------------------------
(* The invariant.                                                              *)

LEMMA EngineTypeStep ==
    ASSUME EngineInv, [EngineNext]_allVars
    PROVE  EngineTypeOK' /\ \A r \in Request : req'[r] # Idle => Grounded(req'[r], history')
  <1>1. TypeOK' /\ DecisionsTypeOK' /\ attempts' \in [Link -> Nat]
    BY EngineStoreStep, DecisionsStep, AttemptsStep DEF StoreInv, IInv
  <1>2. /\ req \in [Request -> Active \cup {Idle}] /\ sent \subseteq Redirected
        /\ \A r \in Request : req[r] # Idle => Grounded(req[r], history)
    BY DEF EngineInv, EngineTypeOK
  <1>3. /\ req' \in [Request -> Active \cup {Idle}]
        /\ \A r \in Request : req'[r] # Idle => Grounded(req'[r], history)
    <2>1. ASSUME NEW r \in Request, HandlerEffect(r)
          PROVE  /\ req' \in [Request -> Active \cup {Idle}]
                 /\ \A q \in Request : req'[q] # Idle => Grounded(req'[q], history)
      <3>1. Sound(req'[r], history) /\ req' = [req EXCEPT ![r] = req'[r]]
        BY <2>1 DEF HandlerEffect
      <3>2. req'[r] \in Active \cup {Idle} /\ (req'[r] # Idle => Grounded(req'[r], history))
        BY <3>1 DEF Sound
      <3>3. \A q \in Request : q # r => req'[q] = req[q]
        BY <1>2, <3>1
      <3> QED BY <1>2, <3>1, <3>2, <3>3
    <2> QED BY <1>2, <2>1, RequestsStep
  <1>4. sent' \subseteq Redirected
    <2>1. ASSUME NEW r \in Request, HandlerEffect(r) PROVE sent' \subseteq Redirected
      BY <1>2, <2>1, SentStep DEF HandlerEffect
    <2> QED BY <1>2, <2>1, RequestsStep
  <1>5. \A r \in Request : req'[r] # Idle => req'[r] \in Active
    BY <1>3
  <1>6. \A r \in Request : req'[r] # Idle => Grounded(req'[r], history')
    BY <1>3, <1>5, GroundStays
  <1> QED BY <1>1, <1>3, <1>4, <1>6 DEF EngineTypeOK, DecisionsTypeOK

LEMMA EngineSentStep ==
    ASSUME EngineInv, [EngineNext]_allVars
    PROVE  \A s \in sent' : SentGrounded(s, history')
  <1>1. ASSUME NEW r \in Request, SendLocation(r) PROVE \A s \in sent' : SentGrounded(s, history')
    <2>1. /\ sent' = sent \cup {SentBy(req[r])} /\ history' = history
          /\ SentGrounded(SentBy(req[r]), history)
      BY <1>1, SentStep DEF SendLocation, vars
    <2> QED BY <2>1, GroundStays
  <1> QED BY <1>1, RequestsStep, GroundStays DEF HandlerEffect

LEMMA EngineClickStep ==
    ASSUME EngineInv, [EngineNext]_allVars
    PROVE  /\ RedirectHasItsClick' /\ \A s \in sent' : HasClick(s, outbox')
           /\ \A r \in Request : req'[r].pc = "send" => HasClick(req'[r], outbox')
  <1>1. /\ req \in [Request -> Active \cup {Idle}]
        /\ \A r \in Request : req[r].pc = "send" => HasClick(req[r], outbox)
        /\ \A s \in sent : HasClick(s, outbox)
        /\ outbox \subseteq outbox'
    BY PastStays DEF EngineInv, EngineTypeOK, RedirectHasItsClick, HasClick
  <1>2. /\ \A r \in Request : req[r].pc = "send" => HasClick(req[r], outbox')
        /\ \A s \in sent : HasClick(s, outbox')
    BY <1>1 DEF HasClick
  <1> DEFINE Apart(p, q) == p.link = q.link => p.seq # q.seq
             Goal == /\ RedirectHasItsClick' /\ \A s \in sent' : HasClick(s, outbox')
                     /\ \A r \in Request : req'[r].pc = "send" => HasClick(req'[r], outbox')
  <1>3. \A r \in Request : req[r].pc = "send" =>
           /\ \A s \in sent : Apart(s, req[r])
           /\ \A q \in Request \ {r} : req[q].pc = "send" => Apart(req[q], req[r])
    BY DEF EngineInv, RedirectHasItsClick
  <1>4. ASSUME /\ \A s \in sent' : HasClick(s, outbox')
               /\ \A r \in Request : req'[r].pc = "send" =>
                     /\ HasClick(req'[r], outbox')
                     /\ \A s \in sent' : Apart(s, req'[r])
                     /\ \A q \in Request \ {r} : req'[q].pc = "send" => Apart(req'[q], req'[r])
        PROVE  Goal
    <2>1. RedirectHasItsClick'
      BY <1>4 DEF RedirectHasItsClick, HasClick
    <2> QED BY <1>4, <2>1
  <1> HIDE DEF Apart, Goal
  <1>5. CASE UNCHANGED <<req, sent>>
    <2>1. (\A r \in Request : req'[r] = req[r]) /\ sent' = sent
      BY <1>5
    <2>2. Goal
      BY <1>2, <1>3, <1>4, <2>1
    <2> QED BY <2>2 DEF Goal
  <1>6. ASSUME NEW r \in Request, HandlerEffect(r) PROVE Goal
    <2>1. /\ \A q \in Request : q # r => req'[q] = req[q]
          /\ req'[r].pc = "send" => ClaimAccess(r)
          /\ sent' = sent \/ SendLocation(r)
      BY <1>1, <1>6 DEF HandlerEffect
    <2>2. CASE req'[r].pc # "send" /\ sent' = sent
      BY <1>2, <1>3, <1>4, <2>1, <2>2
    <2>3. CASE SendLocation(r)
      <3>1. /\ req[r].pc = "send" /\ sent' = sent \cup {SentBy(req[r])} /\ HasClick(req[r], outbox)
            /\ req'[r] = Idle
        BY <1>1, <2>3, SentStep DEF SendLocation, Finish
      <3>2. req'[r].pc # "send"
        BY <3>1 DEF Idle
      <3>3. HasClick(SentBy(req[r]), outbox')
        BY <1>1, <3>1 DEF HasClick, SentBy
      <3>4. ASSUME NEW q \in Request, req'[q].pc = "send" PROVE Apart(SentBy(req[r]), req'[q])
        <4>1. q # r /\ req[q].pc = "send" /\ req'[q] = req[q]
          BY <2>1, <3>2, <3>4
        <4>2. Apart(req[r], req[q])
          BY <1>3, <3>1, <4>1
        <4> QED BY <4>1, <4>2 DEF Apart, SentBy
      <3> QED BY <1>2, <1>3, <1>4, <2>1, <3>1, <3>2, <3>3, <3>4
    <2>4. CASE ClaimAccess(r)
      <3>1. /\ sent' = sent /\ HasClick(req'[r], outbox') /\ req'[r].link = req[r].link
            /\ \A x \in outbox : x.link = req[r].link => x.seq # req'[r].seq
        BY <2>4, ClaimStep DEF SameRequest
      <3>2. ASSUME NEW s, HasClick(s, outbox) PROVE Apart(s, req'[r]) /\ Apart(req'[r], s)
        BY <3>1, <3>2 DEF HasClick, Apart
      <3>3. \A s \in sent : Apart(s, req'[r])
        BY <1>1, <3>2
      <3>4. \A q \in Request \ {r} : req[q].pc = "send" => Apart(req[q], req'[r]) /\ Apart(req'[r], req[q])
        BY <1>1, <3>2
      <3> QED BY <1>2, <1>3, <1>4, <2>1, <3>1, <3>3, <3>4
    <2> QED BY <2>1, <2>2, <2>3, <2>4
  <1> QED BY <1>5, <1>6, RequestsStep DEF Goal

LEMMA SentApartStep ==
    ASSUME EngineInv, [EngineNext]_allVars
    PROVE  SentApart'
  <1>1. SentApart
    BY DEF EngineInv
  <1>2. ASSUME NEW r \in Request, SendLocation(r) PROVE SentApart'
    <2>1. sent' = sent \cup {SentBy(req[r])} /\ req[r].pc = "send"
      BY <1>2, SentStep
    <2>2. \A s \in sent : s.link = req[r].link => s.seq # req[r].seq
      BY <2>1 DEF EngineInv, RedirectHasItsClick
    <2>3. SentBy(req[r]).link = req[r].link /\ SentBy(req[r]).seq = req[r].seq
      BY DEF SentBy
    <2> QED BY <1>1, <2>1, <2>2, <2>3 DEF SentApart
  <1> QED BY <1>1, <1>2, RequestsStep DEF SentApart, HandlerEffect

LEMMA EngineInvStep ==
    ASSUME EngineInv, [EngineNext]_allVars
    PROVE  EngineInv'
  <1>1. StoreInv'
    BY EngineStoreStep
  <1>2. (\A r \in Request : InTime(req[r], now))' /\ SentApart'
    BY InTimeStep, SentApartStep
  <1> QED BY <1>1, <1>2, EngineTypeStep, EngineSentStep, EngineClickStep DEF EngineInv

LEMMA EngineInvInit == EngineInit => EngineInv
  <1> SUFFICES ASSUME EngineInit PROVE EngineInv
    OBVIOUS
  <1>1. IInv
    BY InitInv DEF EngineInit
  <1>2. AddressUnique /\ ClicksWithinLimits
    BY DEF EngineInit, Init, AddressUnique, ClicksWithinLimits
  <1>3. EventsAreClicks
    <2>1. (\A l \in Link : row[l] = NoRow) /\ outbox = {}
      BY DEF EngineInit, Init
    <2>2. \A k \in 1 .. 0 : FALSE
      OBVIOUS
    <2> QED BY <2>1, <2>2 DEF EventsAreClicks
  <1>4. EngineTypeOK
    BY <1>1, BoundAssumption DEF EngineInit, EngineTypeOK, IInv
  <1>6. \A r \in Request : req[r] = Idle /\ req[r].pc # "send"
    BY DEF EngineInit, Idle
  <1>7. sent = {} /\ SentApart
    BY DEF EngineInit, SentApart
  <1>8. \A r \in Request : InTime(req[r], now)
    BY <1>6 DEF InTime, Idle
  <1> QED BY <1>1, <1>2, <1>3, <1>4, <1>6, <1>7, <1>8 DEF EngineInv, StoreInv, RedirectHasItsClick

(* The invariant that the visitors, the editors and the claims keep together. *)
THEOREM EngineInvariance == EngineSpec => []EngineInv
  BY EngineInvInit, EngineInvStep, PTL DEF EngineSpec

(* What bounds the clicks bounds the redirects. *)
LEMMA SentIsWithinLimits == EngineInv => RedirectsWithinLimits
  <1> SUFFICES ASSUME EngineInv PROVE RedirectsWithinLimits
    OBVIOUS
  <1>1. ASSUME NEW s \in sent
        PROVE  /\ history[s.link][s.version].status = "active"
               /\ history[s.link][s.version].cfg.expires # Never
                    => s.checked < history[s.link][s.version].cfg.expires
               /\ history[s.link][s.version].cfg.cap # Unlimited
                    => s.seq <= history[s.link][s.version].cfg.cap
               /\ history[s.link][s.version].cfg.oneTime => s.seq = 1
    <2>1. PICK x \in outbox : x.link = s.link /\ x.seq = s.seq /\ x.version = s.version /\ s.checked <= x.at
      BY DEF EngineInv, HasClick
    <2> DEFINE v == history[s.link][s.version]
    <2>2. /\ v.status = "active"
          /\ v.cfg.expires # Never => x.at < v.cfg.expires
          /\ v.cfg.cap # Unlimited => x.seq <= v.cfg.cap
          /\ v.cfg.oneTime => x.seq = 1
      BY <2>1 DEF EngineInv, StoreInv, ClicksWithinLimits
    <2>3. s.checked \in Nat /\ x.at \in Nat /\ s.link \in Link /\ s.version \in 1 .. Len(history[s.link])
      BY DEF EngineInv, EngineTypeOK, TypeOK, Redirected, Event, SentGrounded
    <2>4. v.cfg.expires \in Nat \cup {Never}
      <3>1. history[s.link] \in Seq(Snapshot)
        BY <2>3 DEF EngineInv, StoreInv, IInv, TypeOK
      <3>2. history[s.link][s.version] \in Snapshot
        BY <2>3, <3>1
      <3> QED BY <3>2 DEF Snapshot, ConfigRecord
    <2> HIDE DEF v
    <2>5. v.cfg.expires # Never => s.checked < v.cfg.expires
      BY <2>1, <2>2, <2>3, <2>4
    <2> QED BY <2>1, <2>2, <2>5 DEF v
  <1> QED BY <1>1 DEF RedirectsWithinLimits, EngineInv, SentApart

(* Every redirect has a click of its own, counted under the version it is for, and *)
(* so the limits of that version bound what is sent.                               *)
THEOREM EngineIsSafe == EngineSpec => []EngineSafety
  <1>1. EngineInv => EngineSafety
    BY SentIsWithinLimits DEF EngineInv, EngineSafety
  <1> QED BY <1>1, EngineInvariance, PTL

(* No destination leaves GoJet but for a target set with an allow in force in Redis  *)
(* at the moment of its risk check, whatever was decided before that or after.       *)
THEOREM DestinationsWereAllowed == EngineSpec => []DestinationWasAllowed
  <1>1. EngineInv => DestinationWasAllowed
    BY DEF EngineInv, DestinationWasAllowed, SentGrounded
  <1> QED BY <1>1, EngineInvariance, PTL

(* A claim counts a click of the contents the request has in hand, of an active link. *)
THEOREM ClaimsAreCurrent == EngineSpec => ClaimIsCurrent
  <1>1. ASSUME EngineInv, [EngineNext]_allVars, NEW r \in Request,
               req[r].pc = "claim", req'[r].pc = "send"
        PROVE  row[req[r].link].cfg = req[r].cfg /\ row[req[r].link].status = "active"
    <2>1. ClaimAccess(r)
      BY <1>1, RequestsStep DEF HandlerEffect, EngineInv, EngineTypeOK
    <2>2. req[r] # Idle /\ ClaimAllowed(req[r].link, req[r].version, req[r].cfg.targets, req[r].at)
      BY <1>1, <2>1 DEF Idle, ClaimAccess, Claim
    <2>3. Grounded(req[r], history) /\ req[r].link \in Link
      BY <1>1, <2>2, RequestIs
    <2> QED BY <1>1, <2>2, <2>3 DEF ClaimAllowed, Grounded, EngineInv, StoreInv, IInv, HistoryIsComplete
  <1>2. EngineInv /\ [EngineNext]_allVars
          => [\A r \in Request :
                req[r].pc = "claim" /\ req'[r].pc = "send" =>
                  /\ row[req[r].link].cfg = req[r].cfg
                  /\ row[req[r].link].status = "active"]_allVars
    BY <1>1
  <1> QED BY <1>2, EngineInvariance, PTL DEF EngineSpec, ClaimIsCurrent

(* What the store promises alone it keeps under the redirects of its visitors. *)
THEOREM EngineKeepsStore == EngineSpec => [](StoreSafety /\ ClickSafety)
  <1>1. EngineInv => StoreSafety /\ ClickSafety
    BY DEF EngineInv, StoreInv, IInv, StoreSafety, ClickSafety
  <1> QED BY <1>1, EngineInvariance, PTL

-----------------------------------------------------------------------------
(* GuardedRedirect.  The engine and the authority step as they do alone, and   *)
(* what each of them is proved to keep alone gives what they promise together. *)

\* What AuthorityProofs proves, of the entries and the targets of the watched link.
Alone == INSTANCE AuthorityProofs WITH linkFp <- PresentTargets, runtime <- Entries

LEMMA AloneAssumptions == Alone!PolicyAssumption /\ Alone!AuthorityAssumption
  BY GuardAssumption DEF Fingerprint

LEMMA SameInit == Authority!AuthorityInit <=> Alone!AuthorityInit
  BY DEF Authority!AuthorityInit, Alone!AuthorityInit, Authority!DecisionInit, Alone!DecisionInit,
         Authority!Idling, Alone!Idling

LEMMA SameNext ==
    [Authority!AuthorityNext]_(Authority!authorityVars) <=> [Alone!AuthorityNext]_(Alone!authorityVars)
  <1>1. Authority!AuthorityNext <=> Alone!AuthorityNext
    BY DEF Authority!AuthorityNext, Alone!AuthorityNext,
      Authority!DecisionArrives, Alone!DecisionArrives, Authority!DecisionNext, Alone!DecisionNext,
      Authority!Decide, Alone!Decide, Authority!Decided, Alone!Decided,
      Authority!AppendDecision, Alone!AppendDecision, Authority!Judge, Alone!Judge,
      Authority!RiskState, Alone!RiskState, Authority!ReportStatus, Alone!ReportStatus,
      Authority!Project, Alone!Project, Authority!ReadAuthority, Alone!ReadAuthority,
      Authority!Latest, Alone!Latest, Authority!Max, Alone!Max, Authority!Authority, Alone!Authority,
      Authority!InForce, Alone!InForce, Authority!OverlayHold, Alone!OverlayHold,
      Authority!Idling, Alone!Idling, Authority!PutDecision, Alone!PutDecision,
      Authority!ProjectionFails, Alone!ProjectionFails,
      Authority!CreateDestinationOverride, Alone!CreateDestinationOverride,
      Authority!EndOverride, Alone!EndOverride, Authority!SubmitReport, Alone!SubmitReport,
      Authority!RepeatBlock, Alone!RepeatBlock, Authority!RestoreLink, Alone!RestoreLink,
      Authority!Actionable, Alone!Actionable,
      Authority!TransitionAbuseReport, Alone!TransitionAbuseReport,
      Authority!BlockLink, Alone!BlockLink, Authority!CommitBlock, Alone!CommitBlock,
      Authority!AbortBlock, Alone!AbortBlock, Authority!LinkIsFree, Alone!LinkIsFree, Authority!EditTargets, Alone!EditTargets,
      Authority!EntryExpires, Alone!EntryExpires, Authority!ValidityEnds, Alone!ValidityEnds
  <1>2. Authority!authorityVars = Alone!authorityVars /\ (Authority!authorityVars)' = (Alone!authorityVars)'
    BY DEF Authority!authorityVars, Alone!authorityVars
  <1> QED BY <1>1, <1>2

LEMMA SameAllowed == \A t : Authority!Allowed(t) <=> Alone!Allowed(t)
  BY DEF Authority!Allowed, Alone!Allowed


(* Target sets the link had are target sets.                                   *)
LEMMA PastType ==
    ASSUME TypeOK
    PROVE  Past \subseteq Fingerprint
  <1> SUFFICES ASSUME NEW n \in 1 .. Len(history[Watched])
               PROVE  history[Watched][n].cfg.targets \in Fingerprint
    BY DEF Past
  <1>1. history[Watched] \in Seq(Snapshot)
    BY GuardAssumption DEF TypeOK
  <1>2. history[Watched][n] \in Snapshot
    BY <1>1
  <1> QED BY <1>2 DEF Snapshot, ConfigRecord

LEMMA PresentType ==
    ASSUME TypeOK'
    PROVE  PresentTargets' \in Fingerprint
  <1>1. Fingerprint # {}
    BY GuardAssumption DEF Fingerprint
  <1>2. row'[Watched] # NoRow => row'[Watched] \in Row
    BY GuardAssumption DEF TypeOK
  <1> QED BY <1>1, <1>2 DEF PresentTargets, Row, ConfigRecord

(* To the engine the authority is what it took the trust worker for. *)
LEMMA EngineAlone ==
    ASSUME TypeOK, [GuardedNext]_guardVars
    PROVE  [EngineNext]_allVars
  <1>1. CASE Serve
    BY <1>1 DEF Serve, EngineNext, Trust
  <1>2. CASE DecisionArrives \/ Govern \/ UNCHANGED guardVars
    BY <1>2 DEF DecisionArrives, Govern, guardVars
  <1>3. CASE Inform
    <2>1. PICK t \in Past, st \in Verdict : PutDecision(Watched, t, st)
      BY <1>3 DEF Inform
    <2>2. t \in Fingerprint /\ Watched \in Link
      BY PastType, GuardAssumption
    <2> QED BY <2>1, <2>2 DEF EngineNext, Trust
  <1> QED BY <1>1, <1>2, <1>3 DEF GuardedNext

EntryOf(d) == IF d = NoDecision THEN "missing" ELSE d.state

(* What one key of Redis is to the authority. *)
LEMMA EntriesAre == Entries = [t \in Fingerprint |-> EntryOf(risk[Watched][t])]
  BY DEF Entries, EntryOf

LEMMA EntriesStep ==
    ASSUME EngineTypeOK, NEW l \in Link, NEW t \in Fingerprint, NEW d,
           risk' = [risk EXCEPT ![l][t] = d]
    PROVE  Entries' = IF l = Watched THEN [Entries EXCEPT ![t] = EntryOf(d)] ELSE Entries
  <1>1. risk \in [Link -> [Fingerprint -> Decision \cup {NoDecision}]] /\ Watched \in Link
    BY GuardAssumption DEF EngineTypeOK
  <1>2. Entries' = [x \in Fingerprint |-> EntryOf(risk'[Watched][x])]
    BY DEF Entries, EntryOf
  <1>3. ASSUME NEW x \in Fingerprint
        PROVE  risk'[Watched][x] = IF l = Watched /\ x = t THEN d ELSE risk[Watched][x]
    BY <1>1
  <1> QED BY <1>2, <1>3, EntriesAre

(* What the engine does beside the authority is an edit of the targets to it, or *)
(* the expiry of an entry, or nothing.                                           *)
LEMMA ServeAlone ==
    ASSUME EngineTypeOK, TypeOK', Serve
    PROVE  [Authority!AuthorityNext]_(Authority!authorityVars)
  <1>1. UNCHANGED <<decisions, stale, overrides, report, hold, blocking, projection>>
    BY DEF Serve, mysqlTrustVars
  <1>2. CASE UNCHANGED risk
    <2>1. Entries' = Entries
      BY <1>2 DEF Entries
    <2>2. PresentTargets' \in Fingerprint
      BY PresentType
    <2>3. CASE PresentTargets' = PresentTargets
      BY <1>1, <2>1, <2>3 DEF Authority!authorityVars
    <2>4. CASE PresentTargets' # PresentTargets
      <3>1. blocking = NoReport
        BY <2>4 DEF Serve, PresentTargets
      <3>2. Authority!EditTargets(PresentTargets')
        BY <1>1, <2>1, <2>4, <3>1 DEF Authority!EditTargets, Authority!LinkIsFree
      <3> QED BY <2>2, <3>2 DEF Authority!AuthorityNext
    <2> QED BY <2>3, <2>4
  <1>3. ASSUME NEW l \in Link, NEW t \in Fingerprint, LoseDecision(l, t)
        PROVE  [Authority!AuthorityNext]_(Authority!authorityVars)
    <2>1. PresentTargets' = PresentTargets
      BY <1>3 DEF LoseDecision, vars, PresentTargets
    <2>2. Entries' = IF l = Watched THEN [Entries EXCEPT ![t] = "missing"] ELSE Entries
      BY <1>3, EntriesStep DEF LoseDecision, EntryOf
    <2>3. CASE l # Watched
      BY <1>1, <2>1, <2>2, <2>3 DEF Authority!authorityVars
    <2>4. CASE l = Watched
      <3>1. risk[l][t] \in Decision
        BY <1>3 DEF LoseDecision, EngineTypeOK
      <3>2. Entries[t] # "missing"
        BY <2>4, <3>1, EngineAssumption, EntriesAre DEF EntryOf, Decision, Verdict
      <3>3. Authority!EntryExpires(t)
        BY <1>1, <2>1, <2>2, <2>4, <3>2 DEF Authority!EntryExpires
      <3> QED BY <3>3 DEF Authority!AuthorityNext
    <2> QED BY <2>3, <2>4
  <1>4. ASSUME NEW l \in Link, NEW t \in Fingerprint, NEW st \in Verdict, l # Watched, PutDecision(l, t, st)
        PROVE  [Authority!AuthorityNext]_(Authority!authorityVars)
    <2>1. PresentTargets' = PresentTargets
      BY <1>4 DEF PutDecision, vars, PresentTargets
    <2>2. Entries' = Entries
      BY <1>4, EntriesStep DEF PutDecision
    <2> QED BY <1>1, <2>1, <2>2 DEF Authority!authorityVars
  <1>5. \/ UNCHANGED risk
        \/ \E l \in Link, t \in Fingerprint :
              \/ LoseDecision(l, t)
              \/ l # Watched /\ \E st \in Verdict : PutDecision(l, t, st)
    BY DEF Serve, Handler, Lookup, ResolveRisk, CountAttempt, AcceptPassword, ClaimAccess,
           SendLocation, Drop, Tick, EndAttemptWindow, engineVars
  <1> QED BY <1>2, <1>3, <1>4, <1>5

(* And the rest are steps of its own. *)
LEMMA AuthorityAlone ==
    ASSUME EngineTypeOK, TypeOK', [GuardedNext]_guardVars
    PROVE  [Authority!AuthorityNext]_(Authority!authorityVars)
  <1>1. CASE Serve
    BY <1>1, ServeAlone
  <1>2. CASE DecisionArrives
    <2>1. PICK s \in Scan, fp \in Past, o \in Outcome : Authority!Decide(s, fp, o)
      BY <1>2 DEF DecisionArrives
    <2>2. fp \in Fingerprint
      BY PastType DEF EngineTypeOK
    <2>3. PresentTargets' = PresentTargets /\ Entries' = Entries
      BY <1>2 DEF DecisionArrives, allVars, vars, engineVars, PresentTargets, Entries
    <2>4. Authority!DecisionArrives
      BY <1>2, <2>1, <2>2, <2>3 DEF DecisionArrives, mysqlTrustVars, Authority!DecisionArrives, Authority!DecisionNext
    <2> QED BY <2>4 DEF Authority!AuthorityNext
  <1>3. CASE Govern
    <2>1. Verdict = Authority!RiskState
      BY DEF Verdict, Authority!RiskState
    <2> QED BY <1>3, <2>1 DEF Govern, Authority!AuthorityNext, Authority!Project
  <1>4. CASE Inform
    BY <1>4 DEF Inform, Authority!AuthorityNext, Authority!Project
  <1>5. CASE UNCHANGED guardVars
    BY <1>5 DEF guardVars, mysqlTrustVars, allVars, vars, engineVars, Authority!authorityVars,
                PresentTargets, Entries
  <1> QED BY <1>1, <1>2, <1>3, <1>4, <1>5 DEF GuardedNext

-----------------------------------------------------------------------------
\* An allow that a request found in force stands in the books of the authority.
AreAllowed(T) == \A t \in T : Alone!Allowed(t)
AllowsWereGiven ==
    /\ \A r \in Request : req[r] # Idle /\ req[r].link = Watched => AreAllowed(req[r].granted)
    /\ \A s \in sent : s.link = Watched => AreAllowed(s.granted)

GuardInv == EngineInv /\ Alone!AuthorityInv /\ AllowsWereGiven

(* What is in force for the link it watches, the authority allowed. *)
LEMMA InForceIsAllowed == GuardInv => AreAllowed(AllowsInForce(Watched))
  <1> SUFFICES ASSUME GuardInv, NEW t \in Fingerprint, risk[Watched][t] # NoDecision, risk[Watched][t].state = "allow"
               PROVE  Alone!Allowed(t)
    BY DEF AreAllowed, AllowsInForce
  <1>1. Entries[t] = "allow"
    BY EntriesAre DEF EntryOf
  <1> QED BY <1>1 DEF GuardInv, Alone!AuthorityInv, Alone!AllowHasAuthority

LEMMA AllowsWereGivenStep ==
    ASSUME GuardInv, [EngineNext]_allVars, [Alone!AuthorityNext]_(Alone!authorityVars)
    PROVE  AllowsWereGiven'
  <1>1. \A t \in Fingerprint : Alone!Allowed(t) => Alone!Allowed(t)'
    BY AloneAssumptions, Alone!AllowedStays DEF GuardInv, Alone!AuthorityInv
  <1>2. /\ req \in [Request -> Active \cup {Idle}] /\ sent \subseteq Redirected
        /\ \A r \in Request : req[r] # Idle => req[r].granted \subseteq Fingerprint
        /\ \A s \in sent : s.granted \subseteq Fingerprint
    BY RequestIs DEF GuardInv, EngineInv, EngineTypeOK, Redirected
  <1>3. AllowsInForce(Watched) \subseteq Fingerprint
    BY DEF AllowsInForce
  <1>4. ASSUME NEW T \in SUBSET Fingerprint, AreAllowed(T) PROVE \A t \in T : Alone!Allowed(t)'
    BY <1>1, <1>4 DEF AreAllowed
  <1>5. /\ \A r \in Request : req[r] # Idle /\ req[r].link = Watched => \A t \in req[r].granted : Alone!Allowed(t)'
        /\ \A s \in sent : s.link = Watched => \A t \in s.granted : Alone!Allowed(t)'
        /\ \A t \in AllowsInForce(Watched) : Alone!Allowed(t)'
    BY <1>2, <1>3, <1>4, InForceIsAllowed DEF GuardInv, AllowsWereGiven
  <1>6. CASE UNCHANGED <<req, sent>>
    BY <1>5, <1>6 DEF AllowsWereGiven, AreAllowed
  <1>7. ASSUME NEW r \in Request, Handler(r), HandlerEffect(r) PROVE AllowsWereGiven'
    <2>1. GrantedNow(r) /\ \A q \in Request : q # r => req'[q] = req[q]
      BY <1>2, <1>7 DEF HandlerEffect
    <2>2. req'[r] # Idle /\ req'[r].link = Watched => \A t \in req'[r].granted : Alone!Allowed(t)'
      BY <1>5, <2>1 DEF GrantedNow
    <2>3. \A q \in Request : req'[q] # Idle /\ req'[q].link = Watched => \A t \in req'[q].granted : Alone!Allowed(t)'
      BY <1>5, <2>1, <2>2
    <2>4. \A s \in sent' : s.link = Watched => \A t \in s.granted : Alone!Allowed(t)'
      <3>1. CASE sent' = sent
        BY <1>5, <3>1
      <3>2. CASE SendLocation(r)
        <4>1. req[r] # Idle /\ sent' = sent \cup {SentBy(req[r])}
          BY <3>2, SentStep DEF GuardInv
        <4>2. SentBy(req[r]).link = req[r].link /\ SentBy(req[r]).granted = req[r].granted
          BY DEF SentBy
        <4> QED BY <1>5, <4>1, <4>2
      <3> QED BY <1>7, <3>1, <3>2 DEF HandlerEffect
    <2> QED BY <2>3, <2>4 DEF AllowsWereGiven, AreAllowed
  <1> QED BY <1>6, <1>7, RequestsStep DEF GuardInv

LEMMA GuardInvStep ==
    ASSUME GuardInv, [GuardedNext]_guardVars
    PROVE  /\ GuardInv'
           /\ [EngineNext]_allVars
           /\ [Authority!AuthorityNext]_(Authority!authorityVars)
  <1>1. [EngineNext]_allVars
    BY EngineAlone DEF GuardInv, EngineInv, EngineTypeOK
  <1>2. EngineInv'
    BY <1>1, EngineInvStep DEF GuardInv
  <1>3. EngineTypeOK /\ TypeOK'
    BY <1>2 DEF GuardInv, EngineInv, EngineTypeOK
  <1>4. [Authority!AuthorityNext]_(Authority!authorityVars)
    BY <1>3, AuthorityAlone
  <1>5. [Alone!AuthorityNext]_(Alone!authorityVars)
    BY <1>4, SameNext
  <1>6. Alone!AuthorityInv'
    BY <1>5, AloneAssumptions, Alone!AuthorityInvStep DEF GuardInv
  <1> QED BY <1>1, <1>2, <1>4, <1>5, <1>6, AllowsWereGivenStep DEF GuardInv

LEMMA GuardInvInit == GuardedInit => GuardInv
  <1> SUFFICES ASSUME GuardedInit PROVE GuardInv
    OBVIOUS
  <1>1. EngineInv
    BY EngineInvInit DEF GuardedInit
  <1>2. Alone!AuthorityInv
    BY SameInit, AloneAssumptions, Alone!AuthorityInvInit DEF GuardedInit
  <1>3. AllowsWereGiven
    BY DEF GuardedInit, EngineInit, AllowsWereGiven
  <1> QED BY <1>1, <1>2, <1>3 DEF GuardInv

(* The invariant of the two together. *)
THEOREM GuardInvariance == GuardedSpec => []GuardInv
  BY GuardInvInit, GuardInvStep, PTL DEF GuardedSpec

(* Seen from the engine, the authority is the environment it was proved against: *)
(* every theorem about EngineSpec holds of the two together.                     *)
THEOREM GuardedEngine == GuardedSpec => EngineSpec
  <1>1. GuardedInit => EngineInit
    BY DEF GuardedInit
  <1> QED BY <1>1, GuardInvStep, GuardInvariance, PTL DEF GuardedSpec, EngineSpec

(* Seen from the authority, editors and Redis are the environment it was proved  *)
(* against: every theorem about AuthoritySpec holds of the two together.         *)
THEOREM GuardedAuthority == GuardedSpec => Authority!AuthoritySpec
  <1>1. GuardedInit => Authority!AuthorityInit
    BY DEF GuardedInit
  <1> QED BY <1>1, GuardInvStep, GuardInvariance, PTL DEF GuardedSpec, Authority!AuthoritySpec

LEMMA SentIsAuthorized == GuardInv => \A s \in sent : IsAuthorized(s)
  <1> SUFFICES ASSUME GuardInv, NEW s \in sent, s.link = Watched
               PROVE  Authority!Allowed(history[Watched][s.version].cfg.targets)
    BY DEF IsAuthorized
  <1> DEFINE t == history[Watched][s.version].cfg.targets
  <1>1. t \in s.granted
    BY DEF GuardInv, EngineInv, SentGrounded
  <1> HIDE DEF t
  <1> QED BY <1>1, SameAllowed DEF GuardInv, AllowsWereGiven, AreAllowed, t

(* No destination leaves GoJet for targets that nobody with the authority to do so *)
(* allowed, through any interleaving of visitors, editors, scans, overrides,       *)
(* reports, holds, projections and losses of Redis.                                *)
THEOREM GuardIsSafe == GuardedSpec => GuardSafety
  BY SentIsAuthorized, GuardInvariance, GuardedAuthority, PTL DEF GuardSafety
=============================================================================
