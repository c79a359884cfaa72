--------------------------- MODULE RedirectEngine ---------------------------
(***************************************************************************)
(* The public redirect handler of services/redirectengine                  *)
(* (internal/links/redirect_http.go) running against the link store while  *)
(* editors change links, the trust worker changes risk decisions in Redis  *)
(* and domains come and go.  A request is a small program: one action per  *)
(* call it makes to MySQL or Redis, with a local snapshot of the link it   *)
(* looked up; anything may happen between two calls.                       *)
(***************************************************************************)
EXTENDS LinkStore

CONSTANTS
    Request,        \* requests in progress at a time
    NoDecision,     \* no risk:link:<id>:<fingerprint> key in Redis
    TTL,            \* validity of a risk decision
    AttemptLimit    \* linkPasswordAttemptLimit

\* review and block lead to different safety pages, neither with a destination.
Verdict == {"allow", "review", "block"}
Decision == [state : Verdict, until : Nat]

ASSUME EngineAssumption ==
    /\ NoDecision \notin Decision
    /\ TTL \in Nat \ {0}
    /\ AttemptLimit \in Nat \ {0}

Idle == [pc |-> "idle"]
Method == {"GET", "POST"}
PC == {"risk", "access", "verify", "claim", "send"}
Active == [pc : PC, link : Link, version : Nat \ {0}, cfg : ConfigRecord,
           method : Method, dest : Target, at : Nat, seq : Nat,
           checked : Nat, granted : SUBSET Fingerprint]
Redirected == [link : Link, version : Nat, dest : Target, seq : Nat,
               checked : Nat, granted : SUBSET Fingerprint]

VARIABLES
    now,        \* the clock
    risk,       \* the risk decisions in Redis, by link and fingerprint
    attempts,   \* password attempts of the window in Redis, by link
    req,        \* the requests
    sent        \* ghost: the responses that carried a destination

engineVars == <<now, risk, attempts, req, sent>>
allVars == <<vars, engineVars>>

Goto(r, pc) == req' = [req EXCEPT ![r].pc = pc]
Finish(r) == req' = [req EXCEPT ![r] = Idle]

-----------------------------------------------------------------------------
\* GetByHostCodeForRedirect and the lifecycle checks.  Every refusal of the
\* handler (safety page, challenge, database or Redis error) is Drop.
Lookup(r, l, m, d) ==
    /\ req[r] = Idle
    /\ row[l] # NoRow
    /\ RoutingAuthorized(row[l].cfg)
    /\ row[l].status = "active" /\ ~row[l].gone
    /\ d \in row[l].cfg.targets
    /\ req' = [req EXCEPT ![r] =
         [pc |-> "risk", link |-> l, version |-> row[l].version,
          cfg |-> row[l].cfg, method |-> m, dest |-> d,
          at |-> 0, seq |-> 0,
          checked |-> 0, granted |-> {}]]
    /\ UNCHANGED <<vars, now, risk, attempts, sent>>

\* Bug: a decision outlives valid_until.
VerdictIgnoringExpiry(l, t) ==
    IF risk[l][t] = NoDecision THEN "missing" ELSE risk[l][t].state

CurrentVerdict(l, t) ==
    IF risk[l][t] = NoDecision THEN "missing"
    ELSE IF risk[l][t].until > now THEN risk[l][t].state ELSE "stale"

\* Ghost: the target sets of a link whose decision in Redis is an allow that has
\* not run out, whatever the handler makes of it.
AllowsInForce(l) ==
    {t \in Fingerprint : /\ risk[l][t] # NoDecision
                         /\ risk[l][t].state = "allow" /\ now < risk[l][t].until}

\* The request as it leaves the risk check, with what was in force at that moment.
Checked(r, pc, at) ==
    [req EXCEPT ![r].pc = pc, ![r].at = at,
                ![r].checked = now, ![r].granted = AllowsInForce(req[r].link)]

\* risk.Resolve on the fingerprint of the snapshot; then SelectTarget picks one
\* of its targets (which one depends on the visitor, see dest in Lookup).
ResolveRisk(r) ==
    /\ req[r].pc = "risk"
    /\ CurrentVerdict(req[r].link, req[r].cfg.targets) = "allow"
    /\ IF req[r].cfg.password
       THEN req[r].method = "POST" /\ req' = Checked(r, "access", 0)
       ELSE req' = Checked(r, "claim", now)
    /\ UNCHANGED <<vars, now, risk, attempts, sent>>

\* AllowPasswordAttempt: INCR, with a window that opens at the first attempt.
\* The counter saturates one above the limit, where it means the same.
CountAttempt(r) ==
    /\ req[r].pc = "access"
    /\ LET l == req[r].link
           n == IF attempts[l] > AttemptLimit THEN attempts[l] ELSE attempts[l] + 1
       IN /\ attempts' = [attempts EXCEPT ![l] = n]
          /\ IF n <= AttemptLimit THEN Goto(r, "verify") ELSE Finish(r)
    /\ UNCHANGED <<vars, now, risk, sent>>

\* The right password: ClearPasswordAttempts.  A wrong one is Drop.
AcceptPassword(r) ==
    /\ req[r].pc = "verify"
    /\ attempts' = [attempts EXCEPT ![req[r].link] = 0]
    /\ req' = [req EXCEPT ![r].pc = "claim", ![r].at = now]
    /\ UNCHANGED <<vars, now, risk, sent>>

\* Bug: a refused claim is taken for an accepted one.
ClaimAccessFailOpen(r) ==
    /\ req[r].pc = "claim"
    /\ LET l == req[r].link
           allow == ClaimAllowed(l, req[r].version, req[r].cfg.targets, req[r].at)
       IN /\ IF allow THEN Claim(l, req[r].version, req[r].cfg.targets, req[r].at)
             ELSE row[l].clicks > 0 /\ UNCHANGED vars
          /\ req' = [req EXCEPT ![r].pc = "send", ![r].seq = row'[l].clicks]
    /\ UNCHANGED <<now, risk, attempts, sent>>

\* ClaimRedirectAccessCurrentAuthorityWithAnalytics.
ClaimAccess(r) ==
    /\ req[r].pc = "claim"
    /\ Claim(req[r].link, req[r].version, req[r].cfg.targets, req[r].at)
    /\ req' = [req EXCEPT ![r].pc = "send", ![r].seq = row[req[r].link].clicks + 1]
    /\ UNCHANGED <<now, risk, attempts, sent>>

\* The only branch that emits a Location.
SendLocation(r) ==
    /\ req[r].pc = "send"
    /\ sent' = sent \cup
         {[link |-> req[r].link, version |-> req[r].version, dest |-> req[r].dest,
           seq |-> req[r].seq, checked |-> req[r].checked, granted |-> req[r].granted]}
    /\ Finish(r)
    /\ UNCHANGED <<vars, now, risk, attempts>>

\* A refusal, an error or a crash: the visitor gets no destination.
Drop(r) ==
    /\ req[r] # Idle
    /\ Finish(r)
    /\ UNCHANGED <<vars, now, risk, attempts, sent>>

-----------------------------------------------------------------------------
\* The trust worker's decision on one fingerprint a link has or had.
PutDecision(l, t, s) ==
    /\ \E n \in 1 .. Len(history[l]) : history[l][n].cfg.targets = t
    /\ risk' = [risk EXCEPT ![l][t] = [state |-> s, until |-> now + TTL]]
    /\ UNCHANGED <<vars, now, attempts, req, sent>>

\* Redis expires or loses a key.
LoseDecision(l, t) ==
    /\ risk[l][t] # NoDecision
    /\ risk' = [risk EXCEPT ![l][t] = NoDecision]
    /\ UNCHANGED <<vars, now, attempts, req, sent>>

EndAttemptWindow(l) ==
    /\ attempts[l] > 0
    /\ attempts' = [attempts EXCEPT ![l] = 0]
    /\ UNCHANGED <<vars, now, risk, req, sent>>

Tick ==
    /\ now < MaxNow
    /\ now' = now + 1
    /\ UNCHANGED <<vars, risk, attempts, req, sent>>

-----------------------------------------------------------------------------
EngineInit ==
    /\ Init
    /\ now = 0
    /\ risk = [l \in Link |-> [t \in Fingerprint |-> NoDecision]]
    /\ attempts = [l \in Link |-> 0]
    /\ req = [r \in Request |-> Idle]
    /\ sent = {}

Handler(r) ==
    \/ \E l \in Link, m \in Method, d \in Target : Lookup(r, l, m, d)
    \/ ResolveRisk(r)
    \/ CountAttempt(r)
    \/ AcceptPassword(r)
    \/ ClaimAccess(r)
    \/ SendLocation(r)
    \/ Drop(r)

Trust ==
    \E l \in Link :
        \/ EndAttemptWindow(l)
        \/ \E t \in Fingerprint :
              \/ LoseDecision(l, t)
              \/ \E s \in Verdict : PutDecision(l, t, s)

EngineNext ==
    \/ \E r \in Request : Handler(r)
    \/ (Edit \/ Environment) /\ UNCHANGED engineVars
    \/ Trust
    \/ Tick

EngineSpec == EngineInit /\ [][EngineNext]_allVars

-----------------------------------------------------------------------------
\* Every variable has its type.
EngineTypeOK ==
    /\ TypeOK
    /\ now \in 0 .. MaxNow
    /\ risk \in [Link -> [Fingerprint -> Decision \cup {NoDecision}]]
    /\ attempts \in [Link -> Nat]
    /\ req \in [Request -> Active \cup {Idle}]
    /\ sent \subseteq Redirected

\* A destination leaves GoJet only when the whole target set of the version it
\* was sent for had an allow in force in Redis at the moment of the risk check: not
\* one that had run out, that a review or a block had replaced, that came only
\* after the check, or that was given to the targets before or after an edit.
DestinationWasAllowed ==
    \A s \in sent :
        LET t == history[s.link][s.version].cfg.targets
        IN s.dest \in t /\ t \in s.granted

\* A destination is sent for a click that was counted for it: two visitors never
\* share a click, and the redirect is for the version the click was counted
\* under.  With a click limit or a one-time link this is what bounds redirects.
RedirectHasItsClick ==
    /\ \A s \in sent : \E x \in outbox :
           x.link = s.link /\ x.seq = s.seq /\ x.version = s.version
    /\ \A r \in Request : req[r].pc = "send" =>
           /\ \A s \in sent : s.link = req[r].link => s.seq # req[r].seq
           /\ \A q \in Request \ {r} :
                 req[q].pc = "send" /\ req[q].link = req[r].link => req[q].seq # req[r].seq

\* A link that is deleted, paused or edited after the lookup is not redirected
\* for the old contents: the claim sees the row as the snapshot had it.
ClaimIsCurrent ==
    [][\A r \in Request :
         req[r].pc = "claim" /\ req'[r].pc = "send" =>
           /\ row[req[r].link].cfg = req[r].cfg
           /\ row[req[r].link].status = "active"]_allVars

\* The limits of a link bound its redirects, not only its clicks: each is under a
\* number of its own, which the version it was sent for admits, and was checked
\* before that version expired, though the version may be edited away, paused or
\* restored, and the clock move on, while the request is on its way.
RedirectsWithinLimits ==
    /\ \A s, z \in sent : s.link = z.link /\ s.seq = z.seq => s = z
    /\ \A s \in sent :
         LET v == history[s.link][s.version]
         IN /\ v.status = "active"
            /\ v.cfg.expires # Never => s.checked < v.cfg.expires
            /\ v.cfg.cap # Unlimited => s.seq <= v.cfg.cap
            /\ v.cfg.oneTime => s.seq = 1

\* Requests under way are well formed, and a redirect that was sent has its click and
\* kept to its limits.
EngineSafety == EngineTypeOK /\ RedirectHasItsClick /\ RedirectsWithinLimits
=============================================================================
