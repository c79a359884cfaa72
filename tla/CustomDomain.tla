---------------------------- MODULE CustomDomain ----------------------------
(***************************************************************************)
(* One custom domain of a workspace (internal/domains) with its four axes: *)
(* ownership, ingress, https and risk.  Whoever checks an axis reads the   *)
(* entitlement, observes the world outside any transaction, then locks the *)
(* row and decides from the row as it is then.  Users verify, rotate the   *)
(* ownership secret, activate and restore; a periodic run observes all     *)
(* axes; internal/trust evaluates the risk and suspends for abuse; an      *)
(* administrator (internal/admin) overlays a control on the entitlement.   *)
(***************************************************************************)
EXTENDS Integers, FiniteSets

CONSTANTS
    Probe,          \* axes seen by probing: subset of {"ingress", "https"}
    External,       \* categories of a suspension from outside: abuse, fraud, ...
    Evaluation,     \* ids of risk evaluations, 1 .. n
    MaxVersion,     \* bound on the versions of the ownership secret
    MaxChecks       \* bound on the checks in flight at a time

ASSUME CustomDomainAssumption ==
    /\ Probe \subseteq {"ingress", "https"}
    /\ "abuse" \in External /\ "" \notin External /\ "ownership_loss" \notin External
    /\ Evaluation \subseteq Nat \ {0} /\ IsFiniteSet(Evaluation)
    /\ MaxVersion \in Nat \ {0} /\ MaxChecks \in Nat \ {0}

Observed == Probe \cup {"risk"}
Axis == Observed \cup {"ownership"}
Category == External \cup {"", "ownership_loss"}
\* The axes that must be ready before an axis is verified.
Before(a) ==
    CASE a = "ownership" -> {}
      [] a = "ingress"   -> {"ownership"}
      [] a = "https"     -> Axis \ {"https", "risk"}
      [] a = "risk"      -> Axis \ {"risk"}

DomainRow == [routing : {"none", "pending", "enabled", "suspended"}, category : Category,
              ownership : {"pending", "verified", "lost"},
              good : [Observed -> BOOLEAN],
              version : 1 .. MaxVersion,    \* ownership_token_version, and its secret
              proof : 0 .. MaxVersion]      \* ghost: the secret last seen in the DNS
Observation == [txt : 0 .. MaxVersion, good : [Observed -> BOOLEAN]]
EvaluationState == {"none", "started", "saw_allow", "saw_block", "allow", "refused", "stale"}
NoCheck == [txt |-> 0, good |-> [a \in Observed |-> FALSE]]

VARIABLES
    plan,       \* what the entitlement sources resolve to: full, grace or none
    control,    \* admin_domain_entitlement_controls has a row
    domain,     \* the row of custom_domains
    world,      \* the TXT record, and what a probe of each axis would find
    checks,     \* checks in flight: what each has observed
    inFlight,   \* the checks in flight; "periodic" observes every axis
    evals,      \* domain_risk_evaluations
    abuseHold,       \* an active hold of an abuse report on the domain
    holder      \* who has the row locked between reading and writing, and the
                \* entitlement it read

domainVars == <<plan, control, domain, world, checks, inFlight, evals, abuseHold, holder>>

MutationAllowed == plan = "full" /\ ~control
ExistingRoutingAllowed == plan # "none" /\ ~control
Ready(a) == IF a = "ownership" THEN domain.ownership = "verified" ELSE domain.good[a]
AllReady == \A a \in Axis : Ready(a)
Unsafe == domain.category # "" \/ domain.ownership = "lost"
Unlocked == holder = "nobody"
Exists == domain.routing # "none"

\* AuthorizeCustomDomainAssignmentTx, AuthorizeCustomDomainRoutingTx
AssignmentAuthorized ==
    Exists /\ ~Unsafe /\ domain.routing # "suspended" /\ MutationAllowed /\ AllReady
RoutingAuthorized ==
    domain.routing = "enabled" /\ domain.category = "" /\ AllReady /\ ExistingRoutingAllowed

-----------------------------------------------------------------------------
\* Billing, manual approvals and time change what the sources resolve to.
EntitlementChanges(p) ==
    /\ plan' = p /\ p # plan
    /\ UNCHANGED <<control, domain, world, checks, inFlight, evals, abuseHold, holder>>

\* The owner publishes a TXT record, servers and reputation change.
WorldChanges(w) ==
    /\ \/ \E v \in 0 .. domain.version : w = [world EXCEPT !.txt = v]
       \/ \E a \in Observed : w = [world EXCEPT !.good[a] = ~@]
    /\ w # world /\ world' = w
    /\ UNCHANGED <<plan, control, domain, checks, inFlight, evals, abuseHold, holder>>

CreateDomain ==
    /\ ~Exists /\ MutationAllowed
    /\ domain' = [domain EXCEPT !.routing = "pending"]
    /\ UNCHANGED <<plan, control, world, checks, inFlight, evals, abuseHold, holder>>

-----------------------------------------------------------------------------
Preflight(a) == Unlocked /\ MutationAllowed /\ \A b \in Before(a) : Ready(b)

\* Verify of an axis: the preflight, then the lookup or probe.
BeginVerify(a) ==
    /\ Exists /\ Preflight(a)
    /\ a \notin inFlight /\ Cardinality(inFlight) < MaxChecks
    /\ inFlight' = inFlight \cup {a}
    /\ checks' = [checks EXCEPT ![a] =
         IF a = "ownership" THEN [NoCheck EXCEPT !.txt = world.txt]
         ELSE [NoCheck EXCEPT !.good[a] = world.good[a]]]
    /\ UNCHANGED <<plan, control, domain, world, evals, abuseHold, holder>>

\* classifyOwnershipTXT: the records against the secret the row has now.
Proves(txt) == txt = domain.version

\* No record is pending and a wrong one failed: "pending" stands for either, neither proves.
WriteOwnership(txt) ==
    domain' = [domain EXCEPT
        !.ownership = IF Proves(txt) THEN "verified" ELSE "pending",
        !.proof = IF Proves(txt) THEN txt ELSE @]

WriteObserved(a) == domain' = [domain EXCEPT !.good[a] = checks[a].good[a]]

FinishVerify(a) ==
    /\ a \in inFlight /\ Unlocked
    /\ inFlight' = inFlight \ {a} /\ checks' = [checks EXCEPT ![a] = NoCheck]
    /\ IF Preflight(a)
       THEN IF a = "ownership" THEN WriteOwnership(checks[a].txt) ELSE WriteObserved(a)
       ELSE UNCHANGED domain
    /\ UNCHANGED <<plan, control, world, evals, abuseHold, holder>>

\* A lookup or an evaluation that fails leaves the axes as they are.
VerifyFails(a) ==
    /\ a \in inFlight
    /\ inFlight' = inFlight \ {a} /\ checks' = [checks EXCEPT ![a] = NoCheck]
    /\ UNCHANGED <<plan, control, domain, world, evals, abuseHold, holder>>

\* PeriodicRevalidator.Run, without regard to entitlement or suspension; its
\* observations are taken one after the other, here at one moment.
BeginPeriodic ==
    /\ Exists
    /\ "periodic" \notin inFlight /\ Cardinality(inFlight) < MaxChecks
    /\ inFlight' = inFlight \cup {"periodic"}
    /\ checks' = [checks EXCEPT !["periodic"] = world]
    /\ UNCHANGED <<plan, control, domain, world, evals, abuseHold, holder>>

FinishPeriodic ==
    LET seen == checks["periodic"] IN
    /\ "periodic" \in inFlight /\ Unlocked
    /\ inFlight' = inFlight \ {"periodic"} /\ checks' = [checks EXCEPT !["periodic"] = NoCheck]
    /\ domain' = [domain EXCEPT
         !.ownership = CASE Proves(seen.txt) -> "verified"
                         [] ~Proves(seen.txt) /\ @ = "verified" -> "lost"
                         [] OTHER -> "pending",
         !.proof = IF Proves(seen.txt) THEN seen.txt ELSE @,
         !.good = seen.good]
    /\ UNCHANGED <<plan, control, world, evals, abuseHold, holder>>

RotateOwnershipSecret ==
    /\ Exists /\ Unlocked /\ ~Unsafe /\ MutationAllowed
    /\ domain.version < MaxVersion
    /\ domain' = [domain EXCEPT !.version = @ + 1, !.ownership = "pending"]
    /\ UNCHANGED <<plan, control, world, checks, inFlight, evals, abuseHold, holder>>

-----------------------------------------------------------------------------
\* mutateRouting locks the row and reads the entitlement, then decides.
LockForRouting(op) ==
    /\ Exists /\ Unlocked
    /\ \/ op = "activate" /\ domain.routing = "pending" /\ ~Unsafe /\ MutationAllowed
       \/ op = "restore" /\ domain.routing = "suspended" /\ ~Unsafe /\ MutationAllowed
       \/ op = "abuse_restore" /\ abuseHold /\ domain.routing = "suspended"
          /\ domain.category = "abuse" /\ ExistingRoutingAllowed
          /\ \E e \in Evaluation : evals[e] = "allow"
               /\ \A f \in Evaluation : f > e => evals[f] = "none"
    /\ AllReady
    /\ holder' = op
    /\ UNCHANGED <<plan, control, domain, world, checks, inFlight, evals, abuseHold>>

\* ActivateDomain, RestoreDomain, RestoreDomainSecuritySuspension.  The hold is
\* released by a transaction of its own, which may fail.
EnableRouting(released) ==
    /\ ~Unlocked
    /\ domain' = [domain EXCEPT !.routing = "enabled", !.category = ""]
    /\ abuseHold' = IF holder = "abuse_restore" /\ released THEN FALSE ELSE abuseHold
    /\ holder' = "nobody"
    /\ UNCHANGED <<plan, control, world, checks, inFlight, evals>>

\* Bug: a new category replaces the one there is.
BugSuspendReplaces(c) ==
    domain' = [domain EXCEPT !.routing = "suspended", !.category = c]

ApplyDomainSecuritySuspension(c) ==
    /\ domain.category \in {"", c}
    /\ domain' = [domain EXCEPT !.routing = "suspended", !.category = c]

\* The suspension commits before the hold of the abuse report does.
Suspend(c) ==
    /\ Exists /\ Unlocked
    /\ ApplyDomainSecuritySuspension(c)
    /\ IF c = "abuse" THEN abuseHold' \in {abuseHold, TRUE} ELSE UNCHANGED abuseHold
    /\ UNCHANGED <<plan, control, world, checks, inFlight, evals, holder>>

ApplyOwnershipLoss ==
    /\ Exists /\ Unlocked
    /\ domain' = [domain EXCEPT !.ownership = "lost", !.routing = "suspended",
         !.category = IF @ = "" THEN "ownership_loss" ELSE @]
    /\ UNCHANGED <<plan, control, world, checks, inFlight, evals, abuseHold, holder>>

\* setDomainEntitlementControlTx waits only for rows it is to suspend.
SetDomainEntitlementControl ==
    /\ ~control /\ control' = TRUE
    /\ domain.routing \in {"pending", "enabled"} => Unlocked
    /\ domain' = [domain EXCEPT !.routing =
         IF @ \in {"pending", "enabled"} THEN "suspended" ELSE @]
    /\ UNCHANGED <<plan, world, checks, inFlight, evals, abuseHold, holder>>

RestoreDomainEntitlementControl ==
    /\ control /\ ~Unsafe /\ control' = FALSE
    /\ UNCHANGED <<plan, domain, world, checks, inFlight, evals, abuseHold, holder>>

-----------------------------------------------------------------------------
\* internal/trust: the axis is stale while an evaluation is under way, and every
\* evaluation that finishes writes its own verdict.
BeginDomainRiskEvaluation(e) ==
    /\ Exists /\ Unlocked
    /\ evals[e] = "none" /\ \A f \in Evaluation : f < e => evals[f] # "none"
    /\ evals' = [evals EXCEPT ![e] = "started"]
    /\ domain' = [domain EXCEPT !.good["risk"] = FALSE]
    /\ UNCHANGED <<plan, control, world, checks, inFlight, abuseHold, holder>>

ObserveDomainRisk(e) ==
    /\ evals[e] = "started"
    /\ evals' = [evals EXCEPT ![e] = IF world.good["risk"] THEN "saw_allow" ELSE "saw_block"]
    /\ UNCHANGED <<plan, control, domain, world, checks, inFlight, abuseHold, holder>>

FinishDomainRiskEvaluation(e) ==
    /\ evals[e] \in {"saw_allow", "saw_block"} /\ Unlocked
    /\ evals' = [evals EXCEPT ![e] = IF @ = "saw_allow" THEN "allow" ELSE "refused"]
    /\ domain' = [domain EXCEPT !.good["risk"] = evals[e] = "saw_allow"]
    /\ UNCHANGED <<plan, control, world, checks, inFlight, abuseHold, holder>>

\* Only the newest evaluation expires.
ExpireDomainRiskAllow(e) ==
    /\ evals[e] = "allow" /\ Unlocked
    /\ \A f \in Evaluation : f > e => evals[f] = "none"
    /\ evals' = [evals EXCEPT ![e] = "stale"]
    /\ domain' = [domain EXCEPT !.good["risk"] = FALSE]
    /\ UNCHANGED <<plan, control, world, checks, inFlight, abuseHold, holder>>

-----------------------------------------------------------------------------
Checks == Axis \cup {"periodic"}

DomainInit ==
    /\ plan \in {"full", "none"} /\ control = FALSE
    /\ domain = [routing |-> "none", category |-> "", ownership |-> "pending",
                 good |-> [a \in Observed |-> FALSE], version |-> 1, proof |-> 0]
    /\ world = [txt |-> 0, good |-> [a \in Observed |-> TRUE]]
    /\ checks = [k \in Checks |-> NoCheck] /\ inFlight = {}
    /\ evals = [e \in Evaluation |-> "none"]
    /\ abuseHold = FALSE /\ holder = "nobody"

DomainNext ==
    \/ \E p \in {"full", "grace", "none"} : EntitlementChanges(p)
    \/ \E w \in Observation : WorldChanges(w)
    \/ CreateDomain \/ RotateOwnershipSecret
    \/ \E a \in Axis : BeginVerify(a) \/ FinishVerify(a) \/ VerifyFails(a)
    \/ BeginPeriodic \/ FinishPeriodic
    \/ \E op \in {"activate", "restore", "abuse_restore"} : LockForRouting(op)
    \/ \E released \in BOOLEAN : EnableRouting(released)
    \/ \E c \in External : Suspend(c)
    \/ ApplyOwnershipLoss
    \/ SetDomainEntitlementControl \/ RestoreDomainEntitlementControl
    \/ \E e \in Evaluation :
         \/ BeginDomainRiskEvaluation(e) \/ ObserveDomainRisk(e)
         \/ FinishDomainRiskEvaluation(e) \/ ExpireDomainRiskAllow(e)

DomainSpec == DomainInit /\ [][DomainNext]_domainVars

-----------------------------------------------------------------------------
DomainTypeOK ==
    /\ plan \in {"full", "grace", "none"} /\ control \in BOOLEAN /\ abuseHold \in BOOLEAN
    /\ domain \in DomainRow /\ world \in Observation
    /\ checks \in [Checks -> Observation] /\ inFlight \subseteq Checks
    /\ evals \in [Evaluation -> EvaluationState]
    /\ holder \in {"nobody", "activate", "restore", "abuse_restore"}

\* Whatever verifications, rotations, periodic runs and controls do around it, a
\* domain with a security category is suspended: none of them routes it.
SecuritySuspensionHolds == domain.category # "" => domain.routing = "suspended"

\* Ownership counts as verified only for the secret that is current, also when a
\* DNS answer older than the rotation arrives after it.
OwnershipIsCurrent == domain.ownership = "verified" => domain.proof = domain.version

\* A security category ends by the restore of an abuse report with every axis
\* ready, no other category replaces it, and a loss of ownership is final.
SuspensionEndsByRestore ==
    [][domain.category # "" /\ domain'.category # domain.category
         => domain.category = "abuse" /\ domain'.category = "" /\ AllReady /\ abuseHold]_domainVars

\* A verdict of a risk evaluation is given once and later only expires.
VerdictsOnlyExpire ==
    [][\A e \in Evaluation :
         evals[e] \in {"allow", "refused", "stale"} /\ evals'[e] # evals[e]
           => evals[e] = "allow" /\ evals'[e] = "stale"]_domainVars

\* A domain as a whole: suspended while a security category stands, verified for the
\* current secret only, and given back only by the restore of an abuse report.
DomainSafety ==
    /\ [](DomainTypeOK /\ SecuritySuspensionHolds /\ OwnershipIsCurrent)
    /\ SuspensionEndsByRestore /\ VerdictsOnlyExpire
=============================================================================
