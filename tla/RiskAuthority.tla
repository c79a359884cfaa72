--------------------------- MODULE RiskAuthority ---------------------------
(***************************************************************************)
(* Who may say that a short link is safe, and what the redirect engine is  *)
(* told.  The latest decision for the link's present fingerprint, a manual *)
(* override bound to that decision, and an abuse hold, all in MySQL, make  *)
(* the authority; projectors copy it to Redis, where the engine reads it   *)
(* by fingerprint.  A projection is three steps without a common lock.     *)
(* One link; decisions come from RiskDecisions.                            *)
(***************************************************************************)
EXTENDS RiskDecisions, FiniteSetsExt

CONSTANTS
    Report,         \* abuse reports about the link
    Projector,      \* the monitors' loops, and what a restore or a repeated block writes
    MaxOverrides,   \* bound: overrides ever created
    NoReport

ASSUME AuthorityAssumption == MaxOverrides \in Nat /\ NoReport \notin Report

ReportStatus == {"none", "open", "investigating", "resolved", "dismissed"}
ReportRecord == [status : ReportStatus, fp : Fingerprint, blocked : BOOLEAN]
Hold == [active : BOOLEAN, fp : Fingerprint, report : Report \cup {NoReport}]
Override == [base : Nat \ {0}, state : RiskState, live : BOOLEAN]
Runtime == RiskState \cup {"missing"}
ProjectionStep == {"idle", "hold", "put"}
Projection == [at : ProjectionStep, fp : Fingerprint, state : RiskState \cup {"stale"}]

VARIABLES
    linkFp,         \* links.risk_fingerprint
    stale,          \* indices of the allow decisions whose validity is over
    overrides,      \* destination_risk_overrides, oldest first
    report,         \* abuse_reports
    hold,           \* the latest row of abuse_resource_holds for the link
    blocking,       \* the report whose block is in Redis and not yet committed
    runtime,        \* Redis: risk:link:<id>:<fingerprint>
    projection      \* what each projector has read

authorityVars == <<decisions, linkFp, stale, overrides, report, hold, blocking, runtime, projection>>

-----------------------------------------------------------------------------
\* The index of the latest decision for a fingerprint, 0 for none.
Latest(fp) == Max({0} \cup {i \in DOMAIN decisions : decisions[i].fp = fp})

\* Overrides in force on a decision; the youngest counts.
InForce(i) == {k \in DOMAIN overrides : overrides[k].base = i /\ overrides[k].live}

\* CurrentDestinationAuthority: "stale" is an allow past its validity.
Authority(fp) ==
    LET i == Latest(fp) IN
    IF InForce(i) # {} THEN overrides[Max(InForce(i))].state
    ELSE IF i \in stale THEN "stale" ELSE decisions[i].state

Idling(fp) == [at |-> "idle", fp |-> fp, state |-> "stale"]

\* The link's row is locked by whoever reads or writes its fingerprint in a
\* transaction; a block holds it from before it writes Redis until it commits.
LinkIsFree == blocking = NoReport

ReadAuthority(p) ==
    /\ projection[p].at = "idle" /\ LinkIsFree
    /\ Latest(linkFp) # 0
    /\ projection' = [projection EXCEPT ![p] =
                        [at |-> "hold", fp |-> linkFp, state |-> Authority(linkFp)]]
    /\ UNCHANGED <<decisions, linkFp, stale, overrides, report, hold, blocking, runtime>>

\* Bug: a hold on other targets of the link is no hold.
BugHoldOfOtherTargets(p) ==
    LET fp == projection[p].fp IN
    /\ projection[p].at = "hold"
    /\ projection' = [projection EXCEPT ![p] =
         IF hold.active /\ hold.fp = fp THEN [@ EXCEPT !.at = "put", !.state = "block"]
         ELSE IF @.state = "stale" THEN Idling(fp) ELSE [@ EXCEPT !.at = "put"]]
    /\ UNCHANGED <<decisions, linkFp, stale, overrides, report, hold, blocking, runtime>>

\* EffectiveDestinationAuthority reads the hold in a query of its own.
OverlayHold(p) ==
    LET fp == projection[p].fp IN
    /\ projection[p].at = "hold"
    /\ projection' = [projection EXCEPT ![p] =
         IF hold.active
         THEN IF hold.fp = fp THEN [@ EXCEPT !.at = "put", !.state = "block"] ELSE Idling(fp)
         ELSE IF @.state = "stale" THEN Idling(fp) ELSE [@ EXCEPT !.at = "put"]]
    /\ UNCHANGED <<decisions, linkFp, stale, overrides, report, hold, blocking, runtime>>

\* Bug: the entry is written for the link's present targets.
BugPutForPresent(p) ==
    /\ projection[p].at = "put"
    /\ runtime' = [runtime EXCEPT ![linkFp] = projection[p].state]
    /\ projection' = [projection EXCEPT ![p] = Idling(@.fp)]
    /\ UNCHANGED <<decisions, linkFp, stale, overrides, report, hold, blocking>>

PutDecision(p) ==
    /\ projection[p].at = "put"
    /\ runtime' = [runtime EXCEPT ![projection[p].fp] = projection[p].state]
    /\ projection' = [projection EXCEPT ![p] = Idling(@.fp)]
    /\ UNCHANGED <<decisions, linkFp, stale, overrides, report, hold, blocking>>

ProjectionFails(p) ==
    /\ projection[p].at # "idle"
    /\ projection' = [projection EXCEPT ![p] = Idling(@.fp)]
    /\ UNCHANGED <<decisions, linkFp, stale, overrides, report, hold, blocking, runtime>>

-----------------------------------------------------------------------------
CreateDestinationOverride(state) ==
    /\ Len(overrides) < MaxOverrides /\ LinkIsFree
    /\ Latest(linkFp) # 0
    /\ overrides' = Append(overrides, [base |-> Latest(linkFp), state |-> state, live |-> TRUE])
    /\ UNCHANGED <<decisions, linkFp, stale, report, hold, blocking, runtime, projection>>

\* InvalidateDestinationOverride, or its expiry.
EndOverride(k) ==
    /\ overrides[k].live
    /\ overrides' = [overrides EXCEPT ![k].live = FALSE]
    /\ UNCHANGED <<decisions, linkFp, stale, report, hold, blocking, runtime, projection>>

SubmitReport(r) ==
    /\ report[r].status = "none"
    /\ report' = [report EXCEPT ![r] = [status |-> "open", fp |-> linkFp, blocked |-> FALSE]]
    /\ UNCHANGED <<decisions, linkFp, stale, overrides, hold, blocking, runtime, projection>>

TransitionAbuseReport(r, to) ==
    /\ r # blocking
    /\ \/ report[r].status = "open" /\ to \in {"investigating", "dismissed"}
       \/ report[r].status = "investigating" /\ to \in {"resolved", "dismissed"}
    /\ report' = [report EXCEPT ![r].status = to]
    /\ UNCHANGED <<decisions, linkFp, stale, overrides, hold, blocking, runtime, projection>>

Actionable(r) == report[r].status = "investigating" /\ report[r].fp = linkFp /\ LinkIsFree

\* The transaction of a block has inserted its hold, which nobody else sees yet, and
\* the block reaches Redis.
BlockLink(r) ==
    /\ Actionable(r)
    /\ ~hold.active
    /\ runtime' = [runtime EXCEPT ![linkFp] = "block"]
    /\ blocking' = r
    /\ UNCHANGED <<decisions, linkFp, stale, overrides, report, hold, projection>>

CommitBlock ==
    /\ blocking # NoReport
    /\ hold' = [active |-> TRUE, fp |-> linkFp, report |-> blocking]
    /\ report' = [report EXCEPT ![blocking].blocked = TRUE]
    /\ blocking' = NoReport
    /\ UNCHANGED <<decisions, linkFp, stale, overrides, runtime, projection>>

\* A failure on the way to the commit: the block is left in Redis alone.
AbortBlock ==
    /\ blocking # NoReport
    /\ blocking' = NoReport
    /\ UNCHANGED <<decisions, linkFp, stale, overrides, report, hold, runtime, projection>>

\* A repeated block request finds the latest hold active, and puts its block back
\* after the transaction in which it looked.
RepeatBlock(r, p) ==
    /\ report[r].blocked /\ hold.active
    /\ projection[p].at = "idle"
    /\ projection' = [projection EXCEPT ![p] =
                        [at |-> "put", fp |-> hold.fp, state |-> "block"]]
    /\ UNCHANGED <<decisions, linkFp, stale, overrides, report, hold, blocking, runtime>>

\* The projection that follows is one of the projectors.
RestoreLink(r) ==
    /\ Actionable(r)
    /\ hold.active /\ hold.report = r /\ hold.fp = linkFp
    /\ Latest(linkFp) # 0 /\ Authority(linkFp) = "allow"
    /\ hold' = [hold EXCEPT !.active = FALSE]
    /\ UNCHANGED <<decisions, linkFp, stale, overrides, report, blocking, runtime, projection>>

-----------------------------------------------------------------------------
DecisionArrives ==
    /\ DecisionNext
    /\ UNCHANGED <<linkFp, stale, overrides, report, hold, blocking, runtime, projection>>

EditTargets(fp) ==
    /\ fp # linkFp /\ LinkIsFree
    /\ linkFp' = fp
    /\ UNCHANGED <<decisions, stale, overrides, report, hold, blocking, runtime, projection>>

ValidityEnds(i) ==
    /\ decisions[i].state = "allow" /\ i \notin stale
    /\ stale' = stale \cup {i}
    /\ UNCHANGED <<decisions, linkFp, overrides, report, hold, blocking, runtime, projection>>

\* The time to live given with every entry.
EntryExpires(fp) ==
    /\ runtime[fp] # "missing"
    /\ runtime' = [runtime EXCEPT ![fp] = "missing"]
    /\ UNCHANGED <<decisions, linkFp, stale, overrides, report, hold, blocking, projection>>

AuthorityInit ==
    /\ DecisionInit
    /\ linkFp = CHOOSE fp \in Fingerprint : TRUE
    /\ stale = {} /\ overrides = <<>>
    /\ report = [r \in Report |-> [status |-> "none", fp |-> linkFp, blocked |-> FALSE]]
    /\ hold = [active |-> FALSE, fp |-> linkFp, report |-> NoReport]
    /\ blocking = NoReport
    /\ runtime = [fp \in Fingerprint |-> "missing"]
    /\ projection = [p \in Projector |-> Idling(linkFp)]

Project(p) == ReadAuthority(p) \/ OverlayHold(p) \/ PutDecision(p)

AuthorityNext ==
    \/ DecisionArrives
    \/ \E p \in Projector : Project(p) \/ ProjectionFails(p)
    \/ \E st \in RiskState : CreateDestinationOverride(st)
    \/ \E k \in DOMAIN overrides : EndOverride(k)
    \/ \E r \in Report : SubmitReport(r) \/ BlockLink(r) \/ RestoreLink(r)
    \/ CommitBlock \/ AbortBlock
    \/ \E r \in Report, p \in Projector : RepeatBlock(r, p)
    \/ \E r \in Report, to \in ReportStatus : TransitionAbuseReport(r, to)
    \/ \E fp \in Fingerprint : EditTargets(fp) \/ EntryExpires(fp)
    \/ \E i \in DOMAIN decisions : ValidityEnds(i)

AuthoritySpec == AuthorityInit /\ [][AuthorityNext]_authorityVars
\* Every loop goes on projecting, and what it began it ends, one way or another;
\* Redis drops an entry in time.
AuthorityFairness ==
    /\ \A p \in Projector : WF_authorityVars(Project(p))
    /\ \A fp \in Fingerprint : WF_authorityVars(EntryExpires(fp))
FairAuthoritySpec == AuthoritySpec /\ AuthorityFairness

-----------------------------------------------------------------------------
AuthorityTypeOK ==
    /\ decisions \in Seq(RiskDecision)
    /\ linkFp \in Fingerprint
    /\ stale \subseteq DOMAIN decisions
    /\ overrides \in Seq(Override)
    /\ report \in [Report -> ReportRecord]
    /\ hold \in Hold
    /\ blocking \in Report \cup {NoReport}
    /\ runtime \in [Fingerprint -> Runtime]
    /\ projection \in [Projector -> Projection]

\* Someone with the authority to say so allowed exactly these targets: a
\* decision for the fingerprint, or an override on such a decision.
Allowed(fp) ==
    \E i \in DOMAIN decisions :
        /\ decisions[i].fp = fp
        /\ \/ decisions[i].state = "allow"
           \/ \E k \in DOMAIN overrides : overrides[k].base = i /\ overrides[k].state = "allow"

\* Redis never holds an allow, and no projector carries one, for targets that
\* nobody allowed, however edits, overrides, holds and projections interleave.
AllowHasAuthority ==
    /\ \A fp \in Fingerprint : runtime[fp] = "allow" => Allowed(fp)
    /\ \A p \in Projector :
          projection[p].at # "idle" /\ projection[p].state = "allow" => Allowed(projection[p].fp)

\* If from some time on the link is held, an allow is not left in Redis for its
\* present targets: projections in flight end and entries expire.
HeldLinkStaysStopped == <>[]hold.active => <>[](runtime[linkFp] # "allow")

\* If from some time on the authority for the present targets is a refusal, the
\* engine ends up with nothing else than a refusal.
Refused == Latest(linkFp) # 0 /\ Authority(linkFp) \in {"review", "block", "stale"}
RefusalReachesEngine == <>[]Refused => <>[](runtime[linkFp] # "allow")

\* The link is being stopped: its block went to Redis and its hold will commit, or has.
Stopping == blocking # NoReport \/ hold.active
StopFp == IF blocking # NoReport THEN linkFp ELSE hold.fp

\* The projectors that may yet write an allow for the targets of the stop: one that
\* has asked for holds will, one that has not may find none until the commit.
Carriers ==
    {p \in Projector : /\ projection[p].state = "allow" /\ projection[p].fp = StopFp
                       /\ \/ projection[p].at = "put"
                          \/ projection[p].at = "hold" /\ blocking # NoReport}

\* A stop begins with a block in Redis, before its hold commits.  From then on an allow
\* of its targets gets there only from a projector that had read the authority before
\* the block and asked for holds before the commit, each of them once at most, so that
\* the hold may find an allow in place of its block, but no new one sets out.
HoldStopsAllows ==
    [][/\ Stopping' /\ ~Stopping => runtime'[StopFp'] = "block"
       /\ Stopping' /\ Stopping =>
            /\ StopFp' = StopFp
            /\ Carriers' \subseteq Carriers
            /\ runtime[StopFp] # "allow" /\ runtime'[StopFp] = "allow" => Carriers' # Carriers
      ]_authorityVars

\* The authority as a whole: no allow is in Redis, or on its way there, without one,
\* and a hold lets no new one set out.
AuthoritySafety == [](AuthorityTypeOK /\ AllowHasAuthority) /\ HoldStopsAllows

\* A stop reaches the redirect engine, whether the link is held or its targets are refused.
StopsReachEngine == HeldLinkStaysStopped /\ RefusalReachesEngine
=============================================================================
