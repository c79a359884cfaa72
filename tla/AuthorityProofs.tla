--------------------------- MODULE AuthorityProofs ---------------------------
(* Safety of RiskAuthority, proved for every number of scans, projectors,      *)
(* reports and overrides.                                                      *)
EXTENDS RiskAuthority, SequenceTheorems, WellFoundedInduction, TLAPS

(* What Max chooses of a bounded set of numbers. *)
LEMMA MaxIsGreatest ==
    ASSUME NEW n \in Nat, NEW S, S \subseteq 0 .. n, S # {}
    PROVE  Max(S) \in S /\ \A y \in S : y <= Max(S)
  <1> DEFINE T == {n - x : x \in S}
  <1>1. T \subseteq Nat /\ T # {}
    <2>1. \A x \in S : n - x \in Nat
      OBVIOUS
    <2> QED BY <2>1
  <1>2. PICK m \in T : \A y \in T : ~ (<<y, m>> \in OpToRel(<, Nat))
    <2> HIDE DEF T
    <2> QED BY <1>1, NatLessThanWellFounded, WFMin
  <1>3. \A y \in T : ~ (y < m)
    BY <1>1, <1>2 DEF OpToRel
  <1>4. PICK x \in S : m = n - x
    BY <1>2
  <1>5. \A y \in S : x >= y
    <2> TAKE y \in S
    <2>1. n - y \in T
      OBVIOUS
    <2>2. ~ (n - y < n - x)
      BY <1>3, <1>4, <2>1
    <2> QED BY <2>2
  <1> QED BY <1>5 DEF Max

(* What the policy makes of an outcome is a state of the risk. *)
LEMMA JudgeType == \A o \in Outcome : Judge(o) \in RiskState
  BY DEF Judge, RiskState

-----------------------------------------------------------------------------
(* RiskAuthority.  An allow in Redis or on its way there is an allow that a    *)
(* decision or an override gave; the logs of both only grow, so it stays one.  *)

\* A verdict that is out of date is never written.
NothingStaleIsPut == \A p \in Projector : projection[p].at = "put" => projection[p].state # "stale"

\* One hold at a time: a block is not under way while another is in force.
BlockBeforeHold == blocking # NoReport => ~hold.active

AuthorityInv == AuthorityTypeOK /\ AllowHasAuthority /\ NothingStaleIsPut /\ BlockBeforeHold

LEMMA DecisionType ==
    ASSUME AuthorityTypeOK, NEW i \in DOMAIN decisions
    PROVE  decisions[i] \in RiskDecision /\ decisions[i].state \in RiskState
  <1>1. decisions \in Seq(RiskDecision)
    BY DEF AuthorityTypeOK
  <1>2. decisions[i] \in RiskDecision
    BY <1>1
  <1> QED BY <1>2 DEF RiskDecision

LEMMA OverrideType ==
    ASSUME AuthorityTypeOK, NEW k \in DOMAIN overrides
    PROVE  overrides[k] \in Override /\ overrides[k].state \in RiskState
  <1>1. overrides \in Seq(Override)
    BY DEF AuthorityTypeOK
  <1>2. overrides[k] \in Override
    BY <1>1
  <1> QED BY <1>2 DEF Override

LEMMA LatestIs ==
    ASSUME AuthorityTypeOK, NEW fp \in Fingerprint, Latest(fp) # 0
    PROVE  Latest(fp) \in DOMAIN decisions /\ decisions[Latest(fp)].fp = fp
  <1> DEFINE S == {0} \cup {i \in DOMAIN decisions : decisions[i].fp = fp}
  <1>1. Len(decisions) \in Nat /\ DOMAIN decisions = 1 .. Len(decisions)
    BY DEF AuthorityTypeOK
  <1>2. S \subseteq 0 .. Len(decisions) /\ S # {}
    BY <1>1
  <1>3. Max(S) \in S
    <2> HIDE DEF S
    <2> QED BY <1>1, <1>2, MaxIsGreatest
  <1> QED BY <1>3 DEF Latest

(* The authority says allow only where one was given. *)
LEMMA AuthorityIs ==
    ASSUME AuthorityTypeOK, NEW fp \in Fingerprint, Latest(fp) # 0
    PROVE  /\ Authority(fp) \in RiskState \cup {"stale"}
           /\ Authority(fp) = "allow" => Allowed(fp)
  <1> DEFINE i == Latest(fp)  S == InForce(i)
  <1>1. i \in DOMAIN decisions /\ decisions[i].fp = fp
    BY LatestIs
  <1> HIDE DEF i
  <1>2. CASE S # {}
    <2>1. Len(overrides) \in Nat /\ DOMAIN overrides = 1 .. Len(overrides)
      BY DEF AuthorityTypeOK
    <2>2. S \subseteq 0 .. Len(overrides)
      BY <2>1 DEF InForce
    <2>3. Max(S) \in S
      <3> HIDE DEF S
      <3> QED BY <1>2, <2>1, <2>2, MaxIsGreatest
    <2>4. Max(S) \in DOMAIN overrides /\ overrides[Max(S)].base = i
      BY <2>3 DEF InForce
    <2>5. overrides[Max(S)].state \in RiskState
      BY <2>4, OverrideType
    <2>6. Authority(fp) = overrides[Max(S)].state
      BY <1>2 DEF Authority, i
    <2> QED BY <1>1, <2>4, <2>5, <2>6 DEF Allowed
  <1>3. CASE S = {}
    <2>1. Authority(fp) = IF i \in stale THEN "stale" ELSE decisions[i].state
      BY <1>3 DEF Authority, i
    <2>2. decisions[i].state \in RiskState
      BY <1>1, DecisionType
    <2> QED BY <1>1, <2>1, <2>2 DEF Allowed, RiskState
  <1> QED BY <1>2, <1>3

(* The logs: decisions are only added, overrides added or ended. *)
LEMMA DecisionsGrow ==
    ASSUME AuthorityTypeOK, [AuthorityNext]_authorityVars
    PROVE  /\ decisions' \in Seq(RiskDecision)
           /\ \A i \in DOMAIN decisions : i \in DOMAIN decisions' /\ decisions'[i] = decisions[i]
  <1>1. decisions \in Seq(RiskDecision)
    BY DEF AuthorityTypeOK
  <1>2. ASSUME DecisionNext
        PROVE  \E d \in RiskDecision : decisions' = Append(decisions, d)
    <2>1. PICK s \in Scan, fp \in Fingerprint, o \in Outcome : AppendDecision(s, fp, o)
      BY <1>2 DEF DecisionNext, Decide
    <2>2. [scan |-> s, fp |-> fp, outcome |-> o, state |-> Judge(o)] \in RiskDecision
      BY JudgeType DEF RiskDecision
    <2> QED BY <2>1, <2>2 DEF AppendDecision
  <1>3. UNCHANGED decisions \/ DecisionNext
    BY DEF AuthorityNext, authorityVars, DecisionArrives, Project, ReadAuthority, OverlayHold,
           PutDecision, ProjectionFails, CreateDestinationOverride, EndOverride, SubmitReport,
           RepeatBlock, RestoreLink, TransitionAbuseReport, BlockLink, CommitBlock, AbortBlock, EditTargets, EntryExpires,
           ValidityEnds
  <1> QED BY <1>1, <1>2, <1>3

LEMMA OverridesGrow ==
    ASSUME AuthorityTypeOK, [AuthorityNext]_authorityVars
    PROVE  /\ overrides' \in Seq(Override)
           /\ \A k \in DOMAIN overrides :
                 k \in DOMAIN overrides' /\ overrides'[k].base = overrides[k].base
                                         /\ overrides'[k].state = overrides[k].state
  <1>1. overrides \in Seq(Override) /\ linkFp \in Fingerprint
    BY DEF AuthorityTypeOK
  <1>2. ASSUME NEW st \in RiskState, CreateDestinationOverride(st)
        PROVE  \E o \in Override : overrides' = Append(overrides, o)
    <2>1. Latest(linkFp) \in Nat \ {0}
      <3>1. Len(decisions) \in Nat /\ DOMAIN decisions = 1 .. Len(decisions)
        BY DEF AuthorityTypeOK
      <3> QED BY <1>1, <1>2, <3>1, LatestIs DEF CreateDestinationOverride
    <2>2. [base |-> Latest(linkFp), state |-> st, live |-> TRUE] \in Override
      BY <2>1 DEF Override
    <2> QED BY <1>2, <2>2 DEF CreateDestinationOverride
  <1>3. ASSUME NEW k \in DOMAIN overrides, EndOverride(k)
        PROVE  /\ overrides' \in Seq(Override)
               /\ \A j \in DOMAIN overrides :
                     j \in DOMAIN overrides' /\ overrides'[j].base = overrides[j].base
                                             /\ overrides'[j].state = overrides[j].state
    <2> DEFINE o == [overrides[k] EXCEPT !.live = FALSE]
    <2>1. overrides[k] \in Override
      BY OverrideType
    <2>2. o \in Override /\ o.base = overrides[k].base /\ o.state = overrides[k].state
      BY <2>1 DEF Override
    <2>3. overrides' = [overrides EXCEPT ![k] = o]
      BY <1>3 DEF EndOverride
    <2> HIDE DEF o
    <2>4. overrides' \in Seq(Override) /\ DOMAIN overrides' = DOMAIN overrides
      BY <1>1, <2>2, <2>3
    <2> QED BY <1>1, <2>2, <2>3, <2>4
  <1>4. \/ UNCHANGED overrides
        \/ \E st \in RiskState : CreateDestinationOverride(st)
        \/ \E k \in DOMAIN overrides : EndOverride(k)
    BY DEF AuthorityNext, authorityVars, DecisionArrives, Project, ReadAuthority, OverlayHold,
           PutDecision, ProjectionFails, SubmitReport,
           RepeatBlock, RestoreLink, TransitionAbuseReport, BlockLink, CommitBlock, AbortBlock, EditTargets, EntryExpires,
           ValidityEnds
  <1> QED BY <1>1, <1>2, <1>3, <1>4

(* Who was allowed stays so. *)
LEMMA AllowedStays ==
    ASSUME AuthorityTypeOK, [AuthorityNext]_authorityVars
    PROVE  \A fp \in Fingerprint : Allowed(fp) => Allowed(fp)'
  BY DecisionsGrow, OverridesGrow DEF Allowed

\* What a projector may carry and an entry of Redis may say of a set of targets.
Carried(q) ==
    /\ q \in Projection
    /\ q.at # "idle" /\ q.state = "allow" => Allowed(q.fp)
    /\ q.at = "put" => q.state # "stale"
Entry(fp, st) ==
    st \in Runtime /\ (st = "allow" => Allowed(fp))

LEMMA IdlingIsCarried ==
    ASSUME NEW fp \in Fingerprint
    PROVE  Carried(Idling(fp))
  BY DEF Carried, Idling, Projection, ProjectionStep

ProjectorMoves(p) ==
    Project(p) \/ ProjectionFails(p) \/ \E r \in Report : RepeatBlock(r, p)

(* A step of a projector carries and writes what has its authority. *)
LEMMA ProjectStep ==
    ASSUME AuthorityInv, NEW p \in Projector, ProjectorMoves(p)
    PROVE  /\ \E q : projection' = [projection EXCEPT ![p] = q] /\ Carried(q)
           /\ \/ UNCHANGED runtime
              \/ \E fp \in Fingerprint : \E st : runtime' = [runtime EXCEPT ![fp] = st] /\ Entry(fp, st)
  <1> DEFINE old == projection[p]
  <1>1. /\ old \in Projection /\ linkFp \in Fingerprint
        /\ old.at # "idle" /\ old.state = "allow" => Allowed(old.fp)
        /\ old.at = "put" => old.state # "stale"
    BY DEF AuthorityInv, AuthorityTypeOK, AllowHasAuthority, NothingStaleIsPut
  <1>2. old.fp \in Fingerprint /\ old.state \in RiskState \cup {"stale"} /\ Carried(Idling(old.fp))
    BY <1>1, IdlingIsCarried DEF Projection
  <1>3. CASE ReadAuthority(p)
    <2> DEFINE q == [at |-> "hold", fp |-> linkFp, state |-> Authority(linkFp)]
    <2>1. projection' = [projection EXCEPT ![p] = q] /\ Latest(linkFp) # 0 /\ UNCHANGED runtime
      BY <1>3 DEF ReadAuthority
    <2>2. Authority(linkFp) \in RiskState \cup {"stale"} /\ (Authority(linkFp) = "allow" => Allowed(linkFp))
      BY <1>1, <2>1, AuthorityIs DEF AuthorityInv
    <2>3. q \in Projection /\ q.fp = linkFp /\ q.state = Authority(linkFp) /\ q.at = "hold"
      BY <1>1, <2>2 DEF Projection, ProjectionStep
    <2> HIDE DEF q
    <2> QED BY <2>1, <2>2, <2>3 DEF Carried
  <1>4. CASE OverlayHold(p)
    <2> DEFINE block == [old EXCEPT !.at = "put", !.state = "block"]
               put == [old EXCEPT !.at = "put"]
    <2>1. old.at = "hold" /\ UNCHANGED runtime
      BY <1>4 DEF OverlayHold
    <2>2. \/ projection' = [projection EXCEPT ![p] = block]
          \/ projection' = [projection EXCEPT ![p] = Idling(old.fp)]
          \/ old.state # "stale" /\ projection' = [projection EXCEPT ![p] = put]
      BY <1>4 DEF OverlayHold
    <2>3. Carried(block)
      <3>1. block \in Projection /\ block.state = "block"
        BY <1>1 DEF Projection, ProjectionStep, RiskState
      <3> HIDE DEF block
      <3> QED BY <3>1 DEF Carried
    <2>4. old.state # "stale" => Carried(put)
      <3>1. put \in Projection /\ put.state = old.state /\ put.fp = old.fp
        BY <1>1 DEF Projection, ProjectionStep
      <3> HIDE DEF put
      <3> QED BY <1>1, <2>1, <3>1 DEF Carried
    <2> HIDE DEF block, put
    <2> QED BY <1>2, <2>1, <2>2, <2>3, <2>4
  <1>5. CASE PutDecision(p)
    <2>1. /\ old.at = "put" /\ projection' = [projection EXCEPT ![p] = Idling(old.fp)]
          /\ runtime' = [runtime EXCEPT ![old.fp] = old.state]
      BY <1>5 DEF PutDecision
    <2>2. old.state \in Runtime
      BY <1>1, <1>2, <2>1 DEF Runtime
    <2>3. Entry(old.fp, old.state)
      BY <1>1, <2>1, <2>2 DEF Entry
    <2> QED BY <1>2, <2>1, <2>3
  <1>6. CASE ProjectionFails(p)
    BY <1>2, <1>6 DEF ProjectionFails
  <1>7. ASSUME NEW r \in Report, RepeatBlock(r, p)
        PROVE  UNCHANGED runtime /\ \E q : projection' = [projection EXCEPT ![p] = q] /\ Carried(q)
    <2> DEFINE q == [at |-> "put", fp |-> hold.fp, state |-> "block"]
    <2>1. hold.fp \in Fingerprint
      BY DEF AuthorityInv, AuthorityTypeOK, Hold
    <2>2. q \in Projection /\ q.state = "block"
      BY <2>1 DEF Projection, ProjectionStep, RiskState
    <2>3. projection' = [projection EXCEPT ![p] = q] /\ UNCHANGED runtime
      BY <1>7 DEF RepeatBlock
    <2> HIDE DEF q
    <2> QED BY <2>2, <2>3 DEF Carried
  <1> QED BY <1>3, <1>4, <1>5, <1>6, <1>7 DEF Project, ProjectorMoves

(* Who writes to Redis, or has something to write. *)
LEMMA RuntimeWriters ==
    ASSUME [AuthorityNext]_authorityVars
    PROVE  \/ UNCHANGED <<projection, runtime>>
           \/ \E p \in Projector : ProjectorMoves(p)
           \/ \E r \in Report : BlockLink(r)
           \/ \E fp \in Fingerprint : EntryExpires(fp)
  BY DEF AuthorityNext, authorityVars, DecisionArrives, CreateDestinationOverride, EndOverride,
         SubmitReport, RestoreLink, TransitionAbuseReport, CommitBlock, AbortBlock, EditTargets,
         ValidityEnds, ProjectorMoves

LEMMA EntryStep ==
    ASSUME AuthorityInv, [AuthorityNext]_authorityVars
    PROVE  /\ \/ UNCHANGED projection
              \/ \E p \in Projector : \E q : projection' = [projection EXCEPT ![p] = q] /\ Carried(q)
           /\ \/ UNCHANGED runtime
              \/ \E fp \in Fingerprint : \E st : runtime' = [runtime EXCEPT ![fp] = st] /\ Entry(fp, st)
  <1>1. linkFp \in Fingerprint
    BY DEF AuthorityInv, AuthorityTypeOK
  <1>2. \A fp \in Fingerprint : Entry(fp, "block") /\ Entry(fp, "missing")
    BY DEF Entry, Runtime, RiskState
  <1>3. ASSUME NEW p \in Projector, ProjectorMoves(p)
        PROVE  /\ \E q : projection' = [projection EXCEPT ![p] = q] /\ Carried(q)
               /\ \/ UNCHANGED runtime
                  \/ \E fp \in Fingerprint : \E st : runtime' = [runtime EXCEPT ![fp] = st] /\ Entry(fp, st)
    BY <1>3, ProjectStep
  <1>4. CASE (\E r \in Report : BlockLink(r)) \/ \E fp \in Fingerprint : EntryExpires(fp)
    <2>1. UNCHANGED projection
      BY <1>4 DEF BlockLink, EntryExpires
    <2>2. \E fp \in Fingerprint : \/ runtime' = [runtime EXCEPT ![fp] = "block"]
                                  \/ runtime' = [runtime EXCEPT ![fp] = "missing"]
      BY <1>1, <1>4 DEF BlockLink, EntryExpires
    <2> QED BY <1>2, <2>1, <2>2
  <1>5. CASE UNCHANGED <<projection, runtime>>
    BY <1>5
  <1> QED BY <1>3, <1>4, <1>5, RuntimeWriters

(* The link, its reports and its hold. *)
ReportsTypeOK ==
    /\ linkFp \in Fingerprint
    /\ report \in [Report -> ReportRecord]
    /\ hold \in Hold
    /\ blocking \in Report \cup {NoReport}

LEMMA ReportStep ==
    ASSUME AuthorityTypeOK, [AuthorityNext]_authorityVars
    PROVE  ReportsTypeOK'
  <1>1. ReportsTypeOK
    BY DEF AuthorityTypeOK, ReportsTypeOK
  <1>2. ASSUME NEW r \in Report,
               SubmitReport(r) \/ (\E to \in ReportStatus : TransitionAbuseReport(r, to))
        PROVE  ReportsTypeOK'
    <2>1. report[r] \in ReportRecord /\ UNCHANGED <<linkFp, hold, blocking>>
      BY <1>1, <1>2 DEF ReportsTypeOK, SubmitReport, TransitionAbuseReport
    <2>2. CASE SubmitReport(r)
      <3>1. [status |-> "open", fp |-> linkFp, blocked |-> FALSE] \in ReportRecord
        BY <1>1 DEF ReportRecord, ReportStatus, ReportsTypeOK
      <3> QED BY <1>1, <2>1, <2>2, <3>1 DEF SubmitReport, ReportsTypeOK
    <2>3. ASSUME NEW to \in ReportStatus, TransitionAbuseReport(r, to)
          PROVE  report' \in [Report -> ReportRecord]
      <3>1. [report[r] EXCEPT !.status = to] \in ReportRecord
        BY <2>1 DEF ReportRecord
      <3>2. report' = [report EXCEPT ![r] = [report[r] EXCEPT !.status = to]]
        BY <2>3 DEF TransitionAbuseReport
      <3> QED BY <1>1, <3>1, <3>2 DEF ReportsTypeOK
    <2> QED BY <1>1, <1>2, <2>1, <2>2, <2>3 DEF ReportsTypeOK
  <1>3. CASE CommitBlock
    <2>1. blocking \in Report
      BY <1>1, <1>3 DEF CommitBlock, ReportsTypeOK
    <2>2. [report[blocking] EXCEPT !.blocked = TRUE] \in ReportRecord
      BY <1>1, <2>1 DEF ReportRecord, ReportsTypeOK
    <2>3. [active |-> TRUE, fp |-> linkFp, report |-> blocking] \in Hold
      BY <1>1, <2>1 DEF Hold, ReportsTypeOK
    <2>4. report' = [report EXCEPT ![blocking] = [report[blocking] EXCEPT !.blocked = TRUE]]
      BY <1>3 DEF CommitBlock
    <2> QED BY <1>1, <1>3, <2>1, <2>2, <2>3, <2>4 DEF CommitBlock, ReportsTypeOK
  <1>4. ASSUME NEW r \in Report, RestoreLink(r)
        PROVE  ReportsTypeOK'
    <2>1. [hold EXCEPT !.active = FALSE] \in Hold
      BY <1>1 DEF Hold, ReportsTypeOK
    <2> QED BY <1>1, <1>4, <2>1 DEF RestoreLink, ReportsTypeOK
  <1>5. ASSUME NEW fp \in Fingerprint, EditTargets(fp)
        PROVE  ReportsTypeOK'
    BY <1>1, <1>5 DEF EditTargets, ReportsTypeOK
  <1>6. ASSUME NEW r \in Report, BlockLink(r)
        PROVE  ReportsTypeOK'
    BY <1>1, <1>6 DEF BlockLink, ReportsTypeOK
  <1>7. CASE AbortBlock \/ UNCHANGED <<linkFp, report, hold, blocking>>
    BY <1>1, <1>7 DEF AbortBlock, ReportsTypeOK
  <1>8. \/ UNCHANGED <<linkFp, report, hold, blocking>>
        \/ CommitBlock \/ AbortBlock
        \/ \E r \in Report : SubmitReport(r) \/ RestoreLink(r) \/ BlockLink(r)
        \/ \E r \in Report, to \in ReportStatus : TransitionAbuseReport(r, to)
        \/ \E fp \in Fingerprint : EditTargets(fp)
    BY DEF AuthorityNext, authorityVars, DecisionArrives, CreateDestinationOverride, EndOverride,
           Project, ReadAuthority, OverlayHold, PutDecision, ProjectionFails,
           RepeatBlock, EntryExpires, ValidityEnds
  <1> QED BY <1>2, <1>3, <1>4, <1>5, <1>6, <1>7, <1>8

(* A block is begun where no hold is in force, and keeps others from the link. *)
LEMMA BlockStep ==
    ASSUME AuthorityInv, [AuthorityNext]_authorityVars
    PROVE  BlockBeforeHold'
  <1>1. BlockBeforeHold /\ hold \in Hold
    BY DEF AuthorityInv, AuthorityTypeOK
  <1>2. CASE \E r \in Report : BlockLink(r) \/ RestoreLink(r)
    BY <1>1, <1>2 DEF BlockLink, RestoreLink, BlockBeforeHold, Hold
  <1>3. CASE CommitBlock \/ AbortBlock \/ UNCHANGED <<hold, blocking>>
    BY <1>1, <1>3 DEF CommitBlock, AbortBlock, BlockBeforeHold
  <1>4. \/ UNCHANGED <<hold, blocking>> \/ CommitBlock \/ AbortBlock
        \/ \E r \in Report : BlockLink(r) \/ RestoreLink(r)
    BY DEF AuthorityNext, authorityVars, DecisionArrives, Project, ReadAuthority, OverlayHold,
           PutDecision, ProjectionFails, CreateDestinationOverride, EndOverride, SubmitReport,
           RepeatBlock, TransitionAbuseReport, EditTargets, EntryExpires, ValidityEnds
  <1> QED BY <1>2, <1>3, <1>4

LEMMA AuthorityInvStep ==
    ASSUME AuthorityInv, [AuthorityNext]_authorityVars
    PROVE  AuthorityInv'
  <1>1. /\ runtime \in [Fingerprint -> Runtime] /\ projection \in [Projector -> Projection]
        /\ \A fp \in Fingerprint : Entry(fp, runtime[fp])
        /\ \A p \in Projector : Carried(projection[p])
    BY DEF AuthorityInv, AuthorityTypeOK, AllowHasAuthority, NothingStaleIsPut, Entry, Carried
  <1>2. /\ runtime' \in [Fingerprint -> Runtime]
        /\ \A fp \in Fingerprint : Entry(fp, runtime'[fp])
    <2>1. ASSUME NEW fp \in Fingerprint, NEW st, runtime' = [runtime EXCEPT ![fp] = st], Entry(fp, st)
          PROVE  runtime' \in [Fingerprint -> Runtime] /\ \A x \in Fingerprint : Entry(x, runtime'[x])
      <3>1. st \in Runtime
        BY <2>1 DEF Entry
      <3> QED BY <1>1, <2>1, <3>1
    <2> QED BY <1>1, <2>1, EntryStep
  <1>3. /\ projection' \in [Projector -> Projection]
        /\ \A p \in Projector : Carried(projection'[p])
    <2>1. ASSUME NEW p \in Projector, NEW q, projection' = [projection EXCEPT ![p] = q], Carried(q)
          PROVE  projection' \in [Projector -> Projection] /\ \A x \in Projector : Carried(projection'[x])
      <3>1. q \in Projection
        BY <2>1 DEF Carried
      <3> QED BY <1>1, <2>1, <3>1
    <2> QED BY <1>1, <2>1, EntryStep
  <1>4. \A fp \in Fingerprint : Allowed(fp) => Allowed(fp)'
    BY AllowedStays DEF AuthorityInv
  <1>5. AllowHasAuthority'
    <2>1. \A fp \in Fingerprint : runtime'[fp] = "allow" => Allowed(fp)'
      BY <1>2, <1>4 DEF Entry
    <2>2. \A p \in Projector : projection'[p].fp \in Fingerprint
      BY <1>3 DEF Projection
    <2>3. \A p \in Projector :
            projection'[p].at # "idle" /\ projection'[p].state = "allow" => Allowed(projection[p].fp)'
      <3> TAKE p \in Projector
      <3> DEFINE q == projection'[p]
      <3>1. Allowed(q.fp) => Allowed(projection[p].fp)'
        BY <1>4, <2>2, DecisionsGrow, OverridesGrow DEF Allowed, AuthorityInv
      <3> QED BY <1>3, <3>1 DEF Carried
    <2> QED BY <2>1, <2>3 DEF AllowHasAuthority
  <1>6. NothingStaleIsPut'
    BY <1>3 DEF NothingStaleIsPut, Carried
  <1>7. stale' \subseteq DOMAIN decisions'
    <2>1. stale \subseteq DOMAIN decisions
      BY DEF AuthorityInv, AuthorityTypeOK
    <2>2. \A i \in stale' : i \in DOMAIN decisions
      BY <2>1 DEF AuthorityNext, authorityVars, DecisionArrives, CreateDestinationOverride, EndOverride,
           Project, ReadAuthority, OverlayHold, PutDecision, ProjectionFails, RepeatBlock, RestoreLink,
           SubmitReport, TransitionAbuseReport, BlockLink, CommitBlock, AbortBlock, EditTargets, EntryExpires, ValidityEnds
    <2> QED BY <2>2, DecisionsGrow DEF AuthorityInv
  <1>8. AuthorityTypeOK'
    BY <1>2, <1>3, <1>7, DecisionsGrow, OverridesGrow, ReportStep DEF AuthorityInv, AuthorityTypeOK, ReportsTypeOK
  <1> QED BY <1>5, <1>6, <1>8, BlockStep DEF AuthorityInv

LEMMA AuthorityInvInit == AuthorityInit => AuthorityInv
  <1> SUFFICES ASSUME AuthorityInit PROVE AuthorityInv
    OBVIOUS
  <1>1. linkFp \in Fingerprint
    BY PolicyAssumption DEF AuthorityInit
  <1>2. Idling(linkFp) \in Projection
    BY <1>1 DEF Idling, Projection, ProjectionStep
  <1>3. AuthorityTypeOK
    <2>1. decisions = <<>> /\ stale = {} /\ overrides = <<>>
      BY DEF AuthorityInit, DecisionInit
    <2>2. report \in [Report -> ReportRecord] /\ hold \in Hold /\ blocking = NoReport
      BY <1>1 DEF AuthorityInit, ReportRecord, ReportStatus, Hold
    <2>3. runtime \in [Fingerprint -> Runtime] /\ projection \in [Projector -> Projection]
      BY <1>2 DEF AuthorityInit, Runtime
    <2> QED BY <1>1, <2>1, <2>2, <2>3 DEF AuthorityTypeOK
  <1>4. AllowHasAuthority /\ NothingStaleIsPut /\ BlockBeforeHold
    BY DEF AuthorityInit, AllowHasAuthority, NothingStaleIsPut, BlockBeforeHold, Idling
  <1> QED BY <1>3, <1>4 DEF AuthorityInv

-----------------------------------------------------------------------------
(* Stops.                                                                      *)

\* q carries an allow of fp, when the block under way is of report b.
CarriesFor(q, fp, b) ==
    /\ q.state = "allow" /\ q.fp = fp
    /\ q.at = "put" \/ (q.at = "hold" /\ b # NoReport)

(* A stop goes on about the same targets, and its commit is not undone. *)
LEMMA StopStays ==
    ASSUME AuthorityInv, [AuthorityNext]_authorityVars, Stopping, Stopping'
    PROVE  StopFp' = StopFp /\ (blocking' # NoReport => blocking # NoReport)
  <1>1. hold \in Hold /\ (blocking # NoReport => ~hold.active)
    BY DEF AuthorityInv, AuthorityTypeOK, BlockBeforeHold
  <1>2. ASSUME NEW r \in Report, RestoreLink(r) PROVE FALSE
    <2>1. hold'.active = FALSE /\ blocking' = NoReport
      BY <1>1, <1>2 DEF RestoreLink, Actionable, LinkIsFree, Hold
    <2> QED BY <2>1 DEF Stopping
  <1>3. ASSUME NEW r \in Report, BlockLink(r) PROVE FALSE
    BY <1>3 DEF BlockLink, Actionable, LinkIsFree, Stopping
  <1>4. CASE AbortBlock
    BY <1>1, <1>4 DEF AbortBlock, Stopping
  <1>5. CASE CommitBlock
    <2>1. hold'.fp = linkFp /\ blocking # NoReport /\ blocking' = NoReport
      BY <1>5 DEF CommitBlock
    <2> QED BY <2>1 DEF StopFp
  <1>6. ASSUME NEW fp \in Fingerprint, EditTargets(fp)
        PROVE  StopFp' = StopFp /\ (blocking' # NoReport => blocking # NoReport)
    BY <1>6 DEF EditTargets, LinkIsFree, StopFp
  <1>7. CASE UNCHANGED <<linkFp, hold, blocking>>
    BY <1>7 DEF StopFp
  <1>8. \/ UNCHANGED <<linkFp, hold, blocking>> \/ CommitBlock \/ AbortBlock
        \/ \E r \in Report : BlockLink(r) \/ RestoreLink(r)
        \/ \E fp \in Fingerprint : EditTargets(fp)
    BY DEF AuthorityNext, authorityVars, DecisionArrives, Project, ReadAuthority, OverlayHold,
           PutDecision, ProjectionFails, CreateDestinationOverride, EndOverride, SubmitReport,
           RepeatBlock, TransitionAbuseReport, EntryExpires, ValidityEnds
  <1> QED BY <1>2, <1>3, <1>4, <1>5, <1>6, <1>7, <1>8

(* A projector that writes sets nobody's allow free but its own, and takes up none *)
(* of the targets of a stop unless it had it.                                      *)
LEMMA CarrierStep ==
    ASSUME AuthorityInv, Stopping, NEW p \in Projector, ProjectorMoves(p)
    PROVE  \E q : /\ projection' = [projection EXCEPT ![p] = q]
                  /\ CarriesFor(q, StopFp, blocking) => CarriesFor(projection[p], StopFp, blocking)
                  /\ \/ UNCHANGED runtime
                     \/ /\ runtime' = [runtime EXCEPT ![projection[p].fp] = projection[p].state]
                        /\ projection[p].at = "put"
                        /\ ~CarriesFor(q, StopFp, blocking)
  <1> DEFINE old == projection[p]
             block == [old EXCEPT !.at = "put", !.state = "block"]
             put == [old EXCEPT !.at = "put"]
             read == [at |-> "hold", fp |-> linkFp, state |-> Authority(linkFp)]
             again == [at |-> "put", fp |-> hold.fp, state |-> "block"]
  <1>1. old \in Projection
    BY DEF AuthorityInv, AuthorityTypeOK
  <1>2. /\ block.state = "block" /\ again.state = "block" /\ read.at = "hold" /\ Idling(old.fp).at = "idle"
        /\ put.state = old.state /\ put.fp = old.fp
    BY <1>1 DEF Projection, Idling
  <1>3. /\ ~CarriesFor(block, StopFp, blocking) /\ ~CarriesFor(again, StopFp, blocking)
        /\ ~CarriesFor(Idling(old.fp), StopFp, blocking)
        /\ blocking = NoReport => ~CarriesFor(read, StopFp, blocking)
        /\ blocking # NoReport /\ old.at = "hold" => (CarriesFor(put, StopFp, blocking) => CarriesFor(old, StopFp, blocking))
    <2> HIDE DEF block, read, put, again
    <2> QED BY <1>2 DEF CarriesFor
  <1>4. CASE ReadAuthority(p)
    <2>1. projection' = [projection EXCEPT ![p] = read] /\ UNCHANGED runtime /\ blocking = NoReport
      BY <1>4 DEF ReadAuthority, LinkIsFree
    <2> HIDE DEF read
    <2> QED BY <1>3, <2>1
  <1>5. CASE OverlayHold(p)
    <2>1. UNCHANGED runtime /\ old.at = "hold"
          /\ \/ projection' = [projection EXCEPT ![p] = block]
             \/ projection' = [projection EXCEPT ![p] = Idling(old.fp)]
             \/ ~hold.active /\ projection' = [projection EXCEPT ![p] = put]
      BY <1>5 DEF OverlayHold
    <2>2. ~hold.active => blocking # NoReport
      BY DEF Stopping
    <2> HIDE DEF block, put
    <2> QED BY <1>3, <2>1, <2>2
  <1>6. CASE PutDecision(p)
    <2>1. /\ projection' = [projection EXCEPT ![p] = Idling(old.fp)] /\ old.at = "put"
          /\ runtime' = [runtime EXCEPT ![old.fp] = old.state]
      BY <1>6 DEF PutDecision
    <2> QED BY <1>3, <2>1
  <1>7. CASE ProjectionFails(p)
    <2>1. projection' = [projection EXCEPT ![p] = Idling(old.fp)] /\ UNCHANGED runtime
      BY <1>7 DEF ProjectionFails
    <2> QED BY <1>3, <2>1
  <1>8. ASSUME NEW r \in Report, RepeatBlock(r, p)
        PROVE  projection' = [projection EXCEPT ![p] = again] /\ UNCHANGED runtime
    BY <1>8 DEF RepeatBlock
  <1>9. CASE \E r \in Report : RepeatBlock(r, p)
    <2> HIDE DEF again
    <2> QED BY <1>3, <1>8, <1>9
  <1> QED BY <1>4, <1>5, <1>6, <1>7, <1>9 DEF Project, ProjectorMoves

(* Nobody sets out with an allow under a stop. *)
LEMMA StopStep ==
    ASSUME AuthorityInv, [AuthorityNext]_authorityVars, Stopping, Stopping'
    PROVE  /\ StopFp' = StopFp
           /\ Carriers' \subseteq Carriers
           /\ runtime[StopFp] # "allow" /\ runtime'[StopFp] = "allow" => Carriers' # Carriers
  <1> DEFINE fp == StopFp
  <1>1. /\ hold \in Hold /\ linkFp \in Fingerprint
        /\ runtime \in [Fingerprint -> Runtime] /\ projection \in [Projector -> Projection]
    BY DEF AuthorityInv, AuthorityTypeOK
  <1>2. fp \in Fingerprint
    BY <1>1 DEF Hold, StopFp
  <1>3. StopFp' = fp /\ (blocking' # NoReport => blocking # NoReport)
    BY StopStays
  <1> HIDE DEF fp
  <1>4. /\ Carriers = {p \in Projector : CarriesFor(projection[p], fp, blocking)}
        /\ Carriers' \subseteq {p \in Projector : CarriesFor(projection'[p], fp, blocking)}
    BY <1>3 DEF Carriers, CarriesFor, fp
  <1>5. ASSUME UNCHANGED projection,
               runtime' = runtime \/ \E x, st : runtime' = [runtime EXCEPT ![x] = st] /\ st # "allow"
        PROVE  Carriers' \subseteq Carriers /\ (runtime[fp] # "allow" => runtime'[fp] # "allow")
    BY <1>1, <1>2, <1>4, <1>5
  <1>6. ASSUME NEW p \in Projector, NEW q, projection' = [projection EXCEPT ![p] = q],
               CarriesFor(q, fp, blocking) => CarriesFor(projection[p], fp, blocking),
               \/ UNCHANGED runtime
               \/ /\ runtime' = [runtime EXCEPT ![projection[p].fp] = projection[p].state]
                  /\ projection[p].at = "put" /\ ~CarriesFor(q, fp, blocking)
        PROVE  /\ Carriers' \subseteq Carriers
               /\ runtime[fp] # "allow" /\ runtime'[fp] = "allow" => Carriers' # Carriers
    <2>1. projection'[p] = q /\ \A x \in Projector : x # p => projection'[x] = projection[x]
      BY <1>1, <1>6
    <2>2. Carriers' \subseteq Carriers
      BY <1>4, <1>6, <2>1
    <2>3. ASSUME runtime[fp] # "allow", runtime'[fp] = "allow"
          PROVE  p \in Carriers /\ p \notin Carriers'
      <3>1. projection[p].fp \in Fingerprint
        BY <1>1 DEF Projection
      <3>2. projection[p].fp = fp /\ projection[p].state = "allow" /\ projection[p].at = "put"
        BY <1>1, <1>2, <1>6, <2>3, <3>1
      <3>3. ~CarriesFor(q, fp, blocking)
        BY <1>6, <2>3
      <3> QED BY <1>4, <2>1, <3>2, <3>3 DEF CarriesFor
    <2> QED BY <2>2, <2>3
  <1>7. ASSUME NEW p \in Projector, ProjectorMoves(p)
        PROVE  /\ Carriers' \subseteq Carriers
               /\ runtime[fp] # "allow" /\ runtime'[fp] = "allow" => Carriers' # Carriers
    <2>1. \E q : /\ projection' = [projection EXCEPT ![p] = q]
                 /\ CarriesFor(q, StopFp, blocking) => CarriesFor(projection[p], StopFp, blocking)
                 /\ \/ UNCHANGED runtime
                    \/ /\ runtime' = [runtime EXCEPT ![projection[p].fp] = projection[p].state]
                       /\ projection[p].at = "put"
                       /\ ~CarriesFor(q, StopFp, blocking)
      BY <1>7, CarrierStep
    <2> QED BY <1>6, <2>1 DEF fp
  <1>8. CASE (\E r \in Report : BlockLink(r)) \/ \E x \in Fingerprint : EntryExpires(x)
    <2>1. "block" # "allow" /\ "missing" # "allow"
      OBVIOUS
    <2>2. UNCHANGED projection /\ \E x : \/ runtime' = [runtime EXCEPT ![x] = "block"]
                                         \/ runtime' = [runtime EXCEPT ![x] = "missing"]
      BY <1>8 DEF BlockLink, EntryExpires
    <2>3. \E x, st : runtime' = [runtime EXCEPT ![x] = st] /\ st # "allow"
      BY <2>1, <2>2
    <2> QED BY <1>3, <1>5, <2>2, <2>3 DEF fp
  <1>9. CASE UNCHANGED <<projection, runtime>>
    BY <1>3, <1>5, <1>9 DEF fp
  <1> QED BY <1>3, <1>7, <1>8, <1>9, RuntimeWriters DEF fp

(* A stop begins with the block it puts into Redis. *)
LEMMA StopBegins ==
    ASSUME AuthorityInv, [AuthorityNext]_authorityVars, ~Stopping, Stopping'
    PROVE  runtime'[StopFp'] = "block"
  <1>1. hold \in Hold /\ linkFp \in Fingerprint /\ runtime \in [Fingerprint -> Runtime]
    BY DEF AuthorityInv, AuthorityTypeOK
  <1>2. \E r \in Report : BlockLink(r)
    <2>1. ASSUME NEW r \in Report, RestoreLink(r) PROVE FALSE
      BY <2>1 DEF RestoreLink, Stopping
    <2>2. ~CommitBlock /\ ~AbortBlock
      BY DEF CommitBlock, AbortBlock, Stopping
    <2>3. ~UNCHANGED <<hold, blocking>>
      BY DEF Stopping
    <2> QED BY <2>1, <2>2, <2>3 DEF AuthorityNext, authorityVars, DecisionArrives, Project, ReadAuthority,
           OverlayHold, PutDecision, ProjectionFails, CreateDestinationOverride, EndOverride, SubmitReport,
           RepeatBlock, TransitionAbuseReport, EditTargets, EntryExpires, ValidityEnds
  <1>3. PICK r \in Report : /\ blocking' = r /\ linkFp' = linkFp
                            /\ runtime' = [runtime EXCEPT ![linkFp] = "block"]
    BY <1>2 DEF BlockLink
  <1>4. StopFp' = linkFp
    BY <1>3, AuthorityAssumption DEF StopFp
  <1> QED BY <1>1, <1>3, <1>4

(* The inductive invariant of the authority. *)
THEOREM AuthorityInvariance == AuthoritySpec => []AuthorityInv
  BY AuthorityInvInit, AuthorityInvStep, PTL DEF AuthoritySpec

(* No interleaving of edits, decisions, overrides, holds and projections puts an  *)
(* allow into Redis, or on its way there, for targets that nobody allowed; and    *)
(* once a block is in Redis only projections that had read before it may write an *)
(* allow of its targets, each once, until the hold is over.                       *)
THEOREM AuthorityIsSafe == AuthoritySpec => AuthoritySafety
  <1>1. AuthorityInv => AuthorityTypeOK /\ AllowHasAuthority
    BY DEF AuthorityInv
  <1>2. AuthorityInv /\ [AuthorityNext]_authorityVars
          => [/\ Stopping' /\ ~Stopping => runtime'[StopFp'] = "block"
              /\ Stopping' /\ Stopping =>
                   /\ StopFp' = StopFp
                   /\ Carriers' \subseteq Carriers
                   /\ runtime[StopFp] # "allow" /\ runtime'[StopFp] = "allow" => Carriers' # Carriers
             ]_authorityVars
    BY StopStep, StopBegins
  <1> QED BY <1>1, <1>2, AuthorityInvariance, PTL DEF AuthoritySpec, AuthoritySafety, HoldStopsAllows
==============================================================================
