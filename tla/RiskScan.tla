------------------------------ MODULE RiskScan ------------------------------
(***************************************************************************)
(* Destination scans: the MySQL queue of internal/trust, the leases of the *)
(* operations monitors that work on it, the provider's observation and the *)
(* decision made of it.  A monitor is a small program, one action per      *)
(* transaction; its lease may end while it waits for the provider, and it  *)
(* may stop anywhere.                                                      *)
(***************************************************************************)
EXTENDS RiskPolicy

CONSTANTS
    Monitor,        \* operationsmonitor processes (their worker ids)
    MaxAttempts,    \* max_attempts of a scan
    NoScan, NoOutcome, Nobody

ASSUME ScanAssumption ==
    /\ MaxAttempts \in Nat \ {0}
    /\ NoScan \notin Scan /\ NoOutcome \notin Outcome /\ Nobody \notin Monitor

ScanStatus == {"none", "queued", "leased", "retry", "completed", "failed"}
Over == {"completed", "failed"}
ScanRow == [status : ScanStatus, fp : Fingerprint, attempts : 0 .. MaxAttempts,
            owner : Monitor \cup {Nobody}, expired : BOOLEAN]
MonitorStep == {"idle", "leased", "asking", "deciding"}
MonitorRecord == [at : MonitorStep, scan : Scan \cup {NoScan}]

VARIABLES
    verdicts,   \* destination_risk_verdicts, oldest first
    scans,      \* destination_risk_scans
    observed,   \* destination_risk_provider_observations, one provider
    monitor     \* what each monitor is doing

scanVars == <<verdicts, scans, observed, monitor>>

Log == INSTANCE RiskDecisions WITH decisions <- verdicts
HasVerdict(s) == Log!Decided(s)

NoRow == [status |-> "none", fp |-> CHOOSE fp \in Fingerprint : TRUE, attempts |-> 0,
          owner |-> Nobody, expired |-> FALSE]
IdleMonitor == [at |-> "idle", scan |-> NoScan]
Step(w, at) == monitor' = [monitor EXCEPT ![w].at = at]
Stop(w) == monitor' = [monitor EXCEPT ![w] = IdleMonitor]

-----------------------------------------------------------------------------
\* A link with this fingerprint exists when the scan is enqueued; it may change
\* before the scan runs.
EnqueueDestinationScan(s, fp) ==
    /\ scans[s].status = "none"
    /\ scans' = [scans EXCEPT ![s] = [status |-> "queued", fp |-> fp, attempts |-> 0,
                                      owner |-> Nobody, expired |-> FALSE]]
    /\ UNCHANGED <<verdicts, observed, monitor>>

Lapsed(s) == scans[s].status = "leased" /\ scans[s].expired

\* Bug: a lease that ended is only noticed on the last attempt.
BugLeaseNeverRecovered(s) ==
    scans[s].status \in {"queued", "retry"} /\ scans[s].attempts < MaxAttempts

Leasable(s) ==
    \/ scans[s].status \in {"queued", "retry"} /\ scans[s].attempts < MaxAttempts
    \/ Lapsed(s) /\ scans[s].attempts < MaxAttempts

LeaseDestinationScan(w, s) ==
    /\ monitor[w].at = "idle"
    /\ Leasable(s)
    /\ scans' = [scans EXCEPT ![s].status = "leased", ![s].owner = w,
                              ![s].attempts = @ + 1, ![s].expired = FALSE]
    /\ monitor' = [monitor EXCEPT ![w] = [at |-> "leased", scan |-> s]]
    /\ UNCHANGED <<verdicts, observed>>

\* A lease that ended on the last attempt.
ExhaustLease(w, s) ==
    /\ monitor[w].at = "idle"
    /\ Lapsed(s) /\ scans[s].attempts >= MaxAttempts
    /\ scans' = [scans EXCEPT ![s] = [@ EXCEPT !.status = "failed", !.owner = Nobody,
                                               !.expired = FALSE]]
    /\ UNCHANGED <<verdicts, observed, monitor>>

\* Process looks for an observation of an earlier attempt before it asks.
FindObservation(w) ==
    /\ monitor[w].at = "leased"
    /\ Step(w, IF observed[monitor[w].scan] = NoOutcome THEN "asking" ELSE "deciding")
    /\ UNCHANGED <<verdicts, scans, observed>>

\* Refused when the scan is over or has another answer: GiveUp follows.
RecordProviderObservation(w, o) ==
    LET s == monitor[w].scan IN
    /\ monitor[w].at = "asking"
    /\ scans[s].status \notin Over
    /\ observed[s] \in {NoOutcome, o}
    /\ observed' = [observed EXCEPT ![s] = o]
    /\ Step(w, "deciding")
    /\ UNCHANGED <<verdicts, scans>>

\* Neither the lease nor its owner is looked at: a late monitor decides as well,
\* and a decision may come after the scan has failed.
FinalizeDestinationDecision(w) ==
    LET s == monitor[w].scan IN
    /\ monitor[w].at = "deciding"
    /\ IF HasVerdict(s)
       THEN UNCHANGED <<verdicts, scans>>
       ELSE /\ Log!AppendDecision(s, scans[s].fp, observed[s])
            /\ scans' = [scans EXCEPT ![s] =
                 IF @.status \in Over THEN @
                 ELSE [@ EXCEPT !.status = "completed", !.owner = Nobody, !.expired = FALSE]]
    /\ Stop(w)
    /\ UNCHANGED observed

\* Bug: the owner of the lease is not compared.
BugReleaseOfAnother(w, s) ==
    IF scans[s].status = "leased"
    THEN scans' = [scans EXCEPT ![s] = [@ EXCEPT
           !.status = IF scans[s].attempts >= MaxAttempts THEN "failed" ELSE "retry",
           !.owner = Nobody, !.expired = FALSE]]
    ELSE UNCHANGED scans

ReleaseDestinationScanForRetry(w, s) ==
    IF scans[s].status = "leased" /\ scans[s].owner = w
    THEN scans' = [scans EXCEPT ![s] = [@ EXCEPT
           !.status = IF scans[s].attempts >= MaxAttempts THEN "failed" ELSE "retry",
           !.owner = Nobody, !.expired = FALSE]]
    ELSE UNCHANGED scans

\* Any error of Process: the provider, a refused write, a timeout.
GiveUp(w) ==
    /\ monitor[w].at # "idle"
    /\ ReleaseDestinationScanForRetry(w, monitor[w].scan)
    /\ Stop(w)
    /\ UNCHANGED <<verdicts, observed>>

\* The process stops, or its answer to the database is lost: the lease stays.
CrashMonitor(w) ==
    /\ monitor[w].at # "idle"
    /\ Stop(w)
    /\ UNCHANGED <<verdicts, scans, observed>>

LeaseEnds(s) ==
    /\ scans[s].status = "leased" /\ ~scans[s].expired
    /\ scans' = [scans EXCEPT ![s].expired = TRUE]
    /\ UNCHANGED <<verdicts, observed, monitor>>

-----------------------------------------------------------------------------
ScanInit ==
    /\ verdicts = <<>>
    /\ scans = [s \in Scan |-> NoRow]
    /\ observed = [s \in Scan |-> NoOutcome]
    /\ monitor = [w \in Monitor |-> IdleMonitor]

RunOnce(w) ==
    \/ \E s \in Scan : LeaseDestinationScan(w, s) \/ ExhaustLease(w, s)
    \/ FindObservation(w)
    \/ \E o \in Outcome : RecordProviderObservation(w, o)
    \/ FinalizeDestinationDecision(w)
    \/ GiveUp(w)

ScanNext ==
    \/ \E s \in Scan, fp \in Fingerprint : EnqueueDestinationScan(s, fp)
    \/ \E w \in Monitor : RunOnce(w) \/ CrashMonitor(w)
    \/ \E s \in Scan : LeaseEnds(s)

\* A monitor loops every few seconds; time ends a lease.
ScanSpec == ScanInit /\ [][ScanNext]_scanVars
ScanFairness ==
    /\ \A w \in Monitor : WF_scanVars(RunOnce(w))
    /\ \A s \in Scan : WF_scanVars(LeaseEnds(s))
FairScanSpec == ScanSpec /\ ScanFairness

-----------------------------------------------------------------------------
ScanTypeOK ==
    /\ verdicts \in Seq(RiskDecision)
    /\ scans \in [Scan -> ScanRow]
    /\ observed \in [Scan -> Outcome \cup {NoOutcome}]
    /\ monitor \in [Monitor -> MonitorRecord]
    /\ \A w \in Monitor : monitor[w].at # "idle" => monitor[w].scan \in Scan
    /\ \A w \in Monitor : monitor[w].at = "deciding" => observed[monitor[w].scan] \in Outcome

\* The scan pipeline keeps what RiskDecisions promises.
VerdictsAreDecisions == Log!DecisionSpec

\* Whatever two monitors heard from the provider about one scan, its decision is
\* the policy's verdict on the one observation that is kept, for the targets the
\* scan was enqueued for.
DecisionFollowsObservation ==
    \A i \in DOMAIN verdicts :
        LET d == verdicts[i] IN
        d.outcome = observed[d.scan] /\ d.fp = scans[d.scan].fp

\* A scan is reported completed exactly because of its decision: never before it
\* is written, and a decided scan is never handed out again.
CompletedByDecision ==
    \A s \in Scan :
        /\ scans[s].status = "completed" => HasVerdict(s)
        /\ HasVerdict(s) => scans[s].status \in Over

\* A monitor whose lease has passed to another one, or whose scan is over, can
\* neither reopen the scan nor take the lease from its new owner: a lease is given
\* up by the monitor that holds it, or after it has ended.
OverStaysOver ==
    [][\A s \in Scan :
        /\ scans[s].status \in Over => scans'[s] = scans[s]
        /\ scans[s].status = "leased" /\ scans'[s].status \in {"retry", "failed"}
             => \/ scans[s].expired
                \/ \E w \in Monitor : /\ scans[s].owner = w /\ monitor[w].scan = s
                                      /\ monitor'[w] # monitor[w]]_scanVars

\* Every enqueued scan ends, whatever monitors crash, lose their lease or hear
\* nothing from the provider.
ScanSettles ==
    \A s \in Scan : scans[s].status = "queued" ~> scans[s].status \in Over

\* The scan queue as a whole: one kept observation decides each scan, once, whatever
\* leases end, monitors die or answers come late, and what is over is never touched.
ScanSafety ==
    /\ [](ScanTypeOK /\ DecisionFollowsObservation /\ CompletedByDecision)
    /\ VerdictsAreDecisions /\ OverStaysOver
=============================================================================
