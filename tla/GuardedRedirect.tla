-------------------------- MODULE GuardedRedirect --------------------------
(***************************************************************************)
(* The redirect engine with the authority that decides for it: one link of *)
(* RedirectEngine is watched by RiskAuthority.  What the engine finds in   *)
(* Redis under the link's fingerprints is what projections and blocks of   *)
(* the authority put there, and the fingerprint the authority reads is     *)
(* that of the row which editors write.                                    *)
(***************************************************************************)
EXTENDS RedirectEngine

CONSTANTS
    Watched,        \* the link; for the others anything may be decided
    Scan, Outcome, Report, Projector, MaxOverrides, NoReport

ASSUME GuardAssumption ==
    /\ Watched \in Link /\ Target # {}
    /\ Outcome \subseteq {"allow", "review", "block", "unknown", "unavailable"}
    /\ MaxOverrides \in Nat /\ NoReport \notin Report

VARIABLES decisions, stale, overrides, report, hold, blocking, projection

mysqlTrustVars == <<stale, overrides, report, hold, blocking, projection>>
guardVars == <<allVars, decisions, mysqlTrustVars>>

\* links.risk_fingerprint; a link without a row has none, and nobody asks.
PresentTargets ==
    IF row[Watched] = NoRow THEN CHOOSE t \in Fingerprint : TRUE ELSE row[Watched].cfg.targets

\* The keys risk:link:<id>:<fingerprint> of the link.
Entries ==
    [t \in Fingerprint |-> IF risk[Watched][t] = NoDecision THEN "missing" ELSE risk[Watched][t].state]

Authority == INSTANCE RiskAuthority WITH linkFp <- PresentTargets, runtime <- Entries

-----------------------------------------------------------------------------
\* deleted_at IS NULL, in every query that reads the fingerprint.
Live == row[Watched] # NoRow /\ ~row[Watched].gone

\* The fingerprints that a scan, a projection or a hold may have been about.
Past == {history[Watched][n].cfg.targets : n \in 1 .. Len(history[Watched])}

\* Scans are enqueued for the fingerprint the link has; the decision may be late.
DecisionArrives ==
    /\ UNCHANGED <<allVars, mysqlTrustVars>>
    /\ \E s \in Scan, fp \in Past, o \in Outcome : Authority!Decide(s, fp, o)

\* What the authority does in MySQL alone.
Govern ==
    /\ UNCHANGED allVars
    /\ \/ \E p \in Projector :
             \/ Live /\ Authority!ReadAuthority(p)
             \/ Authority!OverlayHold(p)
             \/ Authority!ProjectionFails(p)
             \/ \E r \in Report : Authority!RepeatBlock(r, p)
       \/ Live /\ \E st \in Verdict : Authority!CreateDestinationOverride(st)
       \/ \E k \in DOMAIN overrides : Authority!EndOverride(k)
       \/ \E i \in DOMAIN decisions : Authority!ValidityEnds(i)
       \/ Authority!CommitBlock
       \/ Authority!AbortBlock
       \/ \E r \in Report :
             \/ Live /\ (Authority!SubmitReport(r) \/ Authority!RestoreLink(r))
             \/ \E to \in Authority!ReportStatus : Authority!TransitionAbuseReport(r, to)

\* Every entry the authority writes is one the engine will read.
Inform ==
    \E t \in Past, st \in Verdict :
        /\ PutDecision(Watched, t, st)
        /\ UNCHANGED decisions
        /\ \/ \E p \in Projector : Authority!PutDecision(p)
           \/ Live /\ \E r \in Report : Authority!BlockLink(r)

\* Everything else of the engine, which has no part in the authority; but who writes
\* the row, an editor or a claim, waits for the transaction of a block.
Serve ==
    /\ \/ \E r \in Request : Handler(r)
       \/ (Edit \/ Environment) /\ UNCHANGED engineVars
       \/ Tick
       \/ \E l \in Link :
             \/ EndAttemptWindow(l)
             \/ \E t \in Fingerprint :
                   \/ LoseDecision(l, t)
                   \/ l # Watched /\ \E st \in Verdict : PutDecision(l, t, st)
    /\ blocking # NoReport => row'[Watched] = row[Watched]
    /\ UNCHANGED <<decisions, mysqlTrustVars>>

GuardedInit ==
    /\ EngineInit
    /\ Authority!AuthorityInit

GuardedNext == Serve \/ DecisionArrives \/ Govern \/ Inform

GuardedSpec == GuardedInit /\ [][GuardedNext]_guardVars

-----------------------------------------------------------------------------
\* Somebody with the authority to do so allowed exactly the targets of the version
\* that a redirect was sent for: by a decision on a scan of theirs, or an override.
IsAuthorized(s) ==
    s.link = Watched => Authority!Allowed(history[Watched][s.version].cfg.targets)

\* A destination leaves GoJet only where that is so.  No edit, deletion, restore, hold
\* or late projection lends a link the allow of other targets, and none comes out of
\* nothing.  And the authority behaves as it was specified alone, whatever editors
\* write and Redis loses: to it they are edits of the targets and expiries.
GuardSafety == [](\A s \in sent : IsAuthorized(s)) /\ Authority!AuthoritySpec
=============================================================================
