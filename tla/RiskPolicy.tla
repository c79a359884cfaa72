----------------------------- MODULE RiskPolicy -----------------------------
(* What a destination-risk scan is about and how the policy judges it. *)
EXTENDS Naturals, Sequences, FiniteSets

CONSTANTS
    Scan,           \* identities of destination_risk_scans rows
    Fingerprint,    \* fingerprints of the targets of one link
    Outcome         \* what a provider may report of a target set

ASSUME PolicyAssumption ==
    /\ Fingerprint # {}
    /\ Outcome \subseteq {"allow", "review", "block", "unknown", "unavailable"}

RiskState == {"allow", "review", "block"}

\* EvaluateDestinationPolicy with one required provider and local safety
\* passed, as the operations monitor configures it.
Judge(outcome) == IF outcome \in {"allow", "block"} THEN outcome ELSE "review"

RiskDecision == [scan : Scan, fp : Fingerprint, outcome : Outcome, state : RiskState]
=============================================================================
