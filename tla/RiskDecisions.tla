--------------------------- MODULE RiskDecisions ---------------------------
(***************************************************************************)
(* What the destination-risk pipeline promises the rest of the system: a   *)
(* log of decisions, at most one per scan, that only grows, each the       *)
(* verdict the local policy gives to what the provider reported.  RiskScan *)
(* (queue, leases, workers) implements it and RiskAuthority builds on it.  *)
(***************************************************************************)
EXTENDS RiskPolicy

VARIABLE decisions      \* destination_risk_decisions, oldest first

Decided(s) == \E i \in DOMAIN decisions : decisions[i].scan = s

AppendDecision(s, fp, o) ==
    decisions' = Append(decisions,
                        [scan |-> s, fp |-> fp, outcome |-> o, state |-> Judge(o)])

Decide(s, fp, o) == ~Decided(s) /\ AppendDecision(s, fp, o)

DecisionInit == decisions = <<>>
DecisionNext == \E s \in Scan, fp \in Fingerprint, o \in Outcome : Decide(s, fp, o)
DecisionSpec == DecisionInit /\ [][DecisionNext]_decisions
=============================================================================
