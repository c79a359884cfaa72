-------------------------- MODULE MCRedirectEngine --------------------------
(* Small instances of the redirect engine for TLC, without and with the        *)
(* authority that decides for it, checked in one run: visitors race over a     *)
(* link on which anything may be decided, or one visitor at a time meets what  *)
(* the authority projects for the link it watches.                             *)
EXTENDS GuardedRedirect, FiniteSets, TLC

CONSTANTS a1, a2, t1, t2,
    MaxRecords, Sides

Base == [addr |-> a1, kind |-> "official", targets |-> {t1}, cap |-> Unlimited,
         oneTime |-> FALSE, expires |-> Never, password |-> FALSE]

\* The second contents replace the target set and the limits of the first and
\* add a password.
RaceConfigs ==
    {[Base EXCEPT !.oneTime = TRUE],
     [Base EXCEPT !.targets = {t2}, !.cap = 1, !.expires = 1, !.password = TRUE]}

\* The same target sets, open to every visitor.
TrustConfigs == {Base, [Base EXCEPT !.targets = {t2}]}

SideConfigs == RaceConfigs \cup TrustConfigs

VARIABLE side
mcVars == <<side, guardVars>>

Symmetry == Permutations(Request)

\* Only links in L are written, with contents of C.
Keeps(L, C) ==
    /\ \A l \in Link : row[l] # NoRow => l \in L /\ row[l].cfg \in C
    /\ \A e \in Editor : op[e] # NoOp => op[e].cfg \in C

\* Visitors race over the other links, with a form where one is asked for; a review
\* is to the engine what a block is.
RaceBounds ==
    /\ Keeps(Link \ {Watched}, RaceConfigs)
    /\ \A r \in Request : req[r] # Idle /\ req[r].method = "POST" => req[r].cfg.password
    /\ \A l \in Link, t \in Fingerprint : risk[l][t] # NoDecision => risk[l][t].state # "review"

\* One visitor at a time until one is redirected, at one instant, with at most
\* MaxRecords decisions and overrides and a report that stays under investigation.
TrustBounds ==
    /\ Keeps({Watched}, TrustConfigs)
    /\ Cardinality({r \in Request : req[r] # Idle}) <= 1
    /\ \A r \in Request : req[r] # Idle => req[r].method = "GET"
    /\ row[Watched] # NoRow =>
         /\ row[Watched].status # "paused"
         /\ row[Watched].clicks = Cardinality(sent \cup {r \in Request : req[r].pc = "send"})
    /\ now = 0
    /\ \A r \in Report : report[r].status \notin {"resolved", "dismissed"}
    /\ Len(decisions) + Len(overrides)
         + Cardinality({r \in Report : report[r].status # "none"}) <= MaxRecords

MCInit == side \in Sides /\ GuardedInit
MCNext ==
    /\ UNCHANGED side
    /\ GuardedNext
    /\ IF side = "race" THEN RaceBounds' ELSE sent = {} /\ TrustBounds'
MCSpec == MCInit /\ [][MCNext]_mcVars
=============================================================================
