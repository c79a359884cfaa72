----------------------------- MODULE MCLinkStore -----------------------------
(* A small instance of LinkStore for TLC with two sides, checked in one run:    *)
(* visitors click on two links of one editor, or two rivals edit a third link,  *)
(* which nobody visits.                                                         *)
EXTENDS LinkStore, TLC

CONSTANTS a1, a2, t1, t2,
    Visited,        \* links one editor writes and visitors click on
    Rival           \* the editors of the other links

Base == [addr |-> a1, kind |-> "official", targets |-> {t1}, cap |-> Unlimited,
         oneTime |-> FALSE, expires |-> Never, password |-> FALSE]

\* Contents two editors fight over: the address moves between an official and a
\* custom host and the password comes and goes.
EditConfigs ==
    {Base,
     [Base EXCEPT !.addr = a2, !.kind = "custom", !.password = TRUE]}

\* Contents whose clicks are limited in every way the store knows, on two
\* addresses.
LimitConfigs ==
    {[Base EXCEPT !.cap = 1, !.expires = 1],
     [Base EXCEPT !.addr = a2, !.kind = "custom", !.oneTime = TRUE,
                  !.targets = {t1, t2}]}

SideConfigs == EditConfigs \cup LimitConfigs

VARIABLE side
mcVars == <<side, vars>>

Symmetry == Permutations(Visited) \cup Permutations(Rival)

\* The contents of C with or without a password.
Of(c, C) == [c EXCEPT !.password = FALSE] \in {[d EXCEPT !.password = FALSE] : d \in C}

\* Only links in L are written, by clients in E, with contents of C.
Keeps(L, E, C) ==
    /\ \A l \in Link : row[l] # NoRow => l \in L /\ Of(row[l].cfg, C)
    /\ \A e \in Editor :
         /\ op[e] # NoOp => e \in E /\ Of(op[e].cfg, C)
         /\ \A l \in Link : seen[e][l] # 0 => e \in E

MCInit == side \in {"clicks", "edits"} /\ Init
MCNext ==
    /\ UNCHANGED side
    /\ Next
    /\ IF side = "clicks"
       THEN Keeps(Visited, Editor \ Rival, LimitConfigs)'
       ELSE Keeps(Link \ Visited, Rival, EditConfigs)' /\ UNCHANGED outbox
MCSpec == MCInit /\ [][MCNext]_mcVars
=============================================================================
