----------------------------- MODULE MCRequests -----------------------------
(* The components that only change when somebody asks: accounts, workspaces,  *)
(* text shares, bio pages, the console of administrators and support tickets. *)
(* Their modules share no state, so one run checks them side by side: a       *)
(* behaviour is of one component, and the state space is the sum of theirs.   *)
EXTENDS AccountAccess, Workspace, TextShare, BioPage, AdminConsole, SupportTickets,
        FiniteSetsExt, TLC

CONSTANTS
    e2,             \* an address whose account an administrator leaves alone
    MaxEffort,      \* bound: handoffs, codes and sessions together
    MaxWork,        \* bound: calls, records, failures and secrets of administrators
    MaxTold         \* bound: audit records of tickets

VARIABLE side
mcVars == <<side, accountVars, workspaceVars, textVars, bioVars, adminVars, ticketVars>>

AccountSide(A) ==
    side = "account" /\ A /\ UNCHANGED <<side, workspaceVars, textVars, bioVars, adminVars, ticketVars>>
WorkspaceSide(A) ==
    side = "workspace" /\ A /\ UNCHANGED <<side, accountVars, textVars, bioVars, adminVars, ticketVars>>
TextSide(A) ==
    side = "text" /\ A /\ UNCHANGED <<side, accountVars, workspaceVars, bioVars, adminVars, ticketVars>>
BioSide(A) ==
    side = "bio" /\ A /\ UNCHANGED <<side, accountVars, workspaceVars, textVars, adminVars, ticketVars>>
AdminSide(A) ==
    side = "admin" /\ A /\ UNCHANGED <<side, accountVars, workspaceVars, textVars, bioVars, ticketVars>>
TicketSide(A) ==
    side = "ticket" /\ A /\ UNCHANGED <<side, accountVars, workspaceVars, textVars, bioVars, adminVars>>

Effort == Cardinality({f \in Flow : flows[f].at # "none"})
            + Cardinality({c \in CodeId : codes[c].state # "none"})
            + Cardinality({s \in SessionId : authSessions[s].status # "none"})
Work == Cardinality(records) + Cardinality({c \in Call : calls[c] # NoCall})
          + MapThenSumSet(LAMBDA a : credentials[a].failed + credentials[a].secret, Admin)

\* The requests on tickets are alike.
Symmetry == Permutations(Desk)

MCInit ==
    /\ AccountInit /\ WorkspaceInit /\ TextInit /\ BioInit /\ AdminInit /\ TicketInit
    /\ side \in {"account", "workspace", "text", "bio", "admin", "ticket"}
    /\ side = "admin" \/ \A d \in OfficialDomain : governed.domains[d] = Serving
MCNext ==
    \/ AccountSide(AccountNext) /\ Effort' <= MaxEffort
         /\ accounts'[e2].status \in {"none", "active"}
    \/ WorkspaceSide(WorkspaceNext)
    \/ TextSide(TextNext)
    \/ BioSide(BioNext)
    \/ AdminSide(AdminNext) /\ Work' <= MaxWork
    \/ TicketSide(TicketNext) /\ Cardinality(audits') <= MaxTold
MCSpec == MCInit /\ [][MCNext]_mcVars
=============================================================================
