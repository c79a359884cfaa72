------------------------------ MODULE BioPage ------------------------------
(***************************************************************************)
(* Bio pages, internal/bio: a versioned page under a quota whose links     *)
(* carry a risk status.  Handlers that show or publish a page first copy,   *)
(* link by link, the decision they find in Redis into the row; each copy is *)
(* a read and a write of its own, with editors in between.                 *)
(***************************************************************************)
EXTENDS Naturals, FiniteSets

CONSTANTS
    Page, Child,        \* rows of bio_pages and ids of bio_child_links
    Destination,        \* normalized destinations, each with its fingerprint
    PageEditor,         \* requests that carry the version their author saw
    Refresher,          \* requests that refresh the risk of a page
    BioQuota,
    MaxPageVersion,     \* bound: versions of a page
    NoPage, NoDestination

ASSUME BioAssumption == /\ BioQuota \in Nat /\ MaxPageVersion \in Nat \ {0}
                        /\ NoPage \notin Page /\ NoDestination \notin Destination

VARIABLES
    pages,      \* bio_pages
    bioUsed,    \* active_count of bio_workspace_counters
    childRows,  \* bio_child_links: page, destination, risk_status
    decided,    \* Redis: the decision under the key of a child and a fingerprint
    approved,   \* the pairs a decision has ever allowed
    pageEdits,  \* the page and the version an editor saw
    refreshers  \* the page a request has read, the links it still has to refresh, the
                \* decision it holds between its read and its write, and whether it holds
                \* the row of the page, having counted the links that are not allowed

bioVars == <<pages, bioUsed, childRows, decided, approved, pageEdits, refreshers>>

Pairs == Child \X Destination
\* mapRiskState; "none" is every decision that neither allows nor blocks: missing, stale, in review.
RiskOf == [allow |-> "allowed", block |-> "blocked", none |-> "review"]
NewPage == [status |-> "none", version |-> 0]
NoRow == [of |-> NoPage, destination |-> NoDestination, risk |-> "review"]
NoPageEdit == [of |-> NoPage, version |-> 0]
Idle == [publish |-> FALSE, of |-> NoPage, version |-> 0, todo |-> {}, holds |-> {}, counted |-> FALSE]

ActivePages == {p \in Page : pages[p].status \in {"draft", "published", "paused"}}
DeletedPages == {p \in Page : pages[p].status = "deleted"}
ChildrenOf(p) == {c \in Child : childRows[c].of = p}

-----------------------------------------------------------------------------
(* Editors *)

\* The links of a new page, or the new list of an edited one: ids of the page's own links, or new
\* ids.  A link keeps its status only with its destination.
Relist(p, list) ==
    [c \in Child |->
        IF c \in DOMAIN list
        THEN [of |-> p, destination |-> list[c],
              risk |-> IF childRows[c].destination = list[c] THEN childRows[c].risk ELSE "review"]
        ELSE IF childRows[c].of = p THEN [childRows[c] EXCEPT !.of = NoPage, !.risk = "review"]
        ELSE childRows[c]]

\* Ids are never used again: a row that is gone keeps its destination here.
Fresh(c) == childRows[c] = NoRow
Lists(p) == UNION {[ids -> Destination] : ids \in SUBSET {c \in Child : Fresh(c) \/ childRows[c].of = p}}

CreatePage(p, list) ==
    /\ pages[p].status = "none"
    /\ bioUsed < BioQuota
    /\ pages' = [pages EXCEPT ![p] = [status |-> "draft", version |-> 1]]
    /\ childRows' = Relist(p, list)
    /\ bioUsed' = bioUsed + 1
    /\ UNCHANGED <<decided, approved, pageEdits, refreshers>>

ReadPage(e, p) ==
    /\ pageEdits[e] = NoPageEdit
    /\ p \in ActivePages
    /\ pageEdits' = [pageEdits EXCEPT ![e] = [of |-> p, version |-> pages[p].version]]
    /\ UNCHANGED <<pages, bioUsed, childRows, decided, approved, refreshers>>

PageEditEnds(e) ==
    /\ pageEdits[e] # NoPageEdit
    /\ pageEdits' = [pageEdits EXCEPT ![e] = NoPageEdit]
    /\ UNCHANGED <<pages, bioUsed, childRows, decided, approved, refreshers>>

\* The page is the one that was seen.
Unmoved(seen) == /\ seen.of \in ActivePages
                 /\ pages[seen.of].version = seen.version /\ seen.version < MaxPageVersion

\* FOR UPDATE: only a publication keeps the row over a step of its own.
Lockable(seen) == /\ Unmoved(seen)
                  /\ \A h \in Refresher : refreshers[h].counted => refreshers[h].of # seen.of

UpdatePage(e, list) ==
    /\ Lockable(pageEdits[e])
    /\ childRows' = Relist(pageEdits[e].of, list)
    /\ pages' = [pages EXCEPT ![pageEdits[e].of].version = @ + 1]
    /\ pageEdits' = [pageEdits EXCEPT ![e] = NoPageEdit]
    /\ UNCHANGED <<bioUsed, decided, approved, refreshers>>

PausePage(e) ==
    /\ Lockable(pageEdits[e])
    /\ pages' = [pages EXCEPT ![pageEdits[e].of] = [status |-> "paused", version |-> @.version + 1]]
    /\ pageEdits' = [pageEdits EXCEPT ![e] = NoPageEdit]
    /\ UNCHANGED <<bioUsed, childRows, decided, approved, refreshers>>

\* The rows of its links stay.
DeletePage(e) ==
    /\ Lockable(pageEdits[e])
    /\ pages' = [pages EXCEPT ![pageEdits[e].of] = [status |-> "deleted", version |-> @.version + 1]]
    /\ bioUsed' = IF bioUsed > 0 THEN bioUsed - 1 ELSE 0
    /\ pageEdits' = [pageEdits EXCEPT ![e] = NoPageEdit]
    /\ UNCHANGED <<childRows, decided, approved, refreshers>>

-----------------------------------------------------------------------------
(* Decisions and their copies *)

\* PutDecision, or the end of its time to live.
Decide(c, d, decision) ==
    /\ decided[<<c, d>>] # decision
    /\ decided' = [decided EXCEPT ![<<c, d>>] = decision]
    /\ approved' = IF decision = "allow" THEN approved \cup {<<c, d>>} ELSE approved
    /\ UNCHANGED <<pages, bioUsed, childRows, pageEdits, refreshers>>

\* get, publicResource and the first part of transition read the page with its links.
BeginRefresh(h, p, publish) ==
    /\ refreshers[h] = Idle
    /\ p \in ActivePages
    /\ refreshers' = [refreshers EXCEPT ![h] =
           [publish |-> publish, of |-> p, version |-> pages[p].version, holds |-> {}, counted |-> FALSE,
            todo |-> {<<c, childRows[c].destination>> : c \in ChildrenOf(p)}]]
    /\ UNCHANGED <<pages, bioUsed, childRows, decided, approved, pageEdits>>

\* Resolve; an unreachable Redis reads as review.
ResolveChild(h, pair) ==
    /\ refreshers[h].holds = {}
    /\ pair \in refreshers[h].todo
    /\ \E risk \in {RiskOf[decided[pair]], "review"} :
           refreshers' = [refreshers EXCEPT ![h].todo = @ \ {pair}, ![h].holds = {<<pair, risk>>}]
    /\ UNCHANGED <<pages, bioUsed, childRows, decided, approved, pageEdits>>

\* Only the row that still has the fingerprint is written.
SyncChildRisk(h, pair, risk) ==
    /\ <<pair, risk>> \in refreshers[h].holds
    /\ refreshers' = [refreshers EXCEPT ![h].holds = {}]
    /\ childRows' = [childRows EXCEPT ![pair[1]].risk =
           IF childRows[pair[1]].of # NoPage /\ childRows[pair[1]].destination = pair[2] THEN risk ELSE @]
    /\ UNCHANGED <<pages, bioUsed, decided, approved, pageEdits>>

ReadOf(h) == [of |-> refreshers[h].of, version |-> refreshers[h].version]

\* Bug: the rows are not looked at again, because they have been refreshed.
BugPublishTrustsRefresh(h) ==
    /\ refreshers[h].publish /\ refreshers[h].todo = {} /\ refreshers[h].holds = {}
    /\ ~refreshers[h].counted /\ Lockable(ReadOf(h))
    /\ refreshers' = [refreshers EXCEPT ![h].counted = TRUE]
    /\ UNCHANGED <<pages, bioUsed, childRows, decided, approved, pageEdits>>

\* Transition to published locks the page it read and counts the links that are not allowed; the
\* rows of the links are not locked, and a copy may still change them before the commit.
CountUnresolved(h) ==
    /\ refreshers[h].publish /\ refreshers[h].todo = {} /\ refreshers[h].holds = {}
    /\ ~refreshers[h].counted /\ Lockable(ReadOf(h))
    /\ \A c \in ChildrenOf(refreshers[h].of) : childRows[c].risk = "allowed"
    /\ refreshers' = [refreshers EXCEPT ![h].counted = TRUE]
    /\ UNCHANGED <<pages, bioUsed, childRows, decided, approved, pageEdits>>

PublishPage(h) ==
    /\ refreshers[h].counted /\ Unmoved(ReadOf(h))
    /\ pages' = [pages EXCEPT ![refreshers[h].of] = [status |-> "published", version |-> @.version + 1]]
    /\ refreshers' = [refreshers EXCEPT ![h] = Idle]
    /\ UNCHANGED <<bioUsed, childRows, decided, approved, pageEdits>>

\* The answer, a refusal or a failed write.
RefreshEnds(h) ==
    /\ refreshers[h] # Idle
    /\ refreshers' = [refreshers EXCEPT ![h] = Idle]
    /\ UNCHANGED <<pages, bioUsed, childRows, decided, approved, pageEdits>>

-----------------------------------------------------------------------------
BioInit ==
    /\ pages = [p \in Page |-> NewPage]
    /\ bioUsed = 0
    /\ childRows = [c \in Child |-> NoRow]
    /\ decided = [pair \in Pairs |-> "none"]
    /\ approved = {}
    /\ pageEdits = [e \in PageEditor |-> NoPageEdit]
    /\ refreshers = [h \in Refresher |-> Idle]

BioNext ==
    \/ \E p \in Page : \E list \in Lists(p) : CreatePage(p, list)
    \/ \E e \in PageEditor :
           \/ PausePage(e) \/ DeletePage(e) \/ PageEditEnds(e)
           \/ \E p \in Page : ReadPage(e, p)
           \/ \E list \in Lists(pageEdits[e].of) : UpdatePage(e, list)
    \/ \E c \in Child, d \in Destination, decision \in DOMAIN RiskOf : Decide(c, d, decision)
    \/ \E h \in Refresher :
           \/ CountUnresolved(h) \/ PublishPage(h) \/ RefreshEnds(h)
           \/ \E p \in Page, publish \in BOOLEAN : BeginRefresh(h, p, publish)
           \/ \E pair \in Pairs : ResolveChild(h, pair)
           \/ \E pair \in Pairs, risk \in {"allowed", "blocked", "review"} : SyncChildRisk(h, pair, risk)

BioSpec == BioInit /\ [][BioNext]_bioVars

-----------------------------------------------------------------------------
(* Properties *)

\* The rows and the requests under way.
BioTypeOK ==
    /\ pages \in [Page -> [status : {"none", "draft", "published", "paused", "deleted"}, version : 0 .. MaxPageVersion]]
    /\ bioUsed \in 0 .. BioQuota
    /\ childRows \in [Child -> [of : Page \cup {NoPage}, destination : Destination \cup {NoDestination},
                                risk : {"allowed", "blocked", "review"}]]
    /\ decided \in [Pairs -> DOMAIN RiskOf] /\ approved \subseteq Pairs
    /\ pageEdits \in [PageEditor -> [of : Page \cup {NoPage}, version : 0 .. MaxPageVersion]]
    /\ \A h \in Refresher :
           /\ refreshers[h].of \in Page \cup {NoPage} /\ refreshers[h].version \in 0 .. MaxPageVersion
           /\ refreshers[h].todo \subseteq Pairs
           /\ refreshers[h].holds \subseteq Pairs \X {"allowed", "blocked", "review"}
           /\ refreshers[h].counted \in BOOLEAN

\* An approval in a row is an approval of the destination the row has now, however late the copy
\* of a decision arrives and whatever the link was changed to meanwhile.
ApprovalOfThisDestination ==
    \A c \in Child : childRows[c].risk = "allowed" => <<c, childRows[c].destination>> \in approved

\* A page goes public only with links that were allowed, each with the destination it then has, though
\* editors relist links before their count, and decisions are copied to them between it and the commit.
PublishedOnApproval == [][
    \A p \in Page : pages[p].status # "published" /\ pages'[p].status = "published" =>
        \A c \in ChildrenOf(p) : <<c, childRows[c].destination>> \in approved]_bioVars

\* Bio pages keep the promise of QuotaCounter.
BioQuotaCounter == INSTANCE QuotaCounter WITH
    Resource <- Page, Quota <- BioQuota, used <- bioUsed, live <- ActivePages, gone <- DeletedPages
BioKeepsQuota == BioQuotaCounter!Spec

\* Bio pages as a whole: approvals are of the present destinations, a page goes public on
\* approvals only, and the quota counter counts the pages.
BioSafety == [](BioTypeOK /\ ApprovalOfThisDestination) /\ PublishedOnApproval /\ BioKeepsQuota
=============================================================================
