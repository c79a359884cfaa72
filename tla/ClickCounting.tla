---------------------------- MODULE ClickCounting ----------------------------
(***************************************************************************)
(* What the analytics pipeline promises, without the outbox, the stream,   *)
(* the workers and their failures: a click is accepted once, and every     *)
(* accepted click is added once to the hourly aggregate it belongs to.     *)
(***************************************************************************)
EXTENDS Integers, FiniteSets

CONSTANTS
    Event,      \* accepted clicks: (link, click_sequence), hashed to event_id
    Bucket,     \* keys of analytics_hourly_aggregates
    BucketOf    \* the hour and dimensions of an event

VARIABLES
    accepted,   \* clicks whose access claim committed
    counted,    \* clicks the reports count
    clicks      \* the aggregate of each bucket

countVars == <<accepted, counted, clicks>>

CountInit ==
    /\ accepted = {}
    /\ counted = {}
    /\ clicks = [b \in Bucket |-> 0]

AcceptClick(e) ==
    /\ e \notin accepted
    /\ accepted' = accepted \union {e}
    /\ UNCHANGED <<counted, clicks>>

CountClick(e) ==
    /\ e \in accepted \ counted
    /\ counted' = counted \union {e}
    /\ clicks' = [clicks EXCEPT ![BucketOf[e]] = @ + 1]
    /\ UNCHANGED accepted

CountNext == \E e \in Event : AcceptClick(e) \/ CountClick(e)

CountSpec ==
    /\ CountInit
    /\ [][CountNext]_countVars
    /\ \A e \in Event : WF_countVars(CountClick(e))
=============================================================================
