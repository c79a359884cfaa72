--------------------------- MODULE ClickAnalytics ---------------------------
(***************************************************************************)
(* The click pipeline of internal/analytics: the redirect handler commits  *)
(* an outbox row with the click and then publishes it to a Redis stream;   *)
(* analyticsworker processes move stream messages into analytics_events    *)
(* and the hourly aggregates; analyticsreconciler republishes what stayed  *)
(* unpublished, checks the aggregates and tells the workspaces whether     *)
(* their data is complete.  The processes interleave at every database or  *)
(* Redis call, and any call may fail, lose its answer or be the last one   *)
(* before a crash (at most MaxFaults times, which bounds the model).       *)
(***************************************************************************)
EXTENDS Integers, Sequences, FiniteSets, Functions

CONSTANTS
    Event,          \* clicks; the event id is a function of link and sequence
    Bucket,         \* aggregate keys
    BucketOf,       \* event -> bucket
    Queried,        \* buckets a report is asked for
    Worker,         \* consumer names in the worker group
    NoEvent,        \* no publication in progress
    BatchSize,      \* messages a worker reads at once (100 in the code)
    RecoverLimit,   \* rows a cycle recovers at most (1000 in the code)
    Repair,         \* GOJET_ANALYTICS_RECONCILE_REPAIR
    MaxFaults       \* bound: failed calls and crashes

ASSUME PipelineAssumption ==
    /\ BucketOf \in [Event -> Bucket]
    /\ Queried \subseteq Bucket
    /\ NoEvent \notin Event
    /\ BatchSize \in Nat \ {0}
    /\ RecoverLimit \in Nat \ {0}
    /\ Repair \in BOOLEAN
    /\ MaxFaults \in Nat

VARIABLES
    outbox,     \* analytics_outbox: published_at of each event's row
    handler,    \* what the redirect handler of the click does next
    stream,     \* gojet:analytics:clicks:v1, a message is its event
    delivered,  \* last-delivered-id of the worker group
    pel,        \* pending entries of each consumer
    worker,     \* the rest of the batch a worker process is in
    events,     \* analytics_events
    clicks,     \* analytics_hourly_aggregates
    recon,      \* where the reconciler is in runCycle, and what it has read
    status,     \* analytics_workspace_state.status
    report,     \* a QueryReport in progress or answered
    faults      \* failures so far

vars == <<outbox, handler, stream, delivered, pel, worker, events, clicks,
          recon, status, report, faults>>

-----------------------------------------------------------------------------
OutboxState == {"absent", "pending", "published"}
HandlerState == {"none", "publish", "mark", "done"}
Status == {"absent", "partial", "complete"}
ReconStep == {"idle", "recover", "repair", "outbox", "events", "aggregates",
              "refresh"}

Accepted == {e \in Event : outbox[e] # "absent"}
Pending == {e \in Event : outbox[e] = "pending"}
InBucket(S, b) == {e \in S : BucketOf[e] = b}
CountPerBucket(S) == [b \in Bucket |-> Cardinality(InBucket(S, b))]
TotalClicks == FoldFunction(LAMBDA n, m : n + m, 0, clicks)

\* The process has read nothing yet; seen is a history variable: the rows
\* that were in the outbox when their total was read.
IdleRecon == [step |-> "idle", todo |-> {}, marking |-> NoEvent,
              failed |-> FALSE, outbox |-> 0, events |-> 0,
              agree |-> FALSE, seen |-> {}]
IdleWorker == [batch |-> {}, persisted |-> FALSE]
\* due is a history variable: the report takes the data for complete, and a
\* click of the range was accepted before it began.
NoReport == [range |-> {}, complete |-> FALSE, due |-> FALSE]

Init ==
    /\ outbox = [e \in Event |-> "absent"]
    /\ handler = [e \in Event |-> "none"]
    /\ stream = <<>>
    /\ delivered = 0
    /\ pel = [w \in Worker |-> {}]
    /\ worker = [w \in Worker |-> IdleWorker]
    /\ events = {}
    /\ clicks = [b \in Bucket |-> 0]
    /\ recon = IdleRecon
    /\ status = "absent"
    /\ report = NoReport
    /\ faults = 0

Fault == faults < MaxFaults /\ faults' = faults + 1

groupVars == <<delivered, pel, worker>>
countedVars == <<events, clicks>>
reportVars == <<status, report>>

-----------------------------------------------------------------------------
(* The redirect handler, once per accepted click.                          *)

\* The claim commits the click and its outbox row in one transaction.
Accept(e) ==
    /\ outbox[e] = "absent"
    /\ outbox' = [outbox EXCEPT ![e] = "pending"]
    /\ handler' = [handler EXCEPT ![e] = "publish"]
    /\ UNCHANGED <<stream, groupVars, countedVars, recon, reportVars, faults>>

Publish(e) ==
    /\ handler[e] = "publish"
    /\ stream' = Append(stream, e)
    /\ handler' = [handler EXCEPT ![e] = "mark"]
    /\ UNCHANGED <<outbox, groupVars, countedVars, recon, reportVars, faults>>

MarkOutboxPublished(e) ==
    /\ handler[e] = "mark"
    /\ outbox' = [outbox EXCEPT ![e] = "published"]
    /\ handler' = [handler EXCEPT ![e] = "done"]
    /\ UNCHANGED <<stream, groupVars, countedVars, recon, reportVars, faults>>

\* XADD fails, or takes effect and its answer is lost; marking fails; the
\* visitor goes away and cancels the request's context; the process dies.
\* The handler ignores the error and never comes back to this event.
HandlerFails(e) ==
    /\ Fault
    /\ \/ handler[e] \in {"publish", "mark"} /\ UNCHANGED stream
       \/ handler[e] = "publish" /\ stream' = Append(stream, e)
    /\ handler' = [handler EXCEPT ![e] = "done"]
    /\ UNCHANGED <<outbox, groupVars, countedVars, recon, reportVars>>

-----------------------------------------------------------------------------
(* analyticsworker.                                                        *)

\* The BatchSize smallest ids of S, in whose order a batch is processed.
Prefix(S) == {i \in S : Cardinality({j \in S : j < i}) < BatchSize}
PendingBatch(w) == Prefix(pel[w])
NewBatch == delivered + 1 .. IF Len(stream) - delivered < BatchSize
                             THEN Len(stream) ELSE delivered + BatchSize
Busy(w) == worker[w].batch # {}
Take(w, batch) ==
    worker' = [worker EXCEPT ![w] = [batch |-> batch, persisted |-> FALSE]]
IsNext(w, i) == i \in worker[w].batch /\ \A j \in worker[w].batch : i <= j

\* Bug: the worker never asks for its pending messages.
ReadPendingNever(w) ==
    /\ ~Busy(w)
    /\ FALSE
    /\ Take(w, PendingBatch(w))
    /\ UNCHANGED <<outbox, handler, stream, delivered, pel, countedVars, recon,
                   reportVars, faults>>

\* XREADGROUP with id 0: the consumer's own unacknowledged messages again.
ReadPending(w) ==
    /\ ~Busy(w)
    /\ pel[w] # {}
    /\ Take(w, PendingBatch(w))
    /\ UNCHANGED <<outbox, handler, stream, delivered, pel, countedVars, recon,
                   reportVars, faults>>

\* XREADGROUP with id >: only when nothing is pending for this consumer.
\* The messages are pending for it even when the answer does not arrive.
Read(w) ==
    /\ ~Busy(w)
    /\ pel[w] = {}
    /\ delivered < Len(stream)
    /\ pel' = [pel EXCEPT ![w] = NewBatch]
    /\ delivered' \in NewBatch
    /\ \A i \in NewBatch : i <= delivered'
    /\ \/ Take(w, NewBatch) /\ UNCHANGED faults
       \/ Fault /\ UNCHANGED worker
    /\ UNCHANGED <<outbox, handler, stream, countedVars, recon, reportVars>>

\* Bug: the aggregate is increased for a message already consumed.
PersistCountingTwice(w, i) ==
    /\ IsNext(w, i)
    /\ ~worker[w].persisted
    /\ events' = events \union {stream[i]}
    /\ clicks' = [clicks EXCEPT ![BucketOf[stream[i]]] = @ + 1]
    /\ worker' = [worker EXCEPT ![w].persisted = TRUE]
    /\ UNCHANGED <<outbox, handler, stream, delivered, pel, recon, reportVars,
                   faults>>

\* One transaction: INSERT IGNORE into analytics_events, and the aggregate
\* is increased only if the row is new.
PersistConsumedEvent(w, i) ==
    /\ IsNext(w, i)
    /\ ~worker[w].persisted
    /\ events' = events \union {stream[i]}
    /\ clicks' = IF stream[i] \in events THEN clicks
                 ELSE [clicks EXCEPT ![BucketOf[stream[i]]] = @ + 1]
    /\ worker' = [worker EXCEPT ![w].persisted = TRUE]
    /\ UNCHANGED <<outbox, handler, stream, delivered, pel, recon, reportVars,
                   faults>>

NextMessage(w, i) == Take(w, worker[w].batch \ {i})

Ack(w, i) ==
    /\ IsNext(w, i)
    /\ worker[w].persisted
    /\ pel' = [pel EXCEPT ![w] = @ \ {i}]
    /\ NextMessage(w, i)
    /\ UNCHANGED <<outbox, handler, stream, delivered, countedVars, recon,
                   reportVars, faults>>

\* Bug: the message is acknowledged although persisting it failed.
SkipAndAck(w, i) ==
    /\ Fault
    /\ IsNext(w, i)
    /\ pel' = [pel EXCEPT ![w] = @ \ {i}]
    /\ NextMessage(w, i)
    /\ UNCHANGED <<outbox, handler, stream, delivered, countedVars, recon,
                   reportVars>>

\* Persisting or acknowledging a message failed: the loop goes on with the
\* next one, and the message stays pending.
SkipMessage(w, i) ==
    /\ Fault
    /\ IsNext(w, i)
    /\ NextMessage(w, i)
    /\ UNCHANGED <<outbox, handler, stream, delivered, pel, countedVars, recon,
                   reportVars>>

\* The process restarts under the same consumer name.
RestartWorker(w) ==
    /\ Fault
    /\ Busy(w)
    /\ Take(w, {})
    /\ UNCHANGED <<outbox, handler, stream, delivered, pel, countedVars, recon,
                   reportVars>>

-----------------------------------------------------------------------------
(* analyticsreconciler: runCycle, again and again.                         *)

\* PendingOutbox: at most RecoverLimit of the unpublished rows.
BeginCycle ==
    /\ recon.step = "idle"
    /\ \E todo \in SUBSET Pending :
         /\ \/ todo = Pending /\ Cardinality(todo) <= RecoverLimit
            \/ Cardinality(todo) = RecoverLimit
         /\ recon' = [IdleRecon EXCEPT !.step = "recover", !.todo = todo]
    /\ UNCHANGED <<outbox, handler, stream, groupVars, countedVars, reportVars,
                   faults>>

Republish(e) ==
    /\ recon.step = "recover"
    /\ recon.marking = NoEvent
    /\ e \in recon.todo
    /\ stream' = Append(stream, e)
    /\ recon' = [recon EXCEPT !.marking = e]
    /\ UNCHANGED <<outbox, handler, groupVars, countedVars, reportVars, faults>>

MarkRepublished(e) ==
    /\ recon.marking = e
    /\ outbox' = [outbox EXCEPT ![e] = "published"]
    /\ recon' = [recon EXCEPT !.marking = NoEvent, !.todo = @ \ {e}]
    /\ UNCHANGED <<handler, stream, groupVars, countedVars, reportVars, faults>>

\* XADD fails, or takes effect and its answer is lost, or marking fails:
\* the row stays pending and the cycle goes on with the next one.
RecoverFails(e) ==
    /\ Fault
    /\ recon.step = "recover"
    /\ e \in recon.todo
    /\ recon.marking \in {e, NoEvent}
    /\ \/ UNCHANGED stream
       \/ recon.marking = NoEvent /\ stream' = Append(stream, e)
    /\ recon' = [recon EXCEPT !.marking = NoEvent, !.todo = @ \ {e},
                              !.failed = TRUE]
    /\ UNCHANGED <<outbox, handler, groupVars, countedVars, reportVars>>

\* Bug: only a surplus is taken for a mismatch.
ReconcileSurplus ==
    /\ recon.step = "recover"
    /\ recon.todo = {}
    /\ clicks' = IF Repair /\ Cardinality(events) < TotalClicks
                 THEN CountPerBucket(events) ELSE clicks
    /\ recon' = [recon EXCEPT !.step = "outbox"]
    /\ UNCHANGED <<outbox, handler, stream, groupVars, events, reportVars,
                   faults>>

\* One serializable transaction: rebuild the aggregates from the events when
\* repair is on and the totals differ.
Rebuilt == CountPerBucket(events)
ReconcileAggregates ==
    /\ recon.step = "recover"
    /\ recon.todo = {}
    /\ clicks' = IF Repair /\ Cardinality(events) # TotalClicks
                 THEN Rebuilt ELSE clicks
    /\ recon' = [recon EXCEPT !.step = "outbox"]
    /\ UNCHANGED <<outbox, handler, stream, groupVars, events, reportVars,
                   faults>>

\* AuthoritativeTotals: three queries outside any transaction.
ReadOutboxTotal ==
    /\ recon.step = "outbox"
    /\ recon' = [recon EXCEPT !.step = "events", !.seen = Accepted,
                              !.outbox = Cardinality(Accepted)]
    /\ UNCHANGED <<outbox, handler, stream, groupVars, countedVars, reportVars,
                   faults>>

ReadEventTotal ==
    /\ recon.step = "events"
    /\ recon' = [recon EXCEPT !.step = "aggregates",
                              !.events = Cardinality(events)]
    /\ UNCHANGED <<outbox, handler, stream, groupVars, countedVars, reportVars,
                   faults>>

ReadAggregateTotal ==
    /\ recon.step = "aggregates"
    /\ recon' = [recon EXCEPT !.step = "refresh",
                              !.agree = recon.events = TotalClicks]
    /\ UNCHANGED <<outbox, handler, stream, groupVars, countedVars, reportVars,
                   faults>>

\* Bug: the outbox is left out of the comparison.
ConsumedTotalsAgree ==
    /\ ~recon.failed
    /\ recon.agree

\* Bug: a cycle that recovered nothing does not count.
TotalsAfterRecoveryOnly ==
    /\ recon.todo # {}
    /\ recon.outbox = recon.events
    /\ recon.agree

TotalsAgree ==
    /\ ~recon.failed
    /\ recon.outbox = recon.events
    /\ recon.agree

\* The statement writes a row for every workspace that has an event.
RefreshWorkspaceCompleteness ==
    /\ recon.step = "refresh"
    /\ status' = CASE Accepted = {} -> status
                   [] Accepted # {} /\ TotalsAgree -> "complete"
                   [] OTHER -> "partial"
    /\ recon' = IdleRecon
    /\ UNCHANGED <<outbox, handler, stream, groupVars, countedVars, report,
                   faults>>

\* A query of the cycle fails, or the process restarts.
AbortCycle ==
    /\ Fault
    /\ recon.step # "idle"
    /\ recon' = IdleRecon
    /\ UNCHANGED <<outbox, handler, stream, groupVars, countedVars, reportVars>>

-----------------------------------------------------------------------------
(* QueryReport over the hours of one bucket: the status first, the events  *)
(* after it.                                                               *)

\* GetWorkspaceState: a workspace without a row is partial.
BeginReport(b) ==
    /\ report = NoReport
    /\ report' = [range |-> {b}, complete |-> status = "complete",
                  due |-> status = "complete" /\ InBucket(Accepted, b) # {}]
    /\ UNCHANGED <<outbox, handler, stream, groupVars, countedVars, recon,
                   status, faults>>

Found == {e \in events : BucketOf[e] \in report.range}
Answer == CASE ~report.complete -> "partial"
            [] report.complete /\ Found = {} -> "empty"
            [] OTHER -> "success"

\* The events are read, and the answer is sent.
EndReport ==
    /\ report # NoReport
    /\ report' = NoReport
    /\ UNCHANGED <<outbox, handler, stream, groupVars, countedVars, recon,
                   status, faults>>

-----------------------------------------------------------------------------
WorkerStep(w) ==
    \/ ReadPending(w)
    \/ Read(w)
    \/ \E i \in worker[w].batch : PersistConsumedEvent(w, i) \/ Ack(w, i)

ReconcilerStep ==
    \/ BeginCycle
    \/ \E e \in Event : Republish(e) \/ MarkRepublished(e)
    \/ ReconcileAggregates
    \/ ReadOutboxTotal \/ ReadEventTotal \/ ReadAggregateTotal
    \/ RefreshWorkspaceCompleteness

Next ==
    \/ \E e \in Event : \/ Accept(e) \/ Publish(e) \/ MarkOutboxPublished(e)
                        \/ HandlerFails(e) \/ RecoverFails(e)
    \/ \E w \in Worker :
          \/ WorkerStep(w)
          \/ \E i \in worker[w].batch : SkipMessage(w, i)
          \/ RestartWorker(w)
    \/ ReconcilerStep \/ AbortCycle
    \/ \E b \in Queried : BeginReport(b)
    \/ EndReport

\* Both processes are loops under a supervisor; nothing is assumed of the
\* redirect handlers, which end with their request.
Fairness ==
    /\ \A w \in Worker : WF_vars(WorkerStep(w))
    /\ WF_vars(ReconcilerStep)

Spec == Init /\ [][Next]_vars /\ Fairness

\* The aggregates are derived data; an operator may have to rebuild them.
LoseAggregate(b) ==
    /\ Fault
    /\ clicks[b] # 0
    /\ clicks' = [clicks EXCEPT ![b] = 0]
    /\ UNCHANGED <<outbox, handler, stream, groupVars, events, recon,
                   reportVars>>

DamagedNext == Next \/ \E b \in Bucket : LoseAggregate(b)
DamagedSpec == Init /\ [][DamagedNext]_vars /\ Fairness

-----------------------------------------------------------------------------
(* Properties.                                                             *)

\* Every variable keeps its type.
TypeOK ==
    /\ outbox \in [Event -> OutboxState]
    /\ handler \in [Event -> HandlerState]
    /\ stream \in Seq(Event)
    /\ delivered \in 0 .. Len(stream)
    /\ pel \in [Worker -> SUBSET (1 .. delivered)]
    /\ worker \in [Worker -> [batch : SUBSET (1 .. delivered),
                              persisted : BOOLEAN]]
    /\ events \subseteq Event
    /\ clicks \in [Bucket -> Nat]
    /\ recon \in [step : ReconStep, todo : SUBSET Event,
                  marking : Event \union {NoEvent}, failed : BOOLEAN,
                  outbox : Nat, events : Nat, agree : BOOLEAN,
                  seen : SUBSET Event]
    /\ status \in Status
    /\ report \in [range : SUBSET Bucket, complete : BOOLEAN, due : BOOLEAN]
    /\ faults \in 0 .. MaxFaults

\* The event has been consumed, or some consumer has yet to process it.
InTransit(e) == \E i \in 1 .. Len(stream) :
    /\ stream[i] = e
    /\ \/ i > delivered
       \/ \E w \in Worker : i \in pel[w]
Delivered(e) == e \in events \/ InTransit(e)

\* No click is lost (analytics-recovery.md: MySQL persistence occurs before
\* the acknowledgement): an outbox row that recovery will not look at any
\* more is the row of an event that was consumed or is still on its way,
\* whichever call failed and whichever process died.
NothingLost == \A e \in Event : outbox[e] = "published" => Delivered(e)

\* A click is in the events and in its aggregate once, however often it was
\* published and delivered: the pipeline implements the promise.
Promise == INSTANCE ClickCounting WITH accepted <- Accepted, counted <- events
CountsEachClickOnce == Promise!CountInit /\ [][Promise!CountNext]_Promise!countVars

\* Aggregates are what the events say: queries of either agree.
AggregatesMatchEvents == clicks = CountPerBucket(events)

\* If no click was accepted since the reconciler read the outbox total,
\* then "complete" is the truth: every accepted click has been consumed.
QuietCompleteIsTrue ==
    [][RefreshWorkspaceCompleteness /\ TotalsAgree /\ recon.seen = Accepted
         => Accepted = events]_vars

\* Every accepted click is counted in the end, although its handler may
\* have died before publishing it and workers may restart.
EveryClickCounted == \A e \in Event : outbox[e] # "absent" ~> e \in events

\* With repair on, a lost aggregate is rebuilt, whatever is consumed around
\* the repair.
AggregatesAreRepaired ==
    clicks # CountPerBucket(events) ~> clicks = CountPerBucket(events)

\* When clicks stop coming the workspaces are told that data is complete.
EventuallyComplete == <>[](Accepted = {} \/ status = "complete")

\* Every accepted click is in the outbox, the stream, a worker's hands or the store.
DeliverySafety == TypeOK /\ NothingLost
=============================================================================
