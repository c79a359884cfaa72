------------------------ MODULE ClickAnalyticsProofs ------------------------
(* The click pipeline loses no click and counts none twice: proved for every *)
(* number of clicks, buckets, workers, failures and batch sizes.             *)
EXTENDS ClickAnalytics, FiniteSetTheorems, SequenceTheorems, TLAPS

(* Bookkeeping of the steps: the sets whose size the reconciler reads grow by *)
(* at most one element at a time.                                             *)
FiniteRows == IsFiniteSet(Accepted) /\ IsFiniteSet(events)

ReconType == [step : ReconStep, todo : SUBSET Event,
              marking : Event \union {NoEvent}, failed : BOOLEAN,
              outbox : Nat, events : Nat, agree : BOOLEAN,
              seen : SUBSET Event]
ReportType == [range : SUBSET Bucket, complete : BOOLEAN, due : BOOLEAN]
WorkerType(d) == [Worker -> [batch : SUBSET (1 .. d), persisted : BOOLEAN]]
GroupType == /\ stream \in Seq(Event)
             /\ delivered \in 0 .. Len(stream)
             /\ pel \in [Worker -> SUBSET (1 .. delivered)]
             /\ worker \in WorkerType(delivered)
TableType == /\ outbox \in [Event -> OutboxState]
             /\ handler \in [Event -> HandlerState]
             /\ events \subseteq Event
             /\ clicks \in [Bucket -> Nat]
LocalType == /\ recon \in ReconType
             /\ status \in Status
             /\ report \in ReportType
             /\ faults \in 0 .. MaxFaults

LEMMA TypeParts == TypeOK <=> GroupType /\ TableType /\ LocalType
  BY DEF TypeOK, GroupType, TableType, LocalType, ReconType, ReportType, WorkerType

(* A click that is published, marked or recovered has been accepted.          *)
SourcesAccepted ==
    /\ \A e \in Event : handler[e] # "none" => outbox[e] # "absent"
    /\ \A e \in recon.todo : outbox[e] # "absent"
    /\ recon.marking # NoEvent => outbox[recon.marking] # "absent"
StreamAccepted == \A i \in 1 .. Len(stream) : outbox[stream[i]] # "absent"
EventsAccepted == \A e \in events : outbox[e] # "absent"

(* A worker acknowledges a message only when its event is in the table.       *)
PersistedIsStored ==
    \A w \in Worker : worker[w].persisted =>
        \E i \in worker[w].batch : IsNext(w, i) /\ stream[i] \in events

(* A row about to be marked is the row of an event that was delivered.        *)
MarksDelivered ==
    /\ \A e \in Event : handler[e] = "mark" => Delivered(e)
    /\ recon.marking # NoEvent => Delivered(recon.marking)

(* What a step can do to the stream, the group and the workers.               *)
Publishes == \E e \in Event : /\ stream' = Append(stream, e)
                              /\ outbox[e] # "absent"
                              /\ UNCHANGED <<groupVars, countedVars>>
Reads == \E w \in Worker : Read(w)
Persists == \E w \in Worker : \E i \in worker[w].batch : PersistConsumedEvent(w, i)
Acks == \E w \in Worker : \E i \in worker[w].batch : Ack(w, i)
(* A worker takes a batch, skips a message or starts again.                   *)
Rebatches == \E w \in Worker, b \in SUBSET (1 .. delivered) :
    /\ worker' = [worker EXCEPT ![w] = [batch |-> b, persisted |-> FALSE]]
    /\ UNCHANGED <<stream, delivered, pel, countedVars>>
Elsewhere == UNCHANGED <<stream, groupVars, events>>

(* What a step can do to the outbox.                                          *)
Accepts == \E e \in Event : /\ outbox[e] = "absent"
                            /\ outbox' = [outbox EXCEPT ![e] = "pending"]
                            /\ UNCHANGED countedVars
Marks == \E e \in Event : /\ handler[e] = "mark" \/ recon.marking = e
                          /\ outbox' = [outbox EXCEPT ![e] = "published"]
                          /\ UNCHANGED countedVars

LEMMA RebatchKinds ==
    ASSUME TypeOK, NEW w \in Worker,
           \/ ReadPending(w)
           \/ \E i \in worker[w].batch : SkipMessage(w, i)
           \/ RestartWorker(w)
    PROVE  Rebatches
  <1>1. worker[w] \in [batch : SUBSET (1 .. delivered), persisted : BOOLEAN]
    BY DEF TypeOK
  <1>2. CASE ReadPending(w)
    <2>1. PendingBatch(w) \in SUBSET (1 .. delivered)
      BY DEF TypeOK, PendingBatch, Prefix
    <2> QED BY <1>2, <2>1 DEF Rebatches, ReadPending, Take
  <1>3. CASE \E i \in worker[w].batch : SkipMessage(w, i)
    <2>1. PICK i \in worker[w].batch : SkipMessage(w, i)
      BY <1>3
    <2>2. worker[w].batch \ {i} \in SUBSET (1 .. delivered)
      BY <1>1
    <2> QED BY <2>1, <2>2 DEF Rebatches, SkipMessage, NextMessage, Take
  <1>4. CASE RestartWorker(w)
    <2>1. {} \in SUBSET (1 .. delivered)
      OBVIOUS
    <2>2. /\ worker' = [worker EXCEPT ![w] = [batch |-> {}, persisted |-> FALSE]]
          /\ UNCHANGED <<stream, delivered, pel, countedVars>>
      BY <1>4 DEF RestartWorker, Take
    <2> QED BY <2>1, <2>2 DEF Rebatches
  <1> QED BY <1>2, <1>3, <1>4

LEMMA StepKinds ==
    ASSUME TypeOK, SourcesAccepted, [Next]_vars
    PROVE  /\ Publishes \/ Reads \/ Persists \/ Acks \/ Rebatches \/ Elsewhere
           /\ Accepts \/ Marks \/ UNCHANGED outbox
  <1> USE DEF groupVars, countedVars, reportVars
  <1>1. CASE \E e \in Event : \/ Accept(e) \/ Publish(e) \/ MarkOutboxPublished(e)
                              \/ HandlerFails(e) \/ RecoverFails(e)
    <2>1. PICK e \in Event : \/ Accept(e) \/ Publish(e) \/ MarkOutboxPublished(e)
                             \/ HandlerFails(e) \/ RecoverFails(e)
      BY <1>1
    <2>2. CASE Accept(e)
      BY <2>2 DEF Accept, Elsewhere, Accepts
    <2>3. CASE Publish(e)
      BY <2>3 DEF Publish, Publishes, SourcesAccepted
    <2>4. CASE MarkOutboxPublished(e)
      BY <2>4 DEF MarkOutboxPublished, Elsewhere, Marks
    <2>5. CASE HandlerFails(e)
      BY <2>5 DEF HandlerFails, Elsewhere, Publishes, SourcesAccepted
    <2>6. CASE RecoverFails(e)
      BY <2>6 DEF RecoverFails, Elsewhere, Publishes, SourcesAccepted
    <2> QED BY <2>1, <2>2, <2>3, <2>4, <2>5, <2>6
  <1>2. CASE \E w \in Worker : \/ WorkerStep(w)
                               \/ \E i \in worker[w].batch : SkipMessage(w, i)
                               \/ RestartWorker(w)
    <2>1. PICK w \in Worker : \/ WorkerStep(w)
                              \/ \E i \in worker[w].batch : SkipMessage(w, i)
                              \/ RestartWorker(w)
      BY <1>2
    <2>2. UNCHANGED outbox
      BY <2>1 DEF WorkerStep, ReadPending, Read, PersistConsumedEvent, Ack,
                  SkipMessage, RestartWorker
    <2>3. CASE Read(w)
      BY <2>2, <2>3 DEF Reads
    <2>4. CASE \E i \in worker[w].batch : PersistConsumedEvent(w, i) \/ Ack(w, i)
      BY <2>2, <2>4 DEF Persists, Acks
    <2>5. CASE \/ ReadPending(w)
               \/ \E i \in worker[w].batch : SkipMessage(w, i)
               \/ RestartWorker(w)
      BY <2>2, <2>5, RebatchKinds
    <2> QED BY <2>1, <2>3, <2>4, <2>5 DEF WorkerStep
  <1>3. CASE ReconcilerStep
    <2>1. CASE \E e \in Event : Republish(e)
      BY <2>1 DEF Republish, Publishes, SourcesAccepted
    <2>2. CASE \E e \in Event : MarkRepublished(e)
      BY <2>2 DEF MarkRepublished, Elsewhere, Marks
    <2>3. CASE \/ BeginCycle \/ ReconcileAggregates \/ ReadOutboxTotal
               \/ ReadEventTotal \/ ReadAggregateTotal
               \/ RefreshWorkspaceCompleteness
      BY <2>3 DEF BeginCycle, ReconcileAggregates, ReadOutboxTotal, ReadEventTotal,
                  ReadAggregateTotal, RefreshWorkspaceCompleteness, Elsewhere
    <2> QED BY <1>3, <2>1, <2>2, <2>3 DEF ReconcilerStep
  <1>4. CASE AbortCycle \/ (\E b \in Queried : BeginReport(b)) \/ EndReport
    BY <1>4 DEF AbortCycle, BeginReport, EndReport, Elsewhere
  <1>5. CASE UNCHANGED vars
    BY <1>5 DEF vars, Elsewhere
  <1> QED BY <1>1, <1>2, <1>3, <1>4, <1>5 DEF Next

-----------------------------------------------------------------------------
(* The stream, the group and the workers keep their types.                    *)
LEMMA AppendEvent ==
    ASSUME NEW s \in Seq(Event), NEW e \in Event
    PROVE  /\ Append(s, e) \in Seq(Event)
           /\ Len(Append(s, e)) = Len(s) + 1
           /\ Append(s, e)[Len(s) + 1] = e
           /\ \A i \in 1 .. Len(s) : Append(s, e)[i] = s[i]
  OBVIOUS

(* Read hands the worker the messages after the last one delivered.           *)
LEMMA ReadEffect ==
    ASSUME GroupType, NEW w \in Worker, Read(w)
    PROVE  /\ delivered' \in delivered + 1 .. Len(stream)
           /\ NewBatch = delivered + 1 .. delivered'
           /\ pel' = [pel EXCEPT ![w] = NewBatch]
           /\ pel[w] = {}
           /\ worker' = worker \/ Take(w, NewBatch)
           /\ UNCHANGED <<stream, events>>
  <1> DEFINE last == IF Len(stream) - delivered < BatchSize
                     THEN Len(stream) ELSE delivered + BatchSize
  <1>1. delivered \in Nat /\ Len(stream) \in Nat /\ delivered < Len(stream)
    BY DEF GroupType, Read
  <1>2. BatchSize \in Nat \ {0}
    BY PipelineAssumption
  <1>3. last \in delivered + 1 .. Len(stream)
    BY <1>1, <1>2
  <1>4. NewBatch = delivered + 1 .. last
    BY DEF NewBatch
  <1> HIDE DEF last
  <1>5. delivered' \in NewBatch /\ \A i \in NewBatch : i <= delivered'
    BY DEF Read
  <1>6. delivered' = last
    BY <1>1, <1>3, <1>4, <1>5
  <1> QED BY <1>3, <1>4, <1>6 DEF Read, countedVars, reportVars

LEMMA GroupTypeStep ==
    ASSUME GroupType, events \subseteq Event,
           Publishes \/ Reads \/ Persists \/ Acks \/ Rebatches \/ Elsewhere
    PROVE  GroupType'
  <1> USE DEF groupVars, countedVars, reportVars, WorkerType
  <1>1. CASE Publishes
    <2>1. PICK e \in Event : stream' = Append(stream, e) /\ UNCHANGED groupVars
      BY <1>1 DEF Publishes
    <2>2. stream' \in Seq(Event) /\ Len(stream') = Len(stream) + 1
      BY <2>1, AppendEvent DEF GroupType
    <2>3. delivered \in 0 .. Len(stream')
      BY <2>2 DEF GroupType
    <2> QED BY <2>1, <2>2, <2>3 DEF GroupType
  <1>2. CASE Reads
    <2>1. PICK w \in Worker : Read(w)
      BY <1>2 DEF Reads
    <2>2. /\ delivered' \in delivered + 1 .. Len(stream)
          /\ NewBatch = delivered + 1 .. delivered'
          /\ pel' = [pel EXCEPT ![w] = NewBatch]
          /\ worker' = worker \/ Take(w, NewBatch)
          /\ stream' = stream
      BY <2>1, ReadEffect
    <2>3. delivered \in Nat /\ delivered' \in Nat /\ delivered' \in 0 .. Len(stream')
      BY <2>2 DEF GroupType
    <2>4. 1 .. delivered \subseteq 1 .. delivered' /\ NewBatch \subseteq 1 .. delivered'
      BY <2>2, <2>3
    <2>5. pel' \in [Worker -> SUBSET (1 .. delivered')]
      BY <2>2, <2>4 DEF GroupType
    <2>6. worker' \in [Worker -> [batch : SUBSET (1 .. delivered'), persisted : BOOLEAN]]
      <3>1. worker \in [Worker -> [batch : SUBSET (1 .. delivered'), persisted : BOOLEAN]]
        BY <2>4 DEF GroupType
      <3>2. [batch |-> NewBatch, persisted |-> FALSE]
              \in [batch : SUBSET (1 .. delivered'), persisted : BOOLEAN]
        BY <2>4
      <3> QED BY <2>2, <3>1, <3>2 DEF Take
    <2> QED BY <2>2, <2>3, <2>5, <2>6 DEF GroupType
  <1>3. CASE Persists
    BY <1>3 DEF Persists, PersistConsumedEvent, GroupType
  <1>4. CASE Acks
    BY <1>4 DEF Acks, Ack, NextMessage, Take, GroupType
  <1>5. CASE Rebatches
    BY <1>5 DEF Rebatches, GroupType
  <1>6. CASE Elsewhere
    BY <1>6 DEF Elsewhere, GroupType
  <1> QED BY <1>1, <1>2, <1>3, <1>4, <1>5, <1>6

-----------------------------------------------------------------------------
(* Messages are never forgotten: the ids stay, and a message leaves the group *)
(* only when its event is in the table.                                       *)
LEMMA DeliveredStep ==
    ASSUME GroupType, PersistedIsStored,
           Publishes \/ Reads \/ Persists \/ Acks \/ Rebatches \/ Elsewhere,
           NEW e \in Event, Delivered(e)
    PROVE  Delivered(e)'
  <1> USE DEF groupVars, countedVars, reportVars
  <1>1. Len(stream) \in Nat /\ delivered \in 0 .. Len(stream)
    BY DEF GroupType
  <1>2. CASE e \in events
    BY <1>2, ReadEffect DEF Publishes, Reads, Persists, PersistConsumedEvent, Acks,
            Ack, Rebatches, Elsewhere, Delivered
  <1>3. ASSUME InTransit(e) PROVE Delivered(e)'
    <2>1. PICK i \in 1 .. Len(stream) :
            stream[i] = e /\ (i > delivered \/ \E w \in Worker : i \in pel[w])
      BY <1>3 DEF InTransit
    <2>2. CASE Publishes
      <3>1. PICK f \in Event : stream' = Append(stream, f) /\ UNCHANGED groupVars
        BY <2>2 DEF Publishes
      <3>2. Len(stream') = Len(stream) + 1 /\ stream'[i] = stream[i]
        BY <3>1, AppendEvent DEF GroupType
      <3>3. i \in 1 .. Len(stream')
        BY <1>1, <3>2
      <3> QED BY <2>1, <3>1, <3>2, <3>3 DEF InTransit, Delivered
    <2>3. CASE Reads
      <3>1. PICK w \in Worker : Read(w)
        BY <2>3 DEF Reads
      <3>2. /\ delivered' \in delivered + 1 .. Len(stream)
            /\ NewBatch = delivered + 1 .. delivered'
            /\ pel' = [pel EXCEPT ![w] = NewBatch]
            /\ pel[w] = {}
            /\ stream' = stream
        BY <3>1, ReadEffect
      <3>3. pel \in [Worker -> SUBSET (1 .. delivered)]
        BY DEF GroupType
      <3>4. CASE i > delivered
        <4>1. i > delivered' \/ i \in NewBatch
          BY <1>1, <3>2, <3>4
        <4>2. pel'[w] = NewBatch
          BY <3>2, <3>3
        <4> QED BY <2>1, <3>2, <4>1, <4>2 DEF InTransit, Delivered
      <3>5. CASE \E v \in Worker : i \in pel[v]
        <4>1. PICK v \in Worker : i \in pel[v]
          BY <3>5
        <4>2. v # w /\ i \in pel'[v]
          BY <3>2, <3>3, <4>1
        <4> QED BY <2>1, <3>2, <4>2 DEF InTransit, Delivered
      <3> QED BY <2>1, <3>4, <3>5
    <2>4. CASE Persists
      BY <2>1, <2>4 DEF Persists, PersistConsumedEvent, InTransit, Delivered
    <2>5. CASE Acks
      <3>0. PICK w \in Worker : \E j \in worker[w].batch : Ack(w, j)
        BY <2>5 DEF Acks
      <3>1. PICK j \in worker[w].batch : Ack(w, j)
        BY <3>0
      <3>2. j \in 1 .. delivered /\ worker[w].persisted
        BY <3>1 DEF GroupType, WorkerType, Ack
      <3>3. PICK k \in worker[w].batch : IsNext(w, k) /\ stream[k] \in events
        BY <3>2 DEF PersistedIsStored
      <3>4. k \in 1 .. delivered
        BY <3>3 DEF GroupType, WorkerType
      <3>5. j <= k /\ k <= j
        BY <3>1, <3>3 DEF Ack, IsNext
      <3>6. j = k
        BY <1>1, <3>2, <3>4, <3>5
      <3>7. CASE i = j
        BY <2>1, <3>1, <3>3, <3>6, <3>7 DEF Ack, Delivered
      <3>8. CASE i # j
        <4>1. pel' = [pel EXCEPT ![w] = pel[w] \ {j}] /\ UNCHANGED <<stream, delivered>>
          BY <3>1 DEF Ack
        <4>2. \A v \in Worker : i \in pel[v] => i \in pel'[v]
          BY <3>8, <4>1 DEF GroupType
        <4> QED BY <2>1, <4>1, <4>2 DEF InTransit, Delivered
      <3> QED BY <3>7, <3>8
    <2>6. CASE Rebatches
      BY <2>1, <2>6 DEF Rebatches, InTransit, Delivered
    <2>7. CASE Elsewhere
      BY <2>1, <2>7 DEF Elsewhere, InTransit, Delivered
    <2> QED BY <2>2, <2>3, <2>4, <2>5, <2>6, <2>7
  <1> QED BY <1>2, <1>3 DEF Delivered

LEMMA PersistedStep ==
    ASSUME GroupType, PersistedIsStored,
           Publishes \/ Reads \/ Persists \/ Acks \/ Rebatches \/ Elsewhere
    PROVE  PersistedIsStored'
  <1> USE DEF groupVars, countedVars, reportVars
  <1>1. worker \in [Worker -> [batch : SUBSET (1 .. delivered), persisted : BOOLEAN]]
    BY DEF GroupType, WorkerType
  <1>2. CASE Publishes
    <2>1. PICK f \in Event : /\ stream' = Append(stream, f)
                             /\ UNCHANGED groupVars /\ UNCHANGED events
      BY <1>2 DEF Publishes
    <2>2. \A i \in 1 .. Len(stream) : stream'[i] = stream[i]
      BY <2>1, AppendEvent DEF GroupType
    <2>3. 1 .. delivered \subseteq 1 .. Len(stream)
      BY DEF GroupType
    <2> QED BY <1>1, <2>1, <2>2, <2>3 DEF PersistedIsStored, IsNext
  <1>3. ASSUME NEW w \in Worker, NEW b, Take(w, b), UNCHANGED <<stream, events>>
        PROVE  PersistedIsStored'
    <2>1. worker'[w].persisted = FALSE /\ \A v \in Worker : v # w => worker'[v] = worker[v]
      BY <1>1, <1>3 DEF Take
    <2> QED BY <1>3, <2>1 DEF PersistedIsStored, IsNext
  <1>4. CASE Reads
    <2>1. PICK w \in Worker : Read(w)
      BY <1>4 DEF Reads
    <2>2. (worker' = worker \/ Take(w, NewBatch)) /\ UNCHANGED <<stream, events>>
      BY <2>1, ReadEffect
    <2>3. CASE worker' = worker
      BY <2>2, <2>3 DEF PersistedIsStored, IsNext
    <2> QED BY <1>3, <2>2, <2>3
  <1>5. CASE Persists
    <2>0. PICK w \in Worker : \E i \in worker[w].batch : PersistConsumedEvent(w, i)
      BY <1>5 DEF Persists
    <2>1. PICK i \in worker[w].batch : PersistConsumedEvent(w, i)
      BY <2>0
    <2>2. /\ worker' = [worker EXCEPT ![w].persisted = TRUE]
          /\ IsNext(w, i)
          /\ events' = events \union {stream[i]} /\ stream' = stream
      BY <2>1 DEF PersistConsumedEvent
    <2>3. \A v \in Worker : worker'[v].batch = worker[v].batch
                             /\ (v # w => worker'[v] = worker[v])
      BY <1>1, <2>2
    <2> QED BY <2>2, <2>3 DEF PersistedIsStored, IsNext
  <1>6. CASE Acks
    BY <1>3, <1>6 DEF Acks, Ack, NextMessage
  <1>7. CASE Rebatches
    BY <1>3, <1>7 DEF Rebatches, Take
  <1>8. CASE Elsewhere
    BY <1>8 DEF Elsewhere, PersistedIsStored, IsNext
  <1> QED BY <1>2, <1>4, <1>5, <1>6, <1>7, <1>8

-----------------------------------------------------------------------------
(* The outbox: rows are added and marked, never removed.                      *)
LEMMA OutboxStep ==
    ASSUME outbox \in [Event -> OutboxState], SourcesAccepted,
           Accepts \/ Marks \/ UNCHANGED outbox
    PROVE  /\ outbox' \in [Event -> OutboxState]
           /\ \A e \in Event : outbox[e] # "absent" => outbox'[e] # "absent"
           /\ \A e \in Event : outbox'[e] = "published" =>
                \/ outbox[e] = "published"
                \/ handler[e] = "mark"
                \/ recon.marking = e
           /\ IsFiniteSet(Accepted) => IsFiniteSet(Accepted')
  <1>1. CASE Accepts
    <2>1. PICK e \in Event : outbox[e] = "absent" /\ outbox' = [outbox EXCEPT ![e] = "pending"]
      BY <1>1 DEF Accepts
    <2>2. Accepted' = Accepted \union {e}
      BY <2>1 DEF Accepted
    <2>3. IsFiniteSet(Accepted) => IsFiniteSet(Accepted')
      BY <2>2, FS_AddElement
    <2> QED BY <2>1, <2>3 DEF OutboxState
  <1>2. CASE Marks
    <2>1. PICK e \in Event : /\ handler[e] = "mark" \/ recon.marking = e
                             /\ outbox' = [outbox EXCEPT ![e] = "published"]
      BY <1>2 DEF Marks
    <2>2. outbox[e] # "absent"
      BY <2>1, PipelineAssumption DEF SourcesAccepted
    <2>3. Accepted' = Accepted
      BY <2>1, <2>2 DEF Accepted
    <2> QED BY <2>1, <2>3 DEF OutboxState
  <1>3. CASE UNCHANGED outbox
    BY <1>3 DEF Accepted
  <1> QED BY <1>1, <1>2, <1>3

(* What is consumed was accepted, and the set of events stays finite.         *)
LEMMA EventsStep ==
    ASSUME GroupType, events \subseteq Event, SourcesAccepted, StreamAccepted,
           EventsAccepted, outbox \in [Event -> OutboxState], IsFiniteSet(events),
           Publishes \/ Reads \/ Persists \/ Acks \/ Rebatches \/ Elsewhere,
           Accepts \/ Marks \/ UNCHANGED outbox
    PROVE  /\ events' \subseteq Event
           /\ IsFiniteSet(events')
           /\ StreamAccepted'
           /\ EventsAccepted'
  <1> USE DEF groupVars, countedVars, reportVars
  <1>1. \A e \in Event : outbox[e] # "absent" => outbox'[e] # "absent"
    BY OutboxStep
  <1>2. \A i \in 1 .. Len(stream) : stream[i] \in Event
    BY DEF GroupType
  <1>3. CASE Publishes
    <2>1. PICK e \in Event : /\ stream' = Append(stream, e) /\ outbox[e] # "absent"
                             /\ UNCHANGED events
      BY <1>3 DEF Publishes
    <2>2. /\ Len(stream') = Len(stream) + 1 /\ stream'[Len(stream) + 1] = e
          /\ \A i \in 1 .. Len(stream) : stream'[i] = stream[i]
      BY <2>1, AppendEvent DEF GroupType
    <2>3. Len(stream) \in Nat
      BY DEF GroupType
    <2>4. ASSUME NEW i \in 1 .. Len(stream') PROVE outbox'[stream'[i]] # "absent"
      <3>1. i = Len(stream) + 1 \/ i \in 1 .. Len(stream)
        BY <2>2, <2>3
      <3> QED BY <1>1, <1>2, <2>1, <2>2, <3>1 DEF StreamAccepted
    <2> QED BY <1>1, <2>1, <2>4 DEF StreamAccepted, EventsAccepted
  <1>4. CASE Persists
    <2>1. PICK w \in Worker : \E i \in worker[w].batch : PersistConsumedEvent(w, i)
      BY <1>4 DEF Persists
    <2>2. PICK i \in worker[w].batch : PersistConsumedEvent(w, i)
      BY <2>1
    <2>3. i \in 1 .. Len(stream)
      BY DEF GroupType, WorkerType
    <2>4. stream[i] \in Event /\ outbox[stream[i]] # "absent"
      BY <1>2, <2>3 DEF StreamAccepted
    <2>5. events' = events \union {stream[i]} /\ stream' = stream /\ outbox' = outbox
      BY <2>2 DEF PersistConsumedEvent
    <2>6. IsFiniteSet(events')
      BY <2>5, FS_AddElement
    <2> QED BY <2>4, <2>5, <2>6 DEF StreamAccepted, EventsAccepted
  <1>5. CASE Reads \/ Acks \/ Rebatches \/ Elsewhere
    <2>1. UNCHANGED <<stream, events>>
      BY <1>5 DEF Reads, Read, Acks, Ack, Rebatches, Elsewhere
    <2> QED BY <1>1, <1>2, <2>1 DEF StreamAccepted, EventsAccepted
  <1> QED BY <1>3, <1>4, <1>5

-----------------------------------------------------------------------------
(* The handlers and the reconciler: their own state.                          *)
HandlerAction(e) ==
    Accept(e) \/ Publish(e) \/ MarkOutboxPublished(e) \/ HandlerFails(e)
WorkerAction ==
    \E w \in Worker : \/ WorkerStep(w)
                      \/ \E i \in worker[w].batch : SkipMessage(w, i)
                      \/ RestartWorker(w)
RecoverAction(e) == Republish(e) \/ MarkRepublished(e) \/ RecoverFails(e)
CycleAction ==
    \/ BeginCycle \/ ReconcileAggregates \/ ReadOutboxTotal \/ ReadEventTotal
    \/ ReadAggregateTotal \/ RefreshWorkspaceCompleteness \/ AbortCycle
ReportAction == (\E b \in Queried : BeginReport(b)) \/ EndReport

LEMMA Actions ==
    ASSUME [Next]_vars
    PROVE  \/ \E e \in Event : HandlerAction(e)
           \/ WorkerAction
           \/ \E e \in Event : RecoverAction(e)
           \/ CycleAction
           \/ ReportAction
           \/ UNCHANGED vars
  BY DEF Next, HandlerAction, WorkerAction, RecoverAction, CycleAction, ReportAction,
         ReconcilerStep

LEMMA FaultType ==
    ASSUME faults \in 0 .. MaxFaults, Fault
    PROVE  faults' \in 0 .. MaxFaults
  BY PipelineAssumption DEF Fault

LEMMA IdleType == IdleRecon \in ReconType /\ NoReport \in ReportType
  BY DEF IdleRecon, ReconType, ReconStep, NoReport, ReportType

(* A cycle keeps the type of what it remembers.                               *)
LEMMA CycleType ==
    ASSUME recon \in ReconType, FiniteRows, CycleAction
    PROVE  recon' \in ReconType
  <1>1. Cardinality(Accepted) \in Nat /\ Cardinality(events) \in Nat
    BY FS_CardinalityType DEF FiniteRows
  <1>2. CASE BeginCycle
    <2>1. PICK todo \in SUBSET Pending :
            recon' = [IdleRecon EXCEPT !.step = "recover", !.todo = todo]
      BY <1>2 DEF BeginCycle
    <2>2. todo \in SUBSET Event
      BY DEF Pending
    <2> QED BY <2>1, <2>2 DEF IdleRecon, ReconType, ReconStep
  <1>3. CASE ReconcileAggregates
    BY <1>3 DEF ReconcileAggregates, ReconType, ReconStep
  <1>4. CASE ReadOutboxTotal
    <2>1. Accepted \in SUBSET Event
      BY DEF Accepted
    <2> QED BY <1>1, <1>4, <2>1 DEF ReadOutboxTotal, ReconType, ReconStep
  <1>5. CASE ReadEventTotal
    BY <1>1, <1>5 DEF ReadEventTotal, ReconType, ReconStep
  <1>6. CASE ReadAggregateTotal
    <2> DEFINE agree == recon.events = TotalClicks
    <2>1. agree \in BOOLEAN
      OBVIOUS
    <2>2. recon' = [recon EXCEPT !.step = "refresh", !.agree = agree]
      BY <1>6 DEF ReadAggregateTotal
    <2> HIDE DEF agree
    <2> QED BY <2>1, <2>2 DEF ReconType, ReconStep
  <1>7. CASE RefreshWorkspaceCompleteness \/ AbortCycle
    BY <1>7, IdleType DEF RefreshWorkspaceCompleteness, AbortCycle
  <1> QED BY <1>2, <1>3, <1>4, <1>5, <1>6, <1>7 DEF CycleAction

LEMMA LocalTypeStep ==
    ASSUME LocalType, handler \in [Event -> HandlerState], FiniteRows, [Next]_vars
    PROVE  LocalType' /\ handler' \in [Event -> HandlerState]
  <1> USE DEF groupVars, countedVars, reportVars
  <1>1. ASSUME NEW e \in Event, HandlerAction(e)
        PROVE  LocalType' /\ handler' \in [Event -> HandlerState]
    <2>1. faults' \in 0 .. MaxFaults
      BY <1>1, FaultType DEF LocalType, HandlerAction, Accept, Publish,
         MarkOutboxPublished, HandlerFails
    <2>2. UNCHANGED <<recon, status, report>>
      BY <1>1 DEF HandlerAction, Accept, Publish, MarkOutboxPublished, HandlerFails
    <2>3. handler' \in [Event -> HandlerState]
      BY <1>1 DEF HandlerAction, Accept, Publish, MarkOutboxPublished, HandlerFails,
                  HandlerState
    <2> QED BY <2>1, <2>2, <2>3 DEF LocalType
  <1>2. CASE WorkerAction
    <2>1. faults' \in 0 .. MaxFaults
      BY <1>2, FaultType DEF LocalType, WorkerAction, WorkerStep, ReadPending, Read,
         PersistConsumedEvent, Ack, SkipMessage, RestartWorker
    <2>2. UNCHANGED <<handler, recon, status, report>>
      BY <1>2 DEF WorkerAction, WorkerStep, ReadPending, Read, PersistConsumedEvent,
                  Ack, SkipMessage, RestartWorker
    <2> QED BY <2>1, <2>2 DEF LocalType
  <1>3. ASSUME NEW e \in Event, RecoverAction(e)
        PROVE  LocalType' /\ handler' \in [Event -> HandlerState]
    <2>1. faults' \in 0 .. MaxFaults
      BY <1>3, FaultType DEF LocalType, RecoverAction, Republish, MarkRepublished,
         RecoverFails
    <2>2. UNCHANGED <<handler, status, report>>
      BY <1>3 DEF RecoverAction, Republish, MarkRepublished, RecoverFails
    <2>3. recon' \in ReconType
      BY <1>3 DEF LocalType, RecoverAction, Republish, MarkRepublished, RecoverFails,
                  ReconType
    <2> QED BY <2>1, <2>2, <2>3 DEF LocalType
  <1>4. CASE CycleAction
    <2>1. faults' \in 0 .. MaxFaults
      BY <1>4, FaultType DEF LocalType, CycleAction, BeginCycle, ReconcileAggregates,
         ReadOutboxTotal, ReadEventTotal, ReadAggregateTotal,
         RefreshWorkspaceCompleteness, AbortCycle
    <2>2. status' \in Status /\ UNCHANGED <<handler, report>>
      BY <1>4 DEF LocalType, CycleAction, BeginCycle, ReconcileAggregates,
         ReadOutboxTotal, ReadEventTotal, ReadAggregateTotal,
         RefreshWorkspaceCompleteness, AbortCycle, Status
    <2>3. recon' \in ReconType
      BY <1>4, CycleType DEF LocalType
    <2> QED BY <2>1, <2>2, <2>3 DEF LocalType
  <1>5. CASE ReportAction
    <2>1. report' \in ReportType
      <3>1. CASE \E b \in Queried : BeginReport(b)
        BY <3>1, PipelineAssumption DEF BeginReport, ReportType
      <3> QED BY <1>5, <3>1, IdleType DEF ReportAction, EndReport
    <2>2. UNCHANGED <<handler, recon, status, faults>>
      BY <1>5 DEF ReportAction, BeginReport, EndReport
    <2> QED BY <2>1, <2>2 DEF LocalType
  <1>6. CASE UNCHANGED vars
    BY <1>6 DEF vars, LocalType
  <1> QED BY <1>1, <1>2, <1>3, <1>4, <1>5, <1>6, Actions

-----------------------------------------------------------------------------
(* The inductive invariant.                                                   *)
IInv ==
    /\ GroupType /\ TableType /\ LocalType
    /\ FiniteRows
    /\ SourcesAccepted /\ StreamAccepted /\ EventsAccepted
    /\ PersistedIsStored /\ MarksDelivered /\ NothingLost
    /\ AggregatesMatchEvents

LEMMA Kinds ==
    ASSUME IInv, [Next]_vars
    PROVE  /\ Publishes \/ Reads \/ Persists \/ Acks \/ Rebatches \/ Elsewhere
           /\ Accepts \/ Marks \/ UNCHANGED outbox
  BY StepKinds, TypeParts DEF IInv

LEMMA SourcesStep ==
    ASSUME IInv, [Next]_vars
    PROVE  SourcesAccepted'
  <1>1. \A e \in Event : outbox[e] # "absent" => outbox'[e] # "absent"
    BY Kinds, OutboxStep DEF IInv, TableType
  <1>2. recon \in ReconType
    BY DEF IInv, LocalType
  <1>3. NoEvent \notin Event
    BY PipelineAssumption
  <1>4. handler \in [Event -> HandlerState] /\ outbox \in [Event -> OutboxState]
    BY DEF IInv, TableType
  <1>5. SourcesAccepted
    BY DEF IInv
  <1>6. ASSUME NEW e \in Event, HandlerAction(e) PROVE SourcesAccepted'
    <2>1. recon' = recon
      BY <1>6 DEF HandlerAction, Accept, Publish, MarkOutboxPublished, HandlerFails
    <2>2. \A f \in Event : handler'[f] # "none" => handler[f] # "none" \/ outbox'[f] # "absent"
      BY <1>4, <1>6 DEF HandlerAction, Accept, Publish, MarkOutboxPublished, HandlerFails
    <2> QED BY <1>1, <1>2, <1>5, <2>1, <2>2 DEF SourcesAccepted, ReconType
  <1>7. ASSUME NEW e \in Event, RecoverAction(e) PROVE SourcesAccepted'
    <2>1. handler' = handler
      BY <1>7 DEF RecoverAction, Republish, MarkRepublished, RecoverFails
    <2>2. recon'.todo \subseteq recon.todo
      <3>1. CASE Republish(e)
        BY <1>2, <3>1 DEF Republish, ReconType
      <3>2. CASE MarkRepublished(e)
        BY <1>2, <3>2 DEF MarkRepublished, ReconType
      <3>3. CASE RecoverFails(e)
        BY <1>2, <3>3 DEF RecoverFails, ReconType
      <3> QED BY <1>7, <3>1, <3>2, <3>3 DEF RecoverAction
    <2>3. recon'.marking \in recon.todo \union {NoEvent}
      BY <1>2, <1>7 DEF RecoverAction, Republish, MarkRepublished, RecoverFails, ReconType
    <2>4. recon.todo \subseteq Event
      BY <1>2 DEF ReconType
    <2> QED BY <1>1, <1>5, <2>1, <2>2, <2>3, <2>4 DEF SourcesAccepted
  <1>8. CASE CycleAction
    <2>1. handler' = handler /\ outbox' = outbox
      BY <1>8 DEF CycleAction, BeginCycle, ReconcileAggregates, ReadOutboxTotal,
         ReadEventTotal, ReadAggregateTotal, RefreshWorkspaceCompleteness, AbortCycle
    <2>2. CASE BeginCycle
      <3>1. PICK todo \in SUBSET Pending :
              recon' = [IdleRecon EXCEPT !.step = "recover", !.todo = todo]
        BY <2>2 DEF BeginCycle
      <3>2. recon'.todo = todo /\ recon'.marking = NoEvent
        BY <3>1 DEF IdleRecon
      <3> QED BY <1>5, <2>1, <3>2 DEF SourcesAccepted, Pending
    <2>3. CASE ReconcileAggregates \/ ReadOutboxTotal \/ ReadEventTotal \/ ReadAggregateTotal
      <3>1. recon'.todo = recon.todo /\ recon'.marking = recon.marking
        BY <1>2, <2>3 DEF ReconcileAggregates, ReadOutboxTotal, ReadEventTotal,
           ReadAggregateTotal, ReconType
      <3> QED BY <1>5, <2>1, <3>1 DEF SourcesAccepted
    <2>4. CASE RefreshWorkspaceCompleteness \/ AbortCycle
      <3>1. recon'.todo = {} /\ recon'.marking = NoEvent
        BY <2>4 DEF RefreshWorkspaceCompleteness, AbortCycle, IdleRecon
      <3> QED BY <1>5, <2>1, <3>1 DEF SourcesAccepted
    <2> QED BY <1>8, <2>2, <2>3, <2>4 DEF CycleAction
  <1>9. CASE WorkerAction \/ ReportAction \/ UNCHANGED vars
    <2>1. UNCHANGED <<handler, recon, outbox>>
      BY <1>9 DEF WorkerAction, WorkerStep, ReadPending, Read, PersistConsumedEvent,
         Ack, SkipMessage, RestartWorker, ReportAction, BeginReport, EndReport, vars
    <2> QED BY <1>5, <2>1 DEF SourcesAccepted
  <1> QED BY <1>6, <1>7, <1>8, <1>9, Actions

(* A message just appended is in transit.                                     *)
LEMMA PublishedIsDelivered ==
    ASSUME GroupType, NEW e \in Event, stream' = Append(stream, e), UNCHANGED groupVars
    PROVE  Delivered(e)'
  <1>1. /\ Len(stream') = Len(stream) + 1 /\ stream'[Len(stream) + 1] = e
        /\ Len(stream) \in Nat /\ delivered' \in 0 .. Len(stream)
    BY AppendEvent DEF GroupType, groupVars
  <1>2. Len(stream) + 1 \in 1 .. Len(stream') /\ Len(stream) + 1 > delivered'
    BY <1>1
  <1> QED BY <1>1, <1>2 DEF Delivered, InTransit

LEMMA MarksStep ==
    ASSUME IInv, [Next]_vars
    PROVE  MarksDelivered'
  <1>1. \A e \in Event : Delivered(e) => Delivered(e)'
    BY Kinds, DeliveredStep DEF IInv
  <1>2. recon \in ReconType /\ handler \in [Event -> HandlerState]
    BY DEF IInv, LocalType, TableType
  <1>3. MarksDelivered
    BY DEF IInv
  <1>4. ASSUME \A e \in Event : handler'[e] = "mark" => handler[e] = "mark" \/ Delivered(e)',
               \/ recon'.marking \in {recon.marking, NoEvent}
               \/ \E e \in Event : recon'.marking = e /\ Delivered(e)'
        PROVE  MarksDelivered'
    <2>1. recon.marking # NoEvent => recon.marking \in Event
      BY <1>2 DEF ReconType
    <2>2. recon.marking # NoEvent => Delivered(recon.marking)
      BY <1>3 DEF MarksDelivered
    <2>3. \A e \in Event : handler'[e] = "mark" => Delivered(e)'
      BY <1>1, <1>3, <1>4 DEF MarksDelivered
    <2>4. ASSUME NEW e \in Event, recon'.marking = e PROVE Delivered(e)'
      <3>1. CASE recon.marking = e
        BY <1>1, <2>2, <2>4, <3>1, PipelineAssumption
      <3> QED BY <1>4, <2>4, <3>1, PipelineAssumption
    <2>5. recon'.marking # NoEvent => recon'.marking \in Event
      BY <1>4, <2>1
    <2> QED BY <2>3, <2>4, <2>5 DEF MarksDelivered
  <1>5. ASSUME NEW e \in Event, HandlerAction(e) PROVE MarksDelivered'
    <2>1. recon' = recon
      BY <1>5 DEF HandlerAction, Accept, Publish, MarkOutboxPublished, HandlerFails
    <2>2. CASE Publish(e)
      <3>1. Delivered(e)'
        BY <2>2, PublishedIsDelivered DEF IInv, Publish, groupVars
      <3> QED BY <1>2, <1>4, <2>1, <2>2, <3>1 DEF Publish
    <2>3. CASE Accept(e) \/ MarkOutboxPublished(e) \/ HandlerFails(e)
      <3>1. \A f \in Event : handler'[f] = "mark" => handler[f] = "mark"
        BY <1>2, <2>3 DEF Accept, MarkOutboxPublished, HandlerFails
      <3> QED BY <1>4, <2>1, <3>1
    <2> QED BY <1>5, <2>2, <2>3 DEF HandlerAction
  <1>6. ASSUME NEW e \in Event, RecoverAction(e) PROVE MarksDelivered'
    <2>1. handler' = handler
      BY <1>6 DEF RecoverAction, Republish, MarkRepublished, RecoverFails
    <2>2. CASE Republish(e)
      <3>1. Delivered(e)'
        BY <2>2, PublishedIsDelivered DEF IInv, Republish, groupVars
      <3>2. recon'.marking = e
        BY <1>2, <2>2 DEF Republish, ReconType
      <3> QED BY <1>4, <2>1, <3>1, <3>2
    <2>3. CASE MarkRepublished(e) \/ RecoverFails(e)
      <3>1. recon'.marking = NoEvent
        BY <1>2, <2>3 DEF MarkRepublished, RecoverFails, ReconType
      <3> QED BY <1>4, <2>1, <3>1
    <2> QED BY <1>6, <2>2, <2>3 DEF RecoverAction
  <1>7. CASE CycleAction
    <2>1. handler' = handler
      BY <1>7 DEF CycleAction, BeginCycle, ReconcileAggregates, ReadOutboxTotal,
         ReadEventTotal, ReadAggregateTotal, RefreshWorkspaceCompleteness, AbortCycle
    <2>2. recon'.marking \in {recon.marking, NoEvent}
      <3>1. CASE BeginCycle \/ RefreshWorkspaceCompleteness \/ AbortCycle
        <4>1. IdleRecon.marking = NoEvent /\ \A t : [IdleRecon EXCEPT !.step = "recover",
                                                     !.todo = t].marking = NoEvent
          BY DEF IdleRecon
        <4> QED BY <3>1, <4>1 DEF BeginCycle, RefreshWorkspaceCompleteness, AbortCycle
      <3>2. CASE ReconcileAggregates \/ ReadOutboxTotal \/ ReadEventTotal \/ ReadAggregateTotal
        BY <1>2, <3>2 DEF ReconcileAggregates, ReadOutboxTotal, ReadEventTotal,
           ReadAggregateTotal, ReconType
      <3> QED BY <1>7, <3>1, <3>2 DEF CycleAction
    <2> QED BY <1>4, <2>1, <2>2
  <1>8. CASE WorkerAction \/ ReportAction \/ UNCHANGED vars
    <2>1. UNCHANGED <<handler, recon>>
      BY <1>8 DEF WorkerAction, WorkerStep, ReadPending, Read, PersistConsumedEvent,
         Ack, SkipMessage, RestartWorker, ReportAction, BeginReport, EndReport, vars
    <2> QED BY <1>4, <2>1
  <1> QED BY <1>5, <1>6, <1>7, <1>8, Actions

LEMMA NothingLostStep ==
    ASSUME IInv, [Next]_vars
    PROVE  NothingLost'
  <1>1. \A e \in Event : Delivered(e) => Delivered(e)'
    BY Kinds, DeliveredStep DEF IInv
  <1>2. \A e \in Event : outbox'[e] = "published" =>
            outbox[e] = "published" \/ handler[e] = "mark" \/ recon.marking = e
    BY Kinds, OutboxStep DEF IInv, TableType
  <1>3. \A e \in Event : outbox'[e] = "published" => Delivered(e)
    BY <1>2, PipelineAssumption DEF IInv, NothingLost, MarksDelivered
  <1> QED BY <1>1, <1>3 DEF NothingLost

-----------------------------------------------------------------------------
(* Counting.                                                                  *)
LEMMA CountType ==
    ASSUME NEW S, IsFiniteSet(S)
    PROVE  CountPerBucket(S) \in [Bucket -> Nat]
  <1>1. ASSUME NEW b \in Bucket PROVE Cardinality(InBucket(S, b)) \in Nat
    <2>1. IsFiniteSet(InBucket(S, b))
      BY FS_Subset DEF InBucket
    <2> QED BY <2>1, FS_CardinalityType
  <1> QED BY <1>1 DEF CountPerBucket

LEMMA CountOneMore ==
    ASSUME NEW S, IsFiniteSet(S), NEW e \in Event, e \notin S
    PROVE  CountPerBucket(S \union {e})
             = [CountPerBucket(S) EXCEPT ![BucketOf[e]] = @ + 1]
  <1> DEFINE T == S \union {e}
  <1>1. ASSUME NEW b \in Bucket, b # BucketOf[e] PROVE InBucket(T, b) = InBucket(S, b)
    BY <1>1 DEF InBucket
  <1>2. InBucket(T, BucketOf[e]) = InBucket(S, BucketOf[e]) \union {e}
    BY DEF InBucket
  <1>3. e \notin InBucket(S, BucketOf[e]) /\ IsFiniteSet(InBucket(S, BucketOf[e]))
    BY FS_Subset DEF InBucket
  <1>4. Cardinality(InBucket(T, BucketOf[e])) = Cardinality(InBucket(S, BucketOf[e])) + 1
    BY <1>2, <1>3, FS_AddElement
  <1> HIDE DEF T
  <1>5. CountPerBucket(T) = [CountPerBucket(S) EXCEPT ![BucketOf[e]] = @ + 1]
    BY <1>1, <1>4 DEF CountPerBucket
  <1> QED BY <1>5 DEF T

(* Only consuming an event and rebuilding the aggregates change a count.      *)
LEMMA CountKinds ==
    ASSUME [Next]_vars
    PROVE  \/ Persists
           \/ UNCHANGED countedVars
           \/ clicks' = CountPerBucket(events) /\ UNCHANGED <<outbox, events>>
  <1> USE DEF groupVars, countedVars, reportVars
  <1>1. CASE WorkerAction
    BY <1>1 DEF WorkerAction, WorkerStep, ReadPending, Read, Ack, SkipMessage,
       RestartWorker, Persists
  <1>2. CASE CycleAction
    BY <1>2 DEF CycleAction, BeginCycle, ReconcileAggregates, Rebuilt, ReadOutboxTotal,
       ReadEventTotal, ReadAggregateTotal, RefreshWorkspaceCompleteness, AbortCycle
  <1>3. CASE \E e \in Event : HandlerAction(e) \/ RecoverAction(e)
    BY <1>3 DEF HandlerAction, Accept, Publish, MarkOutboxPublished, HandlerFails,
       RecoverAction, Republish, MarkRepublished, RecoverFails
  <1>4. CASE ReportAction \/ UNCHANGED vars
    BY <1>4 DEF ReportAction, BeginReport, EndReport, vars
  <1> QED BY <1>1, <1>2, <1>3, <1>4, Actions

(* Consuming a message counts its event, or nothing if it was counted before. *)
LEMMA PersistCounts ==
    ASSUME IInv, Persists
    PROVE  \E e \in Event :
             /\ outbox[e] # "absent" /\ outbox' = outbox
             /\ events' = events \union {e}
             /\ clicks' = IF e \in events THEN clicks
                          ELSE [clicks EXCEPT ![BucketOf[e]] = @ + 1]
  <1>1. PICK w \in Worker : \E i \in worker[w].batch : PersistConsumedEvent(w, i)
    BY DEF Persists
  <1>2. PICK i \in worker[w].batch : PersistConsumedEvent(w, i)
    BY <1>1
  <1>3. i \in 1 .. Len(stream)
    BY DEF IInv, GroupType, WorkerType
  <1>4. stream[i] \in Event /\ outbox[stream[i]] # "absent"
    BY <1>3 DEF IInv, GroupType, StreamAccepted
  <1> QED BY <1>2, <1>4 DEF PersistConsumedEvent

LEMMA CountStep ==
    ASSUME IInv, [Next]_vars
    PROVE  AggregatesMatchEvents' /\ clicks' \in [Bucket -> Nat]
  <1>1. clicks = CountPerBucket(events) /\ IsFiniteSet(events)
    BY DEF IInv, AggregatesMatchEvents, FiniteRows
  <1>2. clicks' = CountPerBucket(events')
    <2>1. CASE Persists
      <3>1. PICK e \in Event :
              /\ events' = events \union {e}
              /\ clicks' = IF e \in events THEN clicks
                           ELSE [clicks EXCEPT ![BucketOf[e]] = @ + 1]
        BY <2>1, PersistCounts
      <3>2. CASE e \in events
        <4>1. events' = events
          BY <3>1, <3>2
        <4> QED BY <1>1, <3>1, <3>2, <4>1
      <3>3. CASE e \notin events
        BY <1>1, <3>1, <3>3, CountOneMore
      <3> QED BY <3>2, <3>3
    <2> QED BY <1>1, <2>1, CountKinds DEF countedVars
  <1>3. IsFiniteSet(events')
    <2>1. CASE Persists
      BY <1>1, <2>1, PersistCounts, FS_AddElement
    <2> QED BY <1>1, <2>1, CountKinds DEF countedVars
  <1> QED BY <1>2, <1>3, CountType DEF AggregatesMatchEvents, CountPerBucket, InBucket

-----------------------------------------------------------------------------
LEMMA InitInv == Init => IInv
  <1> SUFFICES ASSUME Init PROVE IInv
    OBVIOUS
  <1> USE DEF Init
  <1>1. stream \in Seq(Event) /\ Len(stream) = 0
    OBVIOUS
  <1>2. GroupType
    BY <1>1 DEF GroupType, WorkerType, IdleWorker
  <1>3. TableType
    BY DEF TableType, OutboxState, HandlerState
  <1>4. LocalType
    BY IdleType, PipelineAssumption DEF LocalType, Status
  <1>5. Accepted = {}
    BY DEF Accepted
  <1>6. FiniteRows
    BY <1>5, FS_EmptySet DEF FiniteRows
  <1>7. SourcesAccepted /\ MarksDelivered
    BY DEF SourcesAccepted, MarksDelivered, IdleRecon
  <1>8. StreamAccepted /\ EventsAccepted
    BY <1>1 DEF StreamAccepted, EventsAccepted
  <1>9. PersistedIsStored
    BY DEF PersistedIsStored, IdleWorker
  <1>10. NothingLost
    BY DEF NothingLost
  <1>11. \A b \in Bucket : InBucket({}, b) = {}
    BY DEF InBucket
  <1>12. AggregatesMatchEvents
    BY <1>11, FS_EmptySet DEF AggregatesMatchEvents, CountPerBucket
  <1> QED BY <1>2, <1>3, <1>4, <1>6, <1>7, <1>8, <1>9, <1>10, <1>12 DEF IInv

LEMMA StepInv == IInv /\ [Next]_vars => IInv'
  <1> SUFFICES ASSUME IInv, [Next]_vars PROVE IInv'
    OBVIOUS
  <1>1. GroupType'
    BY Kinds, GroupTypeStep DEF IInv, TableType
  <1>2. /\ outbox' \in [Event -> OutboxState]
        /\ IsFiniteSet(Accepted')
    BY Kinds, OutboxStep DEF IInv, TableType, FiniteRows
  <1>3. /\ events' \subseteq Event /\ IsFiniteSet(events')
        /\ StreamAccepted' /\ EventsAccepted'
    BY Kinds, EventsStep DEF IInv, TableType, FiniteRows
  <1>4. LocalType' /\ handler' \in [Event -> HandlerState]
    BY LocalTypeStep DEF IInv, TableType
  <1>5. AggregatesMatchEvents' /\ clicks' \in [Bucket -> Nat]
    BY CountStep
  <1>6. FiniteRows'
    BY <1>2, <1>3 DEF FiniteRows
  <1>7. PersistedIsStored'
    BY Kinds, PersistedStep DEF IInv
  <1>8. TableType'
    BY <1>2, <1>3, <1>4, <1>5 DEF TableType
  <1> QED BY <1>1, <1>3, <1>4, <1>5, <1>6, <1>7, <1>8, SourcesStep, MarksStep,
             NothingLostStep DEF IInv

(* The inductive invariant holds in every behaviour.                          *)
THEOREM PipelineInvariance == Spec => []IInv
  BY InitInv, StepInv, PTL DEF Spec

(* Every variable of the pipeline keeps its type.                             *)
THEOREM PipelineTypeCorrect == Spec => []TypeOK
  <1>1. IInv => TypeOK
    BY TypeParts DEF IInv
  <1> QED BY <1>1, PipelineInvariance, PTL

(* A click whose outbox row recovery will skip has been consumed or is still  *)
(* pending in the stream, whatever failed.                                    *)
THEOREM NoClickIsLost == Spec => []NothingLost
  <1>1. IInv => NothingLost
    BY DEF IInv
  <1> QED BY <1>1, PipelineInvariance, PTL

(* The aggregates are the events, grouped, at every moment.                   *)
THEOREM AggregatesAreExact == Spec => []AggregatesMatchEvents
  <1>1. IInv => AggregatesMatchEvents
    BY DEF IInv
  <1> QED BY <1>1, PipelineInvariance, PTL

(* The pipeline implements ClickCounting: every step accepts one click,       *)
(* counts one accepted click that was not counted, or changes no count.       *)
LEMMA PromiseStep ==
    ASSUME IInv, [Next]_vars
    PROVE  [Promise!CountNext]_(Promise!countVars)
  <1>1. EventsAccepted /\ clicks = CountPerBucket(events) /\ events \subseteq Event
    BY DEF IInv, AggregatesMatchEvents, TableType
  <1>2. CASE Accepts
    <2>1. PICK e \in Event : /\ outbox[e] = "absent"
                             /\ outbox' = [outbox EXCEPT ![e] = "pending"]
                             /\ UNCHANGED countedVars
      BY <1>2 DEF Accepts
    <2>2. e \notin Accepted /\ Accepted' = Accepted \union {e}
      BY <2>1 DEF Accepted, IInv, TableType
    <2>3. Promise!AcceptClick(e)
      BY <2>1, <2>2 DEF Promise!AcceptClick, countedVars
    <2> QED BY <2>3 DEF Promise!CountNext
  <1>3. CASE Marks
    <2>1. PICK e \in Event : /\ handler[e] = "mark" \/ recon.marking = e
                             /\ outbox' = [outbox EXCEPT ![e] = "published"]
                             /\ UNCHANGED countedVars
      BY <1>3 DEF Marks
    <2>2. outbox[e] # "absent"
      BY <2>1, PipelineAssumption DEF IInv, SourcesAccepted
    <2>3. Accepted' = Accepted
      BY <2>1, <2>2 DEF Accepted, IInv, TableType
    <2> QED BY <2>1, <2>3 DEF Promise!countVars, countedVars
  <1>4. CASE UNCHANGED outbox
    <2>1. Accepted' = Accepted
      BY <1>4 DEF Accepted
    <2>2. CASE Persists
      <3>1. PICK e \in Event :
              /\ outbox[e] # "absent"
              /\ events' = events \union {e}
              /\ clicks' = IF e \in events THEN clicks
                           ELSE [clicks EXCEPT ![BucketOf[e]] = @ + 1]
        BY <2>2, PersistCounts
      <3>2. CASE e \in events
        <4>1. events' = events
          BY <3>1, <3>2
        <4> QED BY <2>1, <3>1, <3>2, <4>1 DEF Promise!countVars
      <3>3. CASE e \notin events
        <4>1. e \in Accepted \ events
          BY <3>1, <3>3 DEF Accepted
        <4>2. Promise!CountClick(e)
          BY <2>1, <3>1, <3>3, <4>1 DEF Promise!CountClick
        <4> QED BY <4>2 DEF Promise!CountNext
      <3> QED BY <3>2, <3>3
    <2>3. CASE ~Persists
      <3>1. UNCHANGED <<events, clicks>>
        BY <1>1, <2>3, CountKinds DEF countedVars
      <3> QED BY <2>1, <3>1 DEF Promise!countVars
    <2> QED BY <2>2, <2>3
  <1> QED BY <1>2, <1>3, <1>4, Kinds

THEOREM EachClickCountsOnce == Spec => CountsEachClickOnce
  <1>1. Init => Promise!CountInit
    BY DEF Init, Promise!CountInit, Accepted
  <1>2. IInv /\ [Next]_vars => [Promise!CountNext]_(Promise!countVars)
    BY PromiseStep
  <1> QED BY <1>1, <1>2, PipelineInvariance, PTL DEF Spec, CountsEachClickOnce

-----------------------------------------------------------------------------
(* What the reconciler remembers of the totals it has read.                   *)
TotalsRead ==
    /\ recon.step \in {"events", "aggregates", "refresh"} =>
         recon.outbox = Cardinality(recon.seen)
    /\ recon.step \in {"aggregates", "refresh"} =>
         recon.events <= Cardinality(events)

LEMMA EventsGrow ==
    ASSUME IInv, [Next]_vars
    PROVE  /\ events \subseteq events'
           /\ Cardinality(events) \in Nat /\ Cardinality(events') \in Nat
           /\ Cardinality(events) <= Cardinality(events')
  <1>1. events \subseteq events'
    BY CountKinds, PersistCounts DEF countedVars
  <1>2. IInv'
    BY StepInv
  <1>3. IsFiniteSet(events) /\ IsFiniteSet(events')
    BY <1>2 DEF IInv, FiniteRows
  <1>4. Cardinality(events) \in Nat /\ Cardinality(events') \in Nat
    BY <1>3, FS_CardinalityType
  <1>5. Cardinality(events) <= Cardinality(events')
    BY <1>1, <1>3, FS_Subset
  <1> QED BY <1>1, <1>4, <1>5

LEMMA TotalsStep ==
    ASSUME IInv, TotalsRead, [Next]_vars
    PROVE  TotalsRead'
  <1>1. recon \in ReconType
    BY DEF IInv, LocalType
  <1>2. ASSUME recon'.step = recon.step, recon'.outbox = recon.outbox,
               recon'.seen = recon.seen, recon'.events = recon.events
        PROVE  TotalsRead'
    <2>1. recon.events \in Nat
      BY <1>1 DEF ReconType
    <2> QED BY <1>2, <2>1, EventsGrow DEF TotalsRead
  <1>3. CASE \E e \in Event : RecoverAction(e)
    <2>1. PICK e \in Event : RecoverAction(e)
      BY <1>3
    <2>2. CASE Republish(e)
      BY <1>1, <1>2, <2>2 DEF Republish, ReconType
    <2>3. CASE MarkRepublished(e)
      BY <1>1, <1>2, <2>3 DEF MarkRepublished, ReconType
    <2>4. CASE RecoverFails(e)
      BY <1>1, <1>2, <2>4 DEF RecoverFails, ReconType
    <2> QED BY <2>1, <2>2, <2>3, <2>4 DEF RecoverAction
  <1>4. CASE BeginCycle
    <2>1. PICK todo \in SUBSET Pending :
            recon' = [IdleRecon EXCEPT !.step = "recover", !.todo = todo]
      BY <1>4 DEF BeginCycle
    <2>2. recon'.step = "recover"
      BY <2>1 DEF IdleRecon
    <2> QED BY <2>2 DEF TotalsRead
  <1>5. CASE ReconcileAggregates
    <2>1. recon'.step = "outbox"
      BY <1>1, <1>5 DEF ReconcileAggregates, ReconType
    <2> QED BY <2>1 DEF TotalsRead
  <1>6. CASE ReadOutboxTotal
    <2>1. /\ recon'.step = "events"
          /\ recon'.outbox = Cardinality(Accepted)
          /\ recon'.seen = Accepted
      BY <1>1, <1>6 DEF ReadOutboxTotal, ReconType
    <2> QED BY <2>1 DEF TotalsRead
  <1>7. CASE ReadEventTotal
    <2>1. /\ recon'.step = "aggregates"
          /\ recon'.outbox = recon.outbox /\ recon'.seen = recon.seen
          /\ recon'.events = Cardinality(events)
      BY <1>1, <1>7 DEF ReadEventTotal, ReconType
    <2>2. recon.step = "events"
      BY <1>7 DEF ReadEventTotal
    <2> QED BY <2>1, <2>2, EventsGrow DEF TotalsRead
  <1>8. CASE ReadAggregateTotal
    <2>1. /\ recon'.step = "refresh"
          /\ recon'.outbox = recon.outbox /\ recon'.seen = recon.seen
          /\ recon'.events = recon.events
      BY <1>1, <1>8 DEF ReadAggregateTotal, ReconType
    <2>2. recon.step = "aggregates" /\ recon.events \in Nat
      BY <1>1, <1>8 DEF ReadAggregateTotal, ReconType
    <2> QED BY <2>1, <2>2, EventsGrow DEF TotalsRead
  <1>9. CASE RefreshWorkspaceCompleteness \/ AbortCycle
    BY <1>9 DEF RefreshWorkspaceCompleteness, AbortCycle, IdleRecon, TotalsRead
  <1>10. CASE \/ \E e \in Event : HandlerAction(e)
              \/ WorkerAction \/ ReportAction \/ UNCHANGED vars
    <2>1. recon' = recon
      BY <1>10 DEF HandlerAction, Accept, Publish, MarkOutboxPublished, HandlerFails,
         WorkerAction, WorkerStep, ReadPending, Read, PersistConsumedEvent, Ack,
         SkipMessage, RestartWorker, ReportAction, BeginReport, EndReport, vars
    <2> QED BY <1>2, <2>1
  <1> QED BY <1>3, <1>4, <1>5, <1>6, <1>7, <1>8, <1>9, <1>10, Actions DEF CycleAction

(* When no click was accepted since the outbox total was read, the reconciler *)
(* writes "complete" only if every accepted click has been consumed.          *)
THEOREM QuietCompleteness == Spec => QuietCompleteIsTrue
  <1> DEFINE Quiet == RefreshWorkspaceCompleteness /\ TotalsAgree /\ recon.seen = Accepted
                        => Accepted = events
  <1>1. Init => TotalsRead
    BY DEF Init, IdleRecon, TotalsRead
  <1>2. IInv /\ TotalsRead /\ [Next]_vars => TotalsRead'
    BY TotalsStep
  <1>3. ASSUME IInv, TotalsRead, RefreshWorkspaceCompleteness, TotalsAgree,
               recon.seen = Accepted
        PROVE  Accepted = events
    <2>1. recon.step = "refresh"
      BY <1>3 DEF RefreshWorkspaceCompleteness
    <2>2. Cardinality(Accepted) <= Cardinality(events)
      BY <1>3, <2>1 DEF TotalsRead, TotalsAgree
    <2>3. IsFiniteSet(Accepted) /\ IsFiniteSet(events) /\ events \subseteq Accepted
      BY <1>3 DEF IInv, FiniteRows, EventsAccepted, TableType, Accepted
    <2>4. Cardinality(Accepted) \in Nat /\ Cardinality(events) \in Nat
      BY <2>3, FS_CardinalityType
    <2>5. Cardinality(events) <= Cardinality(Accepted)
      BY <2>3, FS_Subset
    <2>6. Cardinality(events) = Cardinality(Accepted)
      BY <2>2, <2>4, <2>5
    <2> QED BY <2>3, <2>6, FS_Subset
  <1>4. IInv /\ TotalsRead /\ [Next]_vars => [Quiet]_vars
    BY <1>3
  <1> QED BY <1>1, <1>2, <1>4, PipelineInvariance, PTL DEF Spec, QuietCompleteIsTrue

(* The pipeline's state as a whole: well typed, and no accepted click is lost. *)
THEOREM DeliveryIsSafe == Spec => []DeliverySafety
  <1>1. TypeOK /\ NothingLost => DeliverySafety
    BY DEF DeliverySafety
  <1> QED BY <1>1, PipelineTypeCorrect, NoClickIsLost, PTL
=============================================================================
