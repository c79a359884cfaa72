----------------------------- MODULE QueueProofs -----------------------------
(* Safety of the queues that workers lease from, mail, webhooks and risk scans, *)
(* proved for every number of jobs, deliveries, scans, workers, attempts and    *)
(* losses.                                                                      *)
EXTENDS MailQueue, WebhookDelivery, RiskScan, FiniteSetTheorems, SequenceTheorems, TLAPS

(* A finite set that gains a member at most, or none, and its bound. *)
LEMMA FewMembers ==
    ASSUME NEW A, NEW B, NEW n \in Nat, NEW k \in Nat, IsFiniteSet(A), Cardinality(A) <= n,
           \/ B \subseteq A /\ k >= n
           \/ (\E x : B \subseteq A \cup {x}) /\ k = n + 1
    PROVE  IsFiniteSet(B) /\ Cardinality(B) <= k
<1>1. Cardinality(A) \in Nat
  BY FS_CardinalityType
<1>2. CASE B \subseteq A /\ k >= n
  <2>1. IsFiniteSet(B) /\ Cardinality(B) <= Cardinality(A)
    BY <1>2, FS_Subset
  <2>2. Cardinality(B) \in Nat
    BY <2>1, FS_CardinalityType
  <2> QED BY <1>1, <1>2, <2>1, <2>2
<1>3. CASE (\E x : B \subseteq A \cup {x}) /\ k = n + 1
  <2>1. PICK x : B \subseteq A \cup {x}
    BY <1>3
  <2>2. /\ IsFiniteSet(A \cup {x})
        /\ Cardinality(A \cup {x}) = IF x \in A THEN Cardinality(A) ELSE Cardinality(A) + 1
    BY FS_AddElement, Zenon
  <2>3. IsFiniteSet(B) /\ Cardinality(B) <= Cardinality(A \cup {x})
    BY <2>1, <2>2, FS_Subset
  <2>4. Cardinality(B) \in Nat
    BY <2>3, FS_CardinalityType
  <2> QED BY <1>1, <1>3, <2>2, <2>3, <2>4
<1> QED BY <1>2, <1>3

-----------------------------------------------------------------------------
(* MailQueue: jobs claimed, sent and recorded *)

\* A worker with a job is between the claim and the record, and holds its job alone;
\* while it may still send, the server has accepted fewer messages than attempts
\* were begun.
HandRow(w) ==
    LET m == mailWorkers[w] IN
    /\ m.job = NoJob <=> m.at \in {"idle", "open"}
    /\ m.job # NoJob => mailJobs[m.job].status = "sending"
    /\ m.at = "claimed" => m.result = "terminal"
    /\ m.at \in {"claimed", "sending"} => handed[m.job] < mailJobs[m.job].attempts
    /\ m.at = "recording" /\ m.result = "sent" => handed[m.job] > 0

JobRow(j) ==
    /\ handed[j] <= mailJobs[j].attempts
    /\ mailJobs[j].status \in {"none", "queued"} => mailJobs[j].attempts = 0
    /\ mailJobs[j].status = "sending" => mailJobs[j].attempts > 0
    /\ mailJobs[j].status = "sent" => handed[j] > 0

OneHand ==
    \A v, w \in MailWorker :
        mailWorkers[v].job = mailWorkers[w].job /\ mailWorkers[v].job # NoJob => v = w

StrandedJobs == {j \in MailJob \ AuthJob : Stranded(j)}

MailInv ==
    /\ MailTypeOK
    /\ \A w \in MailWorker : HandRow(w)
    /\ \A j \in MailJob : JobRow(j)
    /\ OneHand
    /\ AttemptsTellTheJob
    /\ IsFiniteSet(StrandedJobs) /\ Cardinality(StrandedJobs) <= mailStops
-----------------------------------------------------------------------------
LEMMA MailNumbers ==
    ASSUME MailAssumption
    PROVE  /\ MaxMailAttempts \in Nat /\ MaxMailAttempts >= 1
           /\ MaxMailSettings \in Nat /\ MaxMailStops \in Nat
           /\ \A j \in MailJob : j # NoJob
BY DEF MailAssumption

JobType == [status : MailStatus, attempts : 0 .. MaxMailAttempts, due : BOOLEAN]
WorkerType == [at : {"idle", "open", "claimed", "sending", "recording"},
               job : MailJob \cup {NoJob}, result : MailResult]
AttemptType == {"none", "sending", "sent", "transient_failure", "terminal_failure"}

\* Who is stranded, said of the rows.
LEMMA WhoIsStranded ==
    /\ \A j : j \in StrandedJobs <=> /\ j \in MailJob \ AuthJob /\ mailJobs[j].status = "sending"
                                     /\ \A w \in MailWorker : mailWorkers[w].job # j
    /\ \A j : j \in StrandedJobs' <=> /\ j \in MailJob \ AuthJob /\ mailJobs'[j].status = "sending"
                                      /\ \A w \in MailWorker : mailWorkers'[w].job # j
BY DEF StrandedJobs, Stranded, InHand

\* A step that strands nobody, or the one job a worker stops with.
LEMMA StrandedStep ==
    ASSUME MailInv, MailAssumption, mailStops' \in Nat,
           \/ StrandedJobs' \subseteq StrandedJobs /\ mailStops' >= mailStops
           \/ /\ \E j \in MailJob : StrandedJobs' \subseteq StrandedJobs \cup {j}
              /\ mailStops' = mailStops + 1
    PROVE  IsFiniteSet(StrandedJobs') /\ Cardinality(StrandedJobs') <= mailStops'
<1>0. /\ IsFiniteSet(StrandedJobs) /\ Cardinality(StrandedJobs) <= mailStops /\ mailStops \in Nat
  BY MailNumbers DEF MailInv, MailTypeOK
<1> HIDE DEF StrandedJobs
<1> QED BY <1>0, FewMembers

LEMMA MailStarts == ASSUME MailAssumption, MailInit PROVE MailInv
<1>1. MailTypeOK
  BY MailNumbers DEF MailInit, MailTypeOK, MailStatus, MailResult, IdleMailWorker
<1>2. \A w \in MailWorker : HandRow(w)
  BY DEF MailInit, IdleMailWorker, HandRow
<1>3. \A j \in MailJob : JobRow(j)
  BY DEF MailInit, JobRow
<1>4. OneHand
  BY DEF MailInit, OneHand, IdleMailWorker
<1>5. AttemptsTellTheJob
  BY DEF MailInit, AttemptsTellTheJob, AttemptNumber
<1>6. StrandedJobs = {} /\ mailStops = 0
  BY WhoIsStranded DEF MailInit
<1>7. IsFiniteSet(StrandedJobs) /\ Cardinality(StrandedJobs) <= mailStops
  BY <1>6, FS_EmptySet
<1> QED BY <1>1, <1>2, <1>3, <1>4, <1>5, <1>7 DEF MailInv

-----------------------------------------------------------------------------
(* A step that gives one worker a new row and leaves jobs and messages.    *)
LEMMA WorkerMoves ==
    ASSUME MailAssumption, MailInv, NEW w \in MailWorker, NEW r \in WorkerType,
           mailWorkers' = [mailWorkers EXCEPT ![w] = r],
           UNCHANGED <<mailJobs, mailAttempts, mailSettings, handed>>,
           r.job = NoJob <=> r.at \in {"idle", "open"},
           r.job # NoJob => r.job = mailWorkers[w].job,
           r.at = "claimed" => r.result = "terminal",
           r.at \in {"claimed", "sending"} => mailWorkers[w].at \in {"claimed", "sending"},
           r.at = "recording" /\ r.result = "sent" =>
               mailWorkers[w].at = "recording" /\ mailWorkers[w].result = "sent",
           \/ mailStops' = mailStops
              /\ (mailWorkers[w].job \in MailJob \ AuthJob => r.job = mailWorkers[w].job)
           \/ mailStops' = mailStops + 1 /\ mailStops < MaxMailStops /\ mailWorkers[w].job # NoJob
    PROVE  MailInv'
<1>0. /\ mailJobs' = mailJobs /\ mailAttempts' = mailAttempts /\ mailSettings' = mailSettings
      /\ handed' = handed /\ \A j \in MailJob : j # NoJob
  BY MailNumbers
<1>1. \A v \in MailWorker : mailWorkers'[v] = IF v = w THEN r ELSE mailWorkers[v]
  BY DEF MailInv, MailTypeOK
<1>2. mailStops' \in 0 .. MaxMailStops
  BY MailNumbers DEF MailInv, MailTypeOK
<1>3. mailWorkers' \in [MailWorker -> WorkerType]
  BY DEF MailInv, MailTypeOK, WorkerType
<1>4. MailTypeOK'
  BY <1>0, <1>2, <1>3 DEF MailInv, MailTypeOK, WorkerType
<1>5. HandRow(w)
  BY DEF MailInv
<1>6. \A v \in MailWorker : HandRow(v)'
  <2> SUFFICES ASSUME NEW v \in MailWorker PROVE HandRow(v)'
    OBVIOUS
  <2>1. CASE v # w
    <3>1. HandRow(v) /\ mailWorkers'[v] = mailWorkers[v]
      BY <1>1, <2>1 DEF MailInv
    <3> QED BY <3>1, <1>0 DEF HandRow
  <2>2. CASE v = w
    <3>1. mailWorkers'[v] = r
      BY <1>1, <2>2
    <3> HIDE <1>1
    <3> QED BY <3>1, <1>0, <1>5, <2>2 DEF HandRow
  <2> QED BY <2>1, <2>2
<1>7. \A j \in MailJob : JobRow(j)'
  BY <1>0 DEF MailInv, JobRow
<1>8. OneHand'
  BY <1>1 DEF MailInv, OneHand
<1>9. AttemptsTellTheJob'
  BY <1>0 DEF MailInv, AttemptsTellTheJob
<1>10. IsFiniteSet(StrandedJobs') /\ Cardinality(StrandedJobs') <= mailStops'
  <2>1. mailStops' \in Nat /\ mailStops \in Nat
    BY <1>2, MailNumbers DEF MailInv, MailTypeOK
  <2>2. CASE mailStops' = mailStops
    <3>1. StrandedJobs' \subseteq StrandedJobs
      BY <2>2, <2>1, <1>0, <1>1, WhoIsStranded
    <3> QED BY <3>1, <2>1, <2>2, StrandedStep
  <2>3. CASE mailStops' = mailStops + 1 /\ mailWorkers[w].job # NoJob
    <3>1. mailWorkers[w].job \in MailJob
      BY <2>3 DEF MailInv, MailTypeOK
    <3>2. StrandedJobs' \subseteq StrandedJobs \cup {mailWorkers[w].job}
      BY <1>0, <1>1, WhoIsStranded
    <3> QED BY <3>1, <3>2, <2>1, <2>3, StrandedStep
  <2> QED BY <2>2, <2>3
<1> QED BY <1>4, <1>6, <1>7, <1>8, <1>9, <1>10 DEF MailInv

(* A step on one job that no worker holds: it is queued, or its retry falls due. *)
LEMMA QueueMoves ==
    ASSUME MailAssumption, MailInv, NEW j \in MailJob, EnqueueMailTx(j) \/ RetryFallsDue(j)
    PROVE  MailInv'
<1>0. /\ mailAttempts' = mailAttempts /\ mailSettings' = mailSettings /\ handed' = handed
      /\ mailWorkers' = mailWorkers /\ mailStops' = mailStops
      /\ mailJobs[j] \in JobType /\ MaxMailAttempts >= 1 /\ MaxMailAttempts \in Nat
  BY MailNumbers DEF EnqueueMailTx, RetryFallsDue, MailInv, MailTypeOK, JobType
<1>1. PICK r \in JobType :
        /\ mailJobs' = [mailJobs EXCEPT ![j] = r]
        /\ r.attempts = mailJobs[j].attempts
        /\ \/ mailJobs[j].status = "none" /\ r.status = "queued"
           \/ mailJobs[j].status = "retrying" /\ r.status = "retrying"
  <2>1. CASE EnqueueMailTx(j)
    <3> DEFINE r == [status |-> "queued", attempts |-> 0, due |-> TRUE]
    <3>1. r \in JobType
      BY <1>0 DEF JobType, MailStatus
    <3>2. mailJobs[j].status = "none" /\ mailJobs[j].attempts = 0 /\ mailJobs' = [mailJobs EXCEPT ![j] = r]
      BY <2>1 DEF EnqueueMailTx, MailInv, JobRow
    <3> QED BY <3>1, <3>2
  <2>2. CASE RetryFallsDue(j)
    <3> DEFINE r == [mailJobs[j] EXCEPT !.due = TRUE]
    <3>1. r \in JobType /\ r.attempts = mailJobs[j].attempts /\ r.status = mailJobs[j].status
      BY <1>0 DEF JobType
    <3>2. mailJobs[j].status = "retrying" /\ mailJobs' = [mailJobs EXCEPT ![j] = r]
      BY <2>2, <1>0 DEF RetryFallsDue
    <3> QED BY <3>1, <3>2
  <2> QED BY <2>1, <2>2
<1>2. \A k \in MailJob : mailJobs'[k] = IF k = j THEN r ELSE mailJobs[k]
  BY <1>1 DEF MailInv, MailTypeOK
<1>3. r.status \in {"queued", "retrying"} => r.attempts < MaxMailAttempts
  BY <1>0, <1>1 DEF MailInv, MailTypeOK, JobRow
<1>4. MailTypeOK'
  <2>1. mailJobs' \in [MailJob -> JobType]
    BY <1>1 DEF MailInv, MailTypeOK, JobType
  <2>2. \A k \in MailJob :
          mailJobs'[k].status \in {"queued", "retrying"} => mailJobs'[k].attempts < MaxMailAttempts
    BY <1>2, <1>3 DEF MailInv, MailTypeOK
  <2> QED BY <2>1, <2>2, <1>0 DEF MailInv, MailTypeOK, JobType
<1>5. \A w \in MailWorker : HandRow(w)'
  <2> SUFFICES ASSUME NEW w \in MailWorker PROVE HandRow(w)'
    OBVIOUS
  <2>1. HandRow(w)
    BY DEF MailInv
  <2>2. mailWorkers[w].job # NoJob => mailWorkers[w].job \in MailJob
    BY DEF MailInv, MailTypeOK
  <2>3. mailWorkers[w].at \in {"idle", "open", "claimed", "sending", "recording"}
    BY DEF MailInv, MailTypeOK
  <2>4. mailWorkers[w].job # NoJob => mailJobs'[mailWorkers[w].job] = mailJobs[mailWorkers[w].job]
    BY <2>1, <2>2, <1>1, <1>2 DEF HandRow
  <2> QED BY <2>1, <2>3, <2>4, <1>0 DEF HandRow
<1>6. \A k \in MailJob : JobRow(k)'
  <2> SUFFICES ASSUME NEW k \in MailJob PROVE JobRow(k)'
    OBVIOUS
  <2>1. JobRow(k)
    BY DEF MailInv
  <2> QED BY <2>1, <1>0, <1>1, <1>2 DEF JobRow
<1>7. OneHand'
  BY <1>0 DEF MailInv, OneHand
<1>8. AttemptsTellTheJob'
  <2> SUFFICES ASSUME NEW k \in MailJob, NEW n \in AttemptNumber
               PROVE  mailAttempts'[k][n] =
                        IF n > mailJobs'[k].attempts THEN "none"
                        ELSE IF n < mailJobs'[k].attempts THEN "transient_failure"
                        ELSE IF mailJobs'[k].status = "sending" THEN "sending"
                        ELSE AttemptOutcome(mailJobs'[k].status)
    BY DEF AttemptsTellTheJob
  <2>1. mailAttempts[k][n] =
          IF n > mailJobs[k].attempts THEN "none"
          ELSE IF n < mailJobs[k].attempts THEN "transient_failure"
          ELSE IF mailJobs[k].status = "sending" THEN "sending"
          ELSE AttemptOutcome(mailJobs[k].status)
    BY DEF MailInv, AttemptsTellTheJob
  <2>2. CASE k # j
    BY <2>1, <2>2, <1>0, <1>2
  <2>3. CASE k = j /\ mailJobs[j].status = "none"
    <3>0. JobRow(j)
      BY DEF MailInv
    <3>1. mailJobs[j].attempts = 0 /\ n > 0
      BY <3>0, <2>3, <1>0 DEF JobRow, AttemptNumber
    <3> QED BY <3>1, <2>1, <2>3, <1>0, <1>1, <1>2
  <2>4. CASE k = j /\ mailJobs[j].status = "retrying"
    BY <2>1, <2>4, <1>0, <1>1, <1>2
  <2> QED BY <2>2, <2>3, <2>4, <1>1
<1>9. IsFiniteSet(StrandedJobs') /\ Cardinality(StrandedJobs') <= mailStops'
  <2>1. StrandedJobs' \subseteq StrandedJobs
    BY <1>0, <1>1, <1>2, WhoIsStranded
  <2>2. mailStops' \in Nat /\ mailStops' >= mailStops
    BY <1>0, MailNumbers DEF MailInv, MailTypeOK
  <2> QED BY <2>1, <2>2, StrandedStep
<1> QED BY <1>4, <1>5, <1>6, <1>7, <1>8, <1>9 DEF MailInv

LEMMA ClaimMoves ==
    ASSUME MailAssumption, MailInv, NEW w \in MailWorker, NEW j \in MailJob, ClaimNext(w, j)
    PROVE  MailInv'
<1> DEFINE n == mailJobs[j].attempts + 1
           job == [status |-> "sending", due |-> FALSE, attempts |-> n]
           hand == [at |-> "claimed", job |-> j, result |-> "terminal"]
<1>0. /\ mailSettings' = mailSettings /\ handed' = handed /\ mailStops' = mailStops
      /\ MaxMailAttempts \in Nat /\ j # NoJob /\ mailJobs[j].attempts \in Nat
      /\ mailJobs[j].attempts < MaxMailAttempts
      /\ mailJobs[j].status \in {"queued", "retrying"}
      /\ mailWorkers[w].at = "open"
  <2>1. mailJobs[j] \in JobType
    BY DEF MailInv, MailTypeOK, JobType
  <2>2. mailJobs[j].attempts \in Nat
    BY <2>1, MailNumbers DEF JobType
  <2> QED BY <2>2, MailNumbers DEF ClaimNext, Waiting
<1>1. n \in AttemptNumber /\ job \in JobType /\ hand \in WorkerType
  BY <1>0 DEF AttemptNumber, JobType, MailStatus, WorkerType, MailResult
<1>2. /\ mailJobs' = [mailJobs EXCEPT ![j] = job]
      /\ mailWorkers' = [mailWorkers EXCEPT ![w] = hand]
      /\ mailAttempts' = [mailAttempts EXCEPT ![j] = [mailAttempts[j] EXCEPT ![n] = "sending"]]
  BY DEF ClaimNext, MailInv, MailTypeOK
<1>3. \A k \in MailJob : mailJobs'[k] = IF k = j THEN job ELSE mailJobs[k]
  BY <1>2 DEF MailInv, MailTypeOK
<1>4. \A v \in MailWorker : mailWorkers'[v] = IF v = w THEN hand ELSE mailWorkers[v]
  BY <1>2 DEF MailInv, MailTypeOK
<1>5. \A k \in MailJob, i \in AttemptNumber :
        mailAttempts'[k][i] = IF k = j /\ i = n THEN "sending" ELSE mailAttempts[k][i]
  BY <1>1, <1>2 DEF MailInv, MailTypeOK
<1>6. /\ job.status = "sending" /\ job.attempts = n
      /\ hand.at = "claimed" /\ hand.job = j /\ hand.result = "terminal"
  OBVIOUS
<1>7. MailTypeOK'
  <2>1. mailJobs' \in [MailJob -> JobType] /\ mailWorkers' \in [MailWorker -> WorkerType]
    <3> HIDE DEF job, hand
    <3> QED BY <1>1, <1>2 DEF MailInv, MailTypeOK, JobType, WorkerType
  <2>2. mailAttempts' \in [MailJob -> [AttemptNumber -> AttemptType]]
    <3>1. [mailAttempts[j] EXCEPT ![n] = "sending"] \in [AttemptNumber -> AttemptType]
      <4> HIDE DEF n
      <4> QED BY <1>1 DEF MailInv, MailTypeOK, AttemptType
    <3> HIDE DEF n
    <3> QED BY <3>1, <1>2 DEF MailInv, MailTypeOK, AttemptType
  <2>3. \A k \in MailJob :
          mailJobs'[k].status \in {"queued", "retrying"} => mailJobs'[k].attempts < MaxMailAttempts
    BY <1>3, <1>6 DEF MailInv, MailTypeOK
  <2> HIDE DEF n, job, hand
  <2> QED BY <2>1, <2>2, <2>3, <1>0 DEF MailInv, MailTypeOK, JobType, WorkerType, AttemptType
<1> HIDE DEF job, hand
<1>8. \A v \in MailWorker : mailWorkers[v].job # j
  BY <1>0 DEF MailInv, HandRow
<1>9. \A v \in MailWorker : HandRow(v)'
  <2> SUFFICES ASSUME NEW v \in MailWorker PROVE HandRow(v)'
    OBVIOUS
  <2>1. CASE v = w
    <3>1. mailWorkers'[v] = hand /\ mailJobs'[j] = job
      BY <2>1, <1>3, <1>4
    <3>2. handed[j] <= mailJobs[j].attempts /\ handed[j] \in Nat
      BY <1>0 DEF MailInv, JobRow, MailTypeOK
    <3>3. handed'[j] < n
      BY <3>2, <1>0
    <3> HIDE DEF n
    <3> QED BY <3>1, <3>3, <1>0, <1>6 DEF HandRow
  <2>2. CASE v # w
    <3>1. HandRow(v) /\ mailWorkers'[v] = mailWorkers[v]
      BY <2>2, <1>4 DEF MailInv
    <3>2. mailWorkers[v].job # NoJob => mailJobs'[mailWorkers[v].job] = mailJobs[mailWorkers[v].job]
      BY <1>3, <1>8 DEF MailInv, MailTypeOK
    <3>3. mailWorkers[v].at \in {"idle", "open", "claimed", "sending", "recording"}
      BY DEF MailInv, MailTypeOK
    <3> QED BY <3>1, <3>2, <3>3, <1>0 DEF HandRow
  <2> QED BY <2>1, <2>2
<1>10. \A k \in MailJob : JobRow(k)'
  <2> SUFFICES ASSUME NEW k \in MailJob PROVE JobRow(k)'
    OBVIOUS
  <2>1. JobRow(k) /\ handed[k] \in Nat
    BY DEF MailInv, MailTypeOK
  <2>2. CASE k = j
    <3>1. mailJobs'[k] = job
      BY <2>2, <1>3
    <3> QED BY <3>1, <2>1, <2>2, <1>0, <1>6 DEF JobRow
  <2>3. CASE k # j
    BY <2>1, <2>3, <1>0, <1>3 DEF JobRow
  <2> QED BY <2>2, <2>3
<1>11. OneHand'
  BY <1>4, <1>6, <1>8 DEF MailInv, OneHand
<1>12. AttemptsTellTheJob'
  <2> SUFFICES ASSUME NEW k \in MailJob, NEW i \in AttemptNumber
               PROVE  mailAttempts'[k][i] =
                        IF i > mailJobs'[k].attempts THEN "none"
                        ELSE IF i < mailJobs'[k].attempts THEN "transient_failure"
                        ELSE IF mailJobs'[k].status = "sending" THEN "sending"
                        ELSE AttemptOutcome(mailJobs'[k].status)
    BY DEF AttemptsTellTheJob
  <2>1. mailAttempts[k][i] =
          IF i > mailJobs[k].attempts THEN "none"
          ELSE IF i < mailJobs[k].attempts THEN "transient_failure"
          ELSE IF mailJobs[k].status = "sending" THEN "sending"
          ELSE AttemptOutcome(mailJobs[k].status)
    BY DEF MailInv, AttemptsTellTheJob
  <2>2. CASE k # j
    BY <2>1, <2>2, <1>3, <1>5
  <2>3. CASE k = j
    <3>1. i \in Nat /\ i > 0
      BY <1>0 DEF AttemptNumber
    <3>2. CASE i = mailJobs[j].attempts
      <4>0. JobRow(j)
        BY DEF MailInv
      <4>1. mailJobs[j].status = "retrying"
        BY <4>0, <3>1, <3>2, <1>0 DEF JobRow
      <4>2. mailAttempts[k][i] = "transient_failure"
        BY <4>1, <2>1, <2>3, <3>2, <1>0 DEF AttemptOutcome
      <4>3. i < n /\ i # n
        BY <3>1, <3>2, <1>0
      <4>4. mailAttempts'[k][i] = mailAttempts[k][i] /\ mailJobs'[k].attempts = n
        BY <4>3, <2>3, <1>3, <1>5, <1>6
      <4> QED BY <4>2, <4>3, <4>4, <3>1, <1>0
    <3>3. CASE i # mailJobs[j].attempts
      BY <2>1, <2>3, <3>1, <3>3, <1>0, <1>3, <1>5, <1>6
    <3> QED BY <3>2, <3>3
  <2> QED BY <2>2, <2>3
<1>13. IsFiniteSet(StrandedJobs') /\ Cardinality(StrandedJobs') <= mailStops'
  <2>1. StrandedJobs' \subseteq StrandedJobs
    <3>1. mailWorkers[w].job = NoJob /\ \A k \in MailJob : k # NoJob
      BY <1>0, MailNumbers DEF MailInv, HandRow
    <3>2. \A k \in StrandedJobs' : k # j /\ k \in MailJob
      BY <1>4, <1>6, WhoIsStranded
    <3>3. ASSUME NEW k \in StrandedJobs' PROVE k \in StrandedJobs
      <4>1. k # j /\ k \in MailJob \ AuthJob /\ mailJobs'[k].status = "sending"
            /\ \A v \in MailWorker : mailWorkers'[v].job # k
        BY <3>2, WhoIsStranded
      <4>2. mailJobs[k].status = "sending"
        BY <4>1, <1>3
      <4>3. ASSUME NEW v \in MailWorker PROVE mailWorkers[v].job # k
        BY <4>1, <3>1, <1>4
      <4> QED BY <4>1, <4>2, <4>3, WhoIsStranded
    <3> HIDE DEF StrandedJobs
    <3> QED BY <3>3
  <2>2. mailStops' \in Nat /\ mailStops' >= mailStops
    BY <1>0, MailNumbers DEF MailInv, MailTypeOK
  <2> QED BY <2>1, <2>2, StrandedStep
<1> QED BY <1>7, <1>9, <1>10, <1>11, <1>12, <1>13 DEF MailInv

LEMMA SendMoves ==
    ASSUME MailAssumption, MailInv, NEW w \in MailWorker, NEW result \in MailResult,
           NEW taken \in BOOLEAN, Send(w, result, taken)
    PROVE  MailInv'
<1> DEFINE j == mailWorkers[w].job
           c == handed[j] + IF taken THEN 1 ELSE 0
           r == [mailWorkers[w] EXCEPT !.at = "recording", !.result = result]
<1>0. /\ mailJobs' = mailJobs /\ mailAttempts' = mailAttempts /\ mailSettings' = mailSettings
      /\ mailStops' = mailStops /\ MaxMailAttempts \in Nat
      /\ mailWorkers[w] \in WorkerType /\ mailWorkers[w].at = "sending"
  BY MailNumbers DEF Send, MailInv, MailTypeOK, WorkerType
<1>1. j \in MailJob /\ j # NoJob /\ HandRow(w) /\ JobRow(j) /\ mailJobs[j].attempts \in 0 .. MaxMailAttempts
  BY <1>0, MailNumbers DEF MailInv, MailTypeOK, HandRow
<1>2. /\ handed[j] \in Nat /\ handed[j] < mailJobs[j].attempts
      /\ mailJobs[j].status = "sending"
  <2>1. handed[j] \in 0 .. MaxMailAttempts
    BY <1>1 DEF MailInv, MailTypeOK
  <2>2. handed[j] < mailJobs[j].attempts /\ mailJobs[j].status = "sending"
    BY <1>0, <1>1 DEF HandRow
  <2> HIDE DEF j
  <2> QED BY <2>1, <2>2, <1>0
<1>3. /\ c \in 0 .. MaxMailAttempts /\ c <= mailJobs[j].attempts
      /\ result = "sent" => c > 0
  BY <1>0, <1>1, <1>2 DEF Send
<1>4. /\ r \in WorkerType /\ r.at = "recording" /\ r.job = j /\ r.result = result
  BY <1>0 DEF WorkerType
<1>5. /\ handed' = [handed EXCEPT ![j] = c]
      /\ mailWorkers' = [mailWorkers EXCEPT ![w] = r]
  BY <1>0 DEF Send, MailInv, MailTypeOK
<1>6. \A k \in MailJob : handed'[k] = IF k = j THEN c ELSE handed[k]
  BY <1>5 DEF MailInv, MailTypeOK
<1>7. \A v \in MailWorker : mailWorkers'[v] = IF v = w THEN r ELSE mailWorkers[v]
  BY <1>5 DEF MailInv, MailTypeOK
<1> HIDE DEF c, r
<1>8. MailTypeOK'
  BY <1>0, <1>1, <1>3, <1>4, <1>5 DEF MailInv, MailTypeOK, WorkerType
<1>9. \A v \in MailWorker : HandRow(v)'
  <2> SUFFICES ASSUME NEW v \in MailWorker PROVE HandRow(v)'
    OBVIOUS
  <2>1. CASE v = w
    <3>1. mailWorkers'[v] = r /\ handed'[j] = c
      BY <2>1, <1>1, <1>6, <1>7
    <3> HIDE DEF j
    <3> QED BY <3>1, <1>0, <1>1, <1>2, <1>3, <1>4 DEF HandRow
  <2>2. CASE v # w
    <3>1. HandRow(v) /\ mailWorkers'[v] = mailWorkers[v]
      BY <2>2, <1>7 DEF MailInv
    <3>2. mailWorkers[v].job # j
      BY <2>2, <1>1 DEF MailInv, OneHand
    <3>3. mailWorkers[v].job # NoJob => handed'[mailWorkers[v].job] = handed[mailWorkers[v].job]
      BY <3>2, <1>6 DEF MailInv, MailTypeOK
    <3>4. mailWorkers[v].at \in {"idle", "open", "claimed", "sending", "recording"}
      BY DEF MailInv, MailTypeOK
    <3> QED BY <3>1, <3>3, <3>4, <1>0 DEF HandRow
  <2> QED BY <2>1, <2>2
<1>10. \A k \in MailJob : JobRow(k)'
  <2> SUFFICES ASSUME NEW k \in MailJob PROVE JobRow(k)'
    OBVIOUS
  <2>1. JobRow(k)
    BY DEF MailInv
  <2>2. CASE k = j
    <3>1. handed'[k] = c
      BY <2>2, <1>6
    <3> QED BY <3>1, <2>1, <2>2, <1>0, <1>2, <1>3 DEF JobRow
  <2>3. CASE k # j
    BY <2>1, <2>3, <1>0, <1>6 DEF JobRow
  <2> QED BY <2>2, <2>3
<1>11. OneHand'
  BY <1>4, <1>7 DEF MailInv, OneHand
<1>12. AttemptsTellTheJob'
  BY <1>0 DEF MailInv, AttemptsTellTheJob
<1>13. IsFiniteSet(StrandedJobs') /\ Cardinality(StrandedJobs') <= mailStops'
  <2>1. StrandedJobs' \subseteq StrandedJobs
    <3> SUFFICES ASSUME NEW k \in StrandedJobs' PROVE k \in StrandedJobs
      OBVIOUS
    <3>1. k \in MailJob \ AuthJob /\ mailJobs'[k].status = "sending"
          /\ \A v \in MailWorker : mailWorkers'[v].job # k
      BY WhoIsStranded
    <3>2. ASSUME NEW v \in MailWorker PROVE mailWorkers[v].job # k
      BY <3>1, <1>4, <1>7
    <3> QED BY <3>1, <3>2, <1>0, WhoIsStranded
  <2>2. mailStops' \in Nat /\ mailStops' >= mailStops
    BY <1>0, MailNumbers DEF MailInv, MailTypeOK
  <2> QED BY <2>1, <2>2, StrandedStep
<1> QED BY <1>8, <1>9, <1>10, <1>11, <1>12, <1>13 DEF MailInv

LEMMA CompleteMoves ==
    ASSUME MailAssumption, MailInv, NEW w \in MailWorker, Complete(w)
    PROVE  MailInv'
<1> DEFINE j == mailWorkers[w].job
           status == CompleteMailJob(j, mailWorkers[w].result)
           n == mailJobs[j].attempts
           row == [mailJobs[j] EXCEPT !.status = status]
<1>0. /\ mailSettings' = mailSettings /\ handed' = handed
      /\ mailStops' = mailStops /\ MaxMailAttempts \in Nat
      /\ mailWorkers[w] \in WorkerType /\ mailWorkers[w].at = "recording"
      /\ mailJobs[j].status = "sending"
  BY MailNumbers DEF Complete, MailInv, MailTypeOK, WorkerType
<1>1. j \in MailJob /\ j # NoJob /\ HandRow(w) /\ JobRow(j) /\ mailJobs[j] \in JobType
  BY <1>0, MailNumbers DEF MailInv, MailTypeOK, HandRow, JobType
<1>2. n \in AttemptNumber /\ n \in Nat
  BY <1>0, <1>1 DEF JobRow, JobType, AttemptNumber
<1>3. /\ status \in {"sent", "retrying", "failed"}
      /\ status = "sent" => mailWorkers[w].result = "sent"
      /\ status = "retrying" => n < MaxMailAttempts
  BY DEF CompleteMailJob
<1>4. row \in JobType /\ row.status = status /\ row.attempts = n
  BY <1>1, <1>3 DEF JobType, MailStatus
<1>5. /\ mailJobs' = [mailJobs EXCEPT ![j] = row]
      /\ mailWorkers' = [mailWorkers EXCEPT ![w] = IdleMailWorker]
      /\ mailAttempts' = [mailAttempts EXCEPT ![j] = [mailAttempts[j] EXCEPT ![n] = AttemptOutcome(status)]]
  BY <1>1 DEF Complete, MailInv, MailTypeOK
<1>6. AttemptOutcome(status) \in AttemptType
  BY <1>3 DEF AttemptOutcome, AttemptType
<1>7. \A k \in MailJob : mailJobs'[k] = IF k = j THEN row ELSE mailJobs[k]
  BY <1>5 DEF MailInv, MailTypeOK
<1>8. \A v \in MailWorker : mailWorkers'[v] = IF v = w THEN IdleMailWorker ELSE mailWorkers[v]
  BY <1>5 DEF MailInv, MailTypeOK
<1>9. \A k \in MailJob, i \in AttemptNumber :
        mailAttempts'[k][i] = IF k = j /\ i = n THEN AttemptOutcome(status) ELSE mailAttempts[k][i]
  BY <1>2, <1>5 DEF MailInv, MailTypeOK
<1>10. /\ IdleMailWorker \in WorkerType /\ IdleMailWorker.at = "idle"
       /\ IdleMailWorker.job = NoJob /\ IdleMailWorker.result = "terminal"
  BY DEF IdleMailWorker, WorkerType, MailResult
<1> HIDE DEF status, row
<1>11. MailTypeOK'
  <2>1. mailJobs' \in [MailJob -> JobType] /\ mailWorkers' \in [MailWorker -> WorkerType]
    BY <1>1, <1>4, <1>5, <1>10 DEF MailInv, MailTypeOK, JobType, WorkerType
  <2>2. mailAttempts' \in [MailJob -> [AttemptNumber -> AttemptType]]
    <3>1. [mailAttempts[j] EXCEPT ![n] = AttemptOutcome(status)] \in [AttemptNumber -> AttemptType]
      <4> HIDE DEF n
      <4> QED BY <1>1, <1>2, <1>6 DEF MailInv, MailTypeOK, AttemptType
    <3> HIDE DEF n
    <3> QED BY <3>1, <1>5 DEF MailInv, MailTypeOK, AttemptType
  <2>3. \A k \in MailJob :
          mailJobs'[k].status \in {"queued", "retrying"} => mailJobs'[k].attempts < MaxMailAttempts
    BY <1>3, <1>4, <1>7 DEF MailInv, MailTypeOK
  <2> HIDE DEF n
  <2> QED BY <2>1, <2>2, <2>3, <1>0 DEF MailInv, MailTypeOK, JobType, WorkerType, AttemptType
<1>12. \A v \in MailWorker : v # w => mailWorkers[v].job # j
  BY <1>1 DEF MailInv, OneHand
<1>13. \A v \in MailWorker : HandRow(v)'
  <2> SUFFICES ASSUME NEW v \in MailWorker PROVE HandRow(v)'
    OBVIOUS
  <2>1. CASE v = w
    <3>1. mailWorkers'[v] = IdleMailWorker
      BY <2>1, <1>8
    <3> QED BY <3>1, <1>10 DEF HandRow
  <2>2. CASE v # w
    <3>1. HandRow(v) /\ mailWorkers'[v] = mailWorkers[v]
      BY <2>2, <1>8 DEF MailInv
    <3>2. mailWorkers[v].job # NoJob => mailJobs'[mailWorkers[v].job] = mailJobs[mailWorkers[v].job]
      BY <2>2, <1>7, <1>12 DEF MailInv, MailTypeOK
    <3>3. mailWorkers[v].at \in {"idle", "open", "claimed", "sending", "recording"}
      BY DEF MailInv, MailTypeOK
    <3> QED BY <3>1, <3>2, <3>3, <1>0 DEF HandRow
  <2> QED BY <2>1, <2>2
<1>14. \A k \in MailJob : JobRow(k)'
  <2> SUFFICES ASSUME NEW k \in MailJob PROVE JobRow(k)'
    OBVIOUS
  <2>1. JobRow(k)
    BY DEF MailInv
  <2>2. CASE k = j
    <3>1. mailJobs'[k] = row
      BY <2>2, <1>7
    <3>2. status = "sent" => handed[j] > 0
      BY <1>0, <1>1, <1>3 DEF HandRow
    <3> QED BY <3>1, <3>2, <2>1, <2>2, <1>0, <1>3, <1>4 DEF JobRow
  <2>3. CASE k # j
    BY <2>1, <2>3, <1>0, <1>7 DEF JobRow
  <2> QED BY <2>2, <2>3
<1>15. OneHand'
  BY <1>8, <1>10 DEF MailInv, OneHand
<1>16. AttemptsTellTheJob'
  <2> SUFFICES ASSUME NEW k \in MailJob, NEW i \in AttemptNumber
               PROVE  mailAttempts'[k][i] =
                        IF i > mailJobs'[k].attempts THEN "none"
                        ELSE IF i < mailJobs'[k].attempts THEN "transient_failure"
                        ELSE IF mailJobs'[k].status = "sending" THEN "sending"
                        ELSE AttemptOutcome(mailJobs'[k].status)
    BY DEF AttemptsTellTheJob
  <2>1. mailAttempts[k][i] =
          IF i > mailJobs[k].attempts THEN "none"
          ELSE IF i < mailJobs[k].attempts THEN "transient_failure"
          ELSE IF mailJobs[k].status = "sending" THEN "sending"
          ELSE AttemptOutcome(mailJobs[k].status)
    BY DEF MailInv, AttemptsTellTheJob
  <2>2. CASE k # j
    BY <2>1, <2>2, <1>7, <1>9
  <2>3. CASE k = j
    <3>1. i \in Nat /\ mailJobs'[k].attempts = n /\ mailJobs'[k].status = status /\ status # "sending"
      <4>1. i \in Nat
        BY <1>0 DEF AttemptNumber
      <4>2. mailJobs'[k] = row
        BY <2>3, <1>7
      <4>3. status # "sending"
        BY <1>3
      <4> HIDE DEF n, j
      <4> QED BY <4>1, <4>2, <4>3, <1>4
    <3>2. CASE i = n
      <4>1. mailAttempts'[k][i] = AttemptOutcome(status)
        BY <2>3, <3>2, <1>9
      <4> QED BY <4>1, <3>1, <3>2, <1>2
    <3>3. CASE i # n
      <4>1. mailAttempts'[k][i] = mailAttempts[k][i]
        BY <2>3, <3>3, <1>9
      <4>2. i < n \/ i > n
        BY <3>1, <3>3, <1>2
      <4> QED BY <4>1, <4>2, <3>1, <3>3, <2>1, <2>3, <1>2
    <3> QED BY <3>2, <3>3
  <2> QED BY <2>2, <2>3
<1>17. IsFiniteSet(StrandedJobs') /\ Cardinality(StrandedJobs') <= mailStops'
  <2>1. StrandedJobs' \subseteq StrandedJobs
    <3> SUFFICES ASSUME NEW k \in StrandedJobs' PROVE k \in StrandedJobs
      OBVIOUS
    <3>1. k \in MailJob \ AuthJob /\ mailJobs'[k].status = "sending"
          /\ \A v \in MailWorker : mailWorkers'[v].job # k
      BY WhoIsStranded
    <3>2. k # j
      BY <3>1, <1>3, <1>4, <1>7
    <3>3. ASSUME NEW v \in MailWorker PROVE mailWorkers[v].job # k
      BY <3>1, <3>2, <1>8
    <3> QED BY <3>1, <3>2, <3>3, <1>7, WhoIsStranded
  <2>2. mailStops' \in Nat /\ mailStops' >= mailStops
    BY <1>0, MailNumbers DEF MailInv, MailTypeOK
  <2> QED BY <2>1, <2>2, StrandedStep
<1> QED BY <1>11, <1>13, <1>14, <1>15, <1>16, <1>17 DEF MailInv

-----------------------------------------------------------------------------
(* A worker's own moves as new rows, and the induction.                    *)
LEMMA MailStep ==
    ASSUME MailAssumption, MailInv, [MailNext]_mailVars
    PROVE  MailInv'
<1>1. CASE \E j \in MailJob : EnqueueMailTx(j) \/ RetryFallsDue(j)
  BY <1>1, QueueMoves
<1>2. ASSUME NEW enabled \in BOOLEAN, UpdateAdminMailSettings(enabled) PROVE MailInv'
  <2>1. /\ mailJobs' = mailJobs /\ mailAttempts' = mailAttempts /\ mailWorkers' = mailWorkers
        /\ handed' = handed /\ mailStops' = mailStops
        /\ mailSettings' \in [enabled : BOOLEAN, version : 0 .. MaxMailSettings]
    BY <1>2, MailNumbers DEF UpdateAdminMailSettings, MailInv, MailTypeOK
  <2>2. MailTypeOK'
    BY <2>1 DEF MailInv, MailTypeOK
  <2>3. (\A w \in MailWorker : HandRow(w)') /\ (\A j \in MailJob : JobRow(j)') /\ OneHand'
    BY <2>1 DEF MailInv, HandRow, JobRow, OneHand
  <2>4. AttemptsTellTheJob'
    BY <2>1 DEF MailInv, AttemptsTellTheJob
  <2>5. StrandedJobs' = StrandedJobs
    BY <2>1 DEF StrandedJobs, Stranded, InHand
  <2> QED BY <2>1, <2>2, <2>3, <2>4, <2>5 DEF MailInv
<1>3. ASSUME NEW w \in MailWorker, MailRunOnce(w) \/ WorkerStops(w) PROVE MailInv'
  <2>0. /\ mailWorkers[w] \in WorkerType /\ HandRow(w) /\ \A j \in MailJob : j # NoJob
    BY MailNumbers DEF MailInv, MailTypeOK, WorkerType
  <2>1. IdleMailWorker \in WorkerType /\ IdleMailWorker.at = "idle" /\ IdleMailWorker.job = NoJob
        /\ IdleMailWorker.result = "terminal"
    BY DEF IdleMailWorker, WorkerType, MailResult
  <2>2. CASE MailDispatchEnabled(w)
    <3> DEFINE r == [mailWorkers[w] EXCEPT !.at = "open"]
    <3>1. /\ mailWorkers' = [mailWorkers EXCEPT ![w] = r] /\ mailStops' = mailStops
          /\ UNCHANGED <<mailJobs, mailAttempts, mailSettings, handed>>
          /\ mailWorkers[w].at = "idle"
      BY <2>2 DEF MailDispatchEnabled, MailInv, MailTypeOK
    <3>2. r \in WorkerType /\ r.at = "open" /\ r.job = mailWorkers[w].job
      BY <2>0 DEF WorkerType
    <3>3. mailWorkers[w].job = NoJob
      BY <2>0, <3>1 DEF HandRow
    <3> HIDE DEF r
    <3> QED BY <2>0, <3>1, <3>2, <3>3, WorkerMoves
  <2>3. CASE \E j \in MailJob : ClaimNext(w, j)
    BY <2>3, ClaimMoves
  <2>4. CASE ClaimRefused(w)
    <3>1. /\ mailWorkers' = [mailWorkers EXCEPT ![w] = IdleMailWorker] /\ mailStops' = mailStops
          /\ UNCHANGED <<mailJobs, mailAttempts, mailSettings, handed>>
          /\ mailWorkers[w].at = "open"
      BY <2>4 DEF ClaimRefused
    <3>2. mailWorkers[w].job = NoJob
      BY <2>0, <3>1 DEF HandRow
    <3> QED BY <2>0, <2>1, <3>1, <3>2, WorkerMoves
  <2>5. ASSUME NEW loaded \in BOOLEAN, LoadDelivery(w, loaded) PROVE MailInv'
    <3> DEFINE r == [mailWorkers[w] EXCEPT !.at = IF loaded THEN "sending" ELSE "recording"]
    <3>1. /\ mailWorkers' = [mailWorkers EXCEPT ![w] = r] /\ mailStops' = mailStops
          /\ UNCHANGED <<mailJobs, mailAttempts, mailSettings, handed>>
          /\ mailWorkers[w].at = "claimed"
      BY <2>5 DEF LoadDelivery, MailInv, MailTypeOK
    <3>2. /\ r \in WorkerType /\ r.at \in {"sending", "recording"}
          /\ r.job = mailWorkers[w].job /\ r.result = mailWorkers[w].result
      BY <2>0 DEF WorkerType
    <3>3. mailWorkers[w].job # NoJob /\ mailWorkers[w].result = "terminal"
      BY <2>0, <3>1 DEF HandRow
    <3> HIDE DEF r
    <3> QED BY <2>0, <3>1, <3>2, <3>3, WorkerMoves
  <2>6. CASE \E result \in MailResult, taken \in BOOLEAN : Send(w, result, taken)
    BY <2>6, SendMoves
  <2>7. CASE Complete(w)
    BY <2>7, CompleteMoves
  <2>8. CASE RecordingFails(w)
    <3>1. /\ mailWorkers' = [mailWorkers EXCEPT ![w] = IdleMailWorker] /\ mailStops' = mailStops
          /\ UNCHANGED <<mailJobs, mailAttempts, mailSettings, handed>>
          /\ mailWorkers[w].job \in AuthJob
      BY <2>8 DEF RecordingFails
    <3> QED BY <2>0, <2>1, <3>1, WorkerMoves
  <2>9. CASE WorkerStops(w)
    <3>1. /\ mailWorkers' = [mailWorkers EXCEPT ![w] = IdleMailWorker]
          /\ mailStops' = mailStops + 1 /\ mailStops < MaxMailStops
          /\ UNCHANGED <<mailJobs, mailAttempts, mailSettings, handed>>
          /\ mailWorkers[w].job # NoJob
      BY <2>9 DEF WorkerStops
    <3> QED BY <2>0, <2>1, <3>1, WorkerMoves
  <2> QED BY <1>3, <2>2, <2>3, <2>4, <2>5, <2>6, <2>7, <2>8, <2>9 DEF MailRunOnce
<1>4. CASE UNCHANGED mailVars
  <2>1. /\ mailJobs' = mailJobs /\ mailAttempts' = mailAttempts /\ mailWorkers' = mailWorkers
        /\ handed' = handed /\ mailStops' = mailStops /\ mailSettings' = mailSettings
    BY <1>4 DEF mailVars
  <2>2. MailTypeOK'
    BY <2>1 DEF MailInv, MailTypeOK
  <2>3. (\A w \in MailWorker : HandRow(w)') /\ (\A j \in MailJob : JobRow(j)') /\ OneHand'
    BY <2>1 DEF MailInv, HandRow, JobRow, OneHand
  <2>4. AttemptsTellTheJob'
    BY <2>1 DEF MailInv, AttemptsTellTheJob
  <2>5. StrandedJobs' = StrandedJobs
    BY <2>1 DEF StrandedJobs, Stranded, InHand
  <2> QED BY <2>1, <2>2, <2>3, <2>4, <2>5 DEF MailInv
<1> QED BY <1>1, <1>2, <1>3, <1>4 DEF MailNext

\* What is over stays over, and 'sent' is the server's word.
LEMMA SentStaysSent ==
    ASSUME MailAssumption, MailInv, MailInv', [MailNext]_mailVars, NEW j \in MailJob
    PROVE  /\ mailJobs[j].status \in MailOver => mailJobs'[j] = mailJobs[j] /\ handed'[j] = handed[j]
           /\ mailJobs'[j].status = "sent" => handed'[j] > 0
<1>1. mailJobs'[j].status = "sent" => handed'[j] > 0
  BY DEF MailInv, JobRow
<1>2. ASSUME mailJobs[j].status \in MailOver
      PROVE  mailJobs'[j] = mailJobs[j] /\ handed'[j] = handed[j]
  <2>0. \A w \in MailWorker : mailWorkers[w].at \notin {"idle", "open"} => mailWorkers[w].job # j
    BY <1>2 DEF MailInv, HandRow, MailOver
  <2>1. CASE \E k \in MailJob : EnqueueMailTx(k) \/ RetryFallsDue(k)
    BY <1>2, <2>1 DEF EnqueueMailTx, RetryFallsDue, MailOver, MailInv, MailTypeOK
  <2>2. CASE \E enabled \in BOOLEAN : UpdateAdminMailSettings(enabled)
    BY <2>2 DEF UpdateAdminMailSettings
  <2>3. ASSUME NEW w \in MailWorker, MailRunOnce(w) \/ WorkerStops(w)
        PROVE  mailJobs'[j] = mailJobs[j] /\ handed'[j] = handed[j]
    <3>1. CASE \E k \in MailJob : ClaimNext(w, k)
      BY <1>2, <3>1 DEF ClaimNext, Waiting, MailOver, MailInv, MailTypeOK
    <3>2. CASE \E result \in MailResult, taken \in BOOLEAN : Send(w, result, taken)
      BY <2>0, <3>2 DEF Send, MailInv, MailTypeOK
    <3>3. CASE Complete(w)
      BY <2>0, <3>3 DEF Complete, MailInv, MailTypeOK
    <3>4. CASE ~(\E k \in MailJob : ClaimNext(w, k)) /\ ~Complete(w)
               /\ ~(\E result \in MailResult, taken \in BOOLEAN : Send(w, result, taken))
      BY <2>3, <3>4 DEF MailRunOnce, WorkerStops, MailDispatchEnabled, ClaimRefused, LoadDelivery,
                        RecordingFails
    <3> QED BY <3>1, <3>2, <3>3, <3>4
  <2>4. CASE UNCHANGED mailVars
    BY <2>4 DEF mailVars
  <2> QED BY <2>1, <2>2, <2>3, <2>4 DEF MailNext
<1> QED BY <1>1, <1>2

LEMMA MailHolds ==
    ASSUME MailAssumption, MailInv
    PROVE  MailTypeOK /\ OneWorkerPerJob /\ AttemptsTellTheJob /\ StrandedByStops
<1>1. OneWorkerPerJob
  <2> SUFFICES ASSUME NEW j \in MailJob
               PROVE  /\ InHand(j) # {} => mailJobs[j].status = "sending"
                      /\ Cardinality(InHand(j)) <= 1
    BY DEF OneWorkerPerJob
  <2>0. j # NoJob
    BY MailNumbers
  <2>1. InHand(j) # {} => mailJobs[j].status = "sending"
    BY <2>0 DEF InHand, MailInv, HandRow
  <2>2. CASE InHand(j) = {}
    BY <2>1, <2>2, FS_EmptySet
  <2>3. CASE InHand(j) # {}
    <3>1. PICK w : w \in InHand(j)
      BY <2>3
    <3>2. InHand(j) = {w}
      BY <2>0, <3>1 DEF InHand, MailInv, OneHand
    <3> QED BY <2>1, <3>2, FS_Singleton
  <2> QED BY <2>2, <2>3
<1>2. StrandedByStops
  BY DEF MailInv, StrandedJobs, StrandedByStops
<1> QED BY <1>1, <1>2 DEF MailInv

(* Claims, crashes between the server's answer and its record, late records and   *)
(* sweeps send no job more often than it was attempted, leave no job to two        *)
(* workers, and strand no more jobs than there were stops.                         *)
THEOREM MailIsSafe == MailSpec => MailSafety
<1>1. MailInit => MailInv
  BY MailAssumption, MailStarts
<1>2. MailInv /\ [MailNext]_mailVars => MailInv'
  BY MailAssumption, MailStep
<1>3. MailInv => MailTypeOK /\ OneWorkerPerJob /\ AttemptsTellTheJob /\ StrandedByStops
  BY MailAssumption, MailHolds
<1> DEFINE A == \A j \in MailJob :
          /\ mailJobs[j].status \in MailOver
                 => mailJobs'[j] = mailJobs[j] /\ handed'[j] = handed[j]
          /\ mailJobs'[j].status = "sent" => handed'[j] > 0
<1>4. MailInv /\ MailInv' /\ [MailNext]_mailVars => [A]_mailVars
  <2> SUFFICES ASSUME MailInv, MailInv', [MailNext]_mailVars PROVE A
    OBVIOUS
  <2> QED BY MailAssumption, SentStaysSent
<1>5. MailSpec => [][A]_mailVars
  BY <1>1, <1>2, <1>4, PTL DEF MailSpec
<1>6. MailSpec => OverIsNotSentAgain
  BY <1>5 DEF OverIsNotSentAgain
<1>7. MailSpec => [](MailTypeOK /\ OneWorkerPerJob /\ AttemptsTellTheJob /\ StrandedByStops)
  BY <1>1, <1>2, <1>3, PTL DEF MailSpec
<1> QED BY <1>6, <1>7 DEF MailSafety

-----------------------------------------------------------------------------
(* WebhookDelivery: posts under leases that may be lost with Redis *)

\* The monitors that work on a delivery without its lease.
Unleased(d) == {m \in Under(d) : leases[d] # m}

SenderRow(m) ==
    LET s == senders[m] IN
    /\ s.at = "idle" <=> s.of = NoDelivery
    /\ s.at = "marking" /\ s.answer = "accepted" => s.of \in accepted
    /\ lost = 0 /\ s.at \in {"posting", "marking"} =>
         deliveries[s.of].status = "retrying" /\ deliveries[s.of].attempts = s.attempts

LeaseRow(d) ==
    /\ leases[d] \in Sender => leases[d] \in Under(d)
    /\ IsFiniteSet(Unleased(d)) /\ Cardinality(Unleased(d)) <= lost

DeliveryRow(d) ==
    /\ deliveries[d].status = "retrying" => deliveries[d].attempts < MaxDeliveryAttempts
    /\ deliveries[d].status = "none" => deliveries[d].attempts = 0
    /\ deliveries[d].status = "delivered" => d \in accepted

PostRow(d) ==
    lost = 0 =>
        posts[d] <= deliveries[d].attempts + senderStops + (IF Marking(d) = {} THEN 0 ELSE 1)

\* Who works on a delivery, what its lease says, where it stands and how often it was
\* posted, related: while no lease is lost one monitor works on it, and each post but
\* the last is an attempt or a stop.
WebhookInv ==
    /\ WebhookTypeOK
    /\ \A m \in Sender : SenderRow(m)
    /\ \A d \in Delivery : LeaseRow(d) /\ DeliveryRow(d) /\ PostRow(d)

-----------------------------------------------------------------------------
SenderType == [at : {"idle", "picked", "leased", "posting", "marking"},
               of : Delivery \cup {NoDelivery},
               attempts : 0 .. MaxDeliveryAttempts - 1, answer : Answer]
DeliveryType == [status : DeliveryStatus, attempts : 0 .. MaxDeliveryAttempts, due : BOOLEAN]

LEMMA WebhookNumbers ==
    ASSUME WebhookAssumption
    PROVE  /\ MaxDeliveryAttempts \in Nat /\ MaxDeliveryAttempts >= 1
           /\ MaxLost \in Nat /\ MaxSenderStops \in Nat
           /\ NoDelivery \notin Delivery /\ NoLease \notin Sender /\ Orphan \notin Sender
           /\ NoLease # Orphan
BY DEF WebhookAssumption

\* Membership, said of the rows.
LEMMA WhoWorks ==
    ASSUME NEW d
    PROVE  /\ \A m : m \in Under(d) <=> m \in Sender /\ senders[m].of = d /\ senders[m].at # "picked"
           /\ \A m : m \in Under(d)' <=> m \in Sender /\ senders'[m].of = d /\ senders'[m].at # "picked"
           /\ \A m : m \in Unleased(d) <=> m \in Under(d) /\ leases[d] # m
           /\ \A m : m \in Unleased(d)' <=> m \in Under(d)' /\ leases'[d] # m
           /\ \A m : m \in Marking(d) <=> /\ m \in Sender /\ senders[m].of = d
                                          /\ senders[m].at = "marking"
           /\ \A m : m \in Marking(d)' <=> /\ m \in Sender /\ senders'[m].of = d
                                           /\ senders'[m].at = "marking"
BY DEF Under, Unleased, Marking, Carries

\* While no lease was lost, a monitor at work on a delivery is alone.
LEMMA AloneAtWork ==
    ASSUME WebhookInv, lost = 0, NEW d \in Delivery, NEW m \in Under(d), NEW v \in Under(d)
    PROVE  m = v
<1>1. IsFiniteSet(Unleased(d)) /\ Cardinality(Unleased(d)) <= 0
  BY DEF WebhookInv, LeaseRow
<1>2. Cardinality(Unleased(d)) \in Nat
  BY <1>1, FS_CardinalityType
<1>3. Unleased(d) = {}
  BY <1>1, <1>2, FS_EmptySet
<1> QED BY <1>3 DEF Unleased

LEMMA LeaseStep ==
    ASSUME WebhookInv, NEW d \in Delivery, lost \in Nat, lost' \in Nat,
           leases'[d] \in Sender => leases'[d] \in Under(d)',
           \/ Unleased(d)' \subseteq Unleased(d) /\ lost' >= lost
           \/ (\E x : Unleased(d)' \subseteq Unleased(d) \cup {x}) /\ lost' = lost + 1
    PROVE  LeaseRow(d)'
<1>1. IsFiniteSet(Unleased(d)) /\ Cardinality(Unleased(d)) <= lost
  BY DEF WebhookInv, LeaseRow
<1> DEFINE A == Unleased(d)
           B == Unleased(d)'
<1> HIDE DEF Unleased
<1>2. IsFiniteSet(B) /\ Cardinality(B) <= lost'
  <2> HIDE DEF A, B
  <2>1. \/ B \subseteq A /\ lost' >= lost
        \/ (\E x : B \subseteq A \cup {x}) /\ lost' = lost + 1
    BY DEF A, B
  <2>2. IsFiniteSet(A) /\ Cardinality(A) <= lost
    BY <1>1 DEF A
  <2> QED BY <2>1, <2>2, FewMembers
<1> QED BY <1>2 DEF LeaseRow

LEMMA WebhookStarts == ASSUME WebhookAssumption, WebhookInit PROVE WebhookInv
<1>1. WebhookTypeOK
  BY WebhookNumbers DEF WebhookInit, WebhookTypeOK, IdleSender, DeliveryStatus, Answer
<1>2. \A m \in Sender : senders[m] = IdleSender
  BY DEF WebhookInit
<1>3. IdleSender.at = "idle" /\ IdleSender.of = NoDelivery
  BY DEF IdleSender
<1>4. \A m \in Sender : SenderRow(m)
  BY <1>2, <1>3 DEF SenderRow
<1>5. \A d \in Delivery : Unleased(d) = {} /\ Marking(d) = {}
  BY <1>2, <1>3, WebhookNumbers, WhoWorks
<1>6. \A d \in Delivery : LeaseRow(d)
  <2> SUFFICES ASSUME NEW d \in Delivery PROVE LeaseRow(d)
    OBVIOUS
  <2>1. leases[d] \notin Sender /\ lost = 0
    BY WebhookNumbers DEF WebhookInit
  <2>2. IsFiniteSet(Unleased(d)) /\ Cardinality(Unleased(d)) = 0
    BY <1>5, FS_EmptySet
  <2> QED BY <2>1, <2>2 DEF LeaseRow
<1>7. \A d \in Delivery : DeliveryRow(d)
  BY WebhookNumbers DEF WebhookInit, DeliveryRow
<1>8. \A d \in Delivery : PostRow(d)
  BY <1>5 DEF WebhookInit, PostRow
<1> QED BY <1>1, <1>4, <1>6, <1>7, <1>8 DEF WebhookInv

-----------------------------------------------------------------------------
(* A row of the deliveries is queued, retried by hand or falls due.        *)
LEMMA RowMoves ==
    ASSUME WebhookAssumption, WebhookInv, NEW d \in Delivery,
           (\E m \in Sender : QueueDelivery(m, d)) \/ RetryDelivery(d) \/ DeliveryFallsDue(d)
    PROVE  WebhookInv'
<1>0. /\ hookActive' = hookActive /\ happened' = happened /\ leases' = leases /\ senders' = senders
      /\ accepted' = accepted /\ lost' = lost /\ senderStops' = senderStops
  BY DEF QueueDelivery, RetryDelivery, DeliveryFallsDue, ghosts
<1>1. /\ deliveries[d] \in DeliveryType /\ DeliveryRow(d) /\ PostRow(d) /\ posts[d] \in Nat
      /\ MaxDeliveryAttempts \in Nat /\ MaxDeliveryAttempts >= 1
      /\ lost \in Nat /\ senderStops \in Nat
  BY WebhookNumbers DEF WebhookInv, WebhookTypeOK, DeliveryType
<1> DEFINE Good(r) ==
        /\ deliveries' = [deliveries EXCEPT ![d] = r]
        /\ deliveries[d].status # "delivered"
        /\ r.status = "retrying" /\ r.attempts < MaxDeliveryAttempts
        /\ deliveries[d].status = "retrying" => r.attempts = deliveries[d].attempts
        /\ \/ posts' = posts /\ r.attempts = deliveries[d].attempts
           \/ posts' = [posts EXCEPT ![d] = 0]
<1>2. PICK r \in DeliveryType : Good(r)
  <2> DEFINE f == [status |-> "retrying", attempts |-> 0, due |-> TRUE]
  <2>0. f \in DeliveryType /\ FreshDelivery = f /\ f.status = "retrying" /\ f.attempts = 0
    BY <1>1 DEF DeliveryType, DeliveryStatus, FreshDelivery
  <2> HIDE DEF f
  <2>1. CASE \E m \in Sender : QueueDelivery(m, d)
    <3>1. /\ deliveries' = [deliveries EXCEPT ![d] = f] /\ posts' = posts
          /\ deliveries[d].status = "none"
      BY <2>0, <2>1 DEF QueueDelivery, Unqueued, ghosts
    <3>2. deliveries[d].attempts = 0 /\ 0 < MaxDeliveryAttempts
      BY <3>1, <1>1 DEF DeliveryRow
    <3>3. Good(f)
      BY <3>1, <3>2, <2>0
    <3> HIDE DEF Good
    <3> QED BY <3>3, <2>0
  <2>2. CASE RetryDelivery(d)
    <3>1. /\ deliveries' = [deliveries EXCEPT ![d] = f] /\ posts' = [posts EXCEPT ![d] = 0]
          /\ deliveries[d].status = "failed"
      BY <2>0, <2>2 DEF RetryDelivery
    <3>2. 0 < MaxDeliveryAttempts
      BY <1>1
    <3>3. Good(f)
      BY <3>1, <3>2, <2>0
    <3> HIDE DEF Good
    <3> QED BY <3>3, <2>0
  <2>3. CASE DeliveryFallsDue(d)
    <3> DEFINE g == [deliveries[d] EXCEPT !.due = TRUE]
    <3>1. g \in DeliveryType /\ g.status = deliveries[d].status /\ g.attempts = deliveries[d].attempts
      BY <1>1 DEF DeliveryType
    <3>2. /\ deliveries' = [deliveries EXCEPT ![d] = g] /\ posts' = posts
          /\ deliveries[d].status = "retrying"
      BY <2>3 DEF DeliveryFallsDue, WebhookInv, WebhookTypeOK, ghosts
    <3> HIDE DEF g
    <3> QED BY <3>1, <3>2, <1>1 DEF DeliveryRow
  <2> QED BY <2>1, <2>2, <2>3
<1>3. \A e \in Delivery : deliveries'[e] = IF e = d THEN r ELSE deliveries[e]
  BY <1>2 DEF WebhookInv, WebhookTypeOK
<1>4. /\ posts' \in [Delivery -> Nat]
      /\ \A e \in Delivery : e # d => posts'[e] = posts[e]
      /\ posts'[d] = 0 \/ (posts'[d] = posts[d] /\ r.attempts = deliveries[d].attempts)
  BY <1>2 DEF WebhookInv, WebhookTypeOK
<1>5. WebhookTypeOK'
  <2>1. deliveries' \in [Delivery -> DeliveryType]
    BY <1>2 DEF WebhookInv, WebhookTypeOK, DeliveryType
  <2> QED BY <2>1, <1>0, <1>4 DEF WebhookInv, WebhookTypeOK, DeliveryType
<1>6. \A m \in Sender : SenderRow(m)'
  <2> SUFFICES ASSUME NEW m \in Sender PROVE SenderRow(m)'
    OBVIOUS
  <2>1. SenderRow(m) /\ senders[m] \in SenderType
    BY DEF WebhookInv, WebhookTypeOK, SenderType
  <2>2. ASSUME lost = 0, senders[m].at \in {"posting", "marking"}
        PROVE  /\ deliveries'[senders[m].of].status = "retrying"
               /\ deliveries'[senders[m].of].attempts = senders[m].attempts
    <3>1. senders[m].of \in Delivery
      BY <2>1, <2>2 DEF SenderRow, SenderType
    <3> QED BY <3>1, <2>1, <2>2, <1>2, <1>3 DEF SenderRow
  <2> QED BY <2>1, <2>2, <1>0 DEF SenderRow
<1>7. \A e \in Delivery : LeaseRow(e)'
  BY <1>0 DEF WebhookInv, LeaseRow, Unleased, Under, Carries
<1>8. \A e \in Delivery : DeliveryRow(e)'
  BY <1>0, <1>2, <1>3 DEF WebhookInv, DeliveryRow
<1>9. ASSUME NEW e \in Delivery PROVE PostRow(e)'
  <2>1. Marking(e)' = Marking(e) /\ PostRow(e)
    BY <1>0 DEF Marking, Under, Carries, WebhookInv
  <2>2. CASE e = d
    <3>1. r.attempts \in Nat /\ deliveries'[e] = r
      BY <2>2, <1>1, <1>3 DEF DeliveryType
    <3> HIDE DEF Marking
    <3> QED BY <3>1, <2>1, <2>2, <1>0, <1>1, <1>4 DEF PostRow
  <2>3. CASE e # d
    <3> HIDE DEF Marking
    <3> QED BY <2>1, <2>3, <1>0, <1>3, <1>4 DEF PostRow
  <2> QED BY <2>2, <2>3
<1> QED BY <1>5, <1>6, <1>7, <1>8, <1>9 DEF WebhookInv

(* A lease ends: Redis ends an orphan, or loses one that is held.          *)
LEMMA LeaseMoves ==
    ASSUME WebhookAssumption, WebhookInv, NEW d \in Delivery, OrphanEnds(d) \/ LeaseLost(d)
    PROVE  WebhookInv'
<1>0. /\ hookActive' = hookActive /\ happened' = happened /\ senders' = senders
      /\ accepted' = accepted /\ senderStops' = senderStops /\ deliveries' = deliveries
      /\ posts' = posts /\ leases' = [leases EXCEPT ![d] = NoLease]
      /\ \/ leases[d] = Orphan /\ lost' = lost
         \/ leases[d] \in Sender /\ lost < MaxLost /\ lost' = lost + 1
  BY DEF OrphanEnds, LeaseLost, ghosts
<1>1. /\ lost \in Nat /\ lost' \in Nat /\ lost' \in 0 .. MaxLost /\ lost' >= lost
      /\ NoLease \notin Sender /\ Orphan \notin Sender
  BY <1>0, WebhookNumbers DEF WebhookInv, WebhookTypeOK
<1>2. \A e \in Delivery : leases'[e] = IF e = d THEN NoLease ELSE leases[e]
  BY <1>0 DEF WebhookInv, WebhookTypeOK
<1>3. WebhookTypeOK'
  BY <1>0, <1>1 DEF WebhookInv, WebhookTypeOK
<1>4. \A m \in Sender : SenderRow(m)'
  BY <1>0, <1>1 DEF WebhookInv, SenderRow
<1>5. ASSUME NEW e \in Delivery PROVE LeaseRow(e)'
  <2>0. LeaseRow(e) /\ Under(e)' = Under(e)
    BY <1>0 DEF WebhookInv, Under, Carries
  <2>1. leases'[e] \in Sender => leases'[e] \in Under(e)'
    BY <2>0, <1>1, <1>2 DEF LeaseRow
  <2>2. \/ Unleased(e)' \subseteq Unleased(e) /\ lost' >= lost
        \/ (\E x : Unleased(e)' \subseteq Unleased(e) \cup {x}) /\ lost' = lost + 1
    <3>1. \A m : m \in Unleased(e)' => m \in Unleased(e) \/ m = leases[d]
      BY <2>0, <1>2, WhoWorks
    <3>2. leases[d] = Orphan => \A m : m \in Unleased(e)' => m \in Unleased(e)
      BY <2>0, <1>1, <1>2, WhoWorks
    <3> HIDE DEF Unleased
    <3>3. CASE leases[d] = Orphan
      BY <3>2, <3>3, <1>1
    <3>4. CASE leases[d] # Orphan
      <4>1. Unleased(e)' \subseteq Unleased(e) \cup {leases[d]}
        BY <3>1
      <4> QED BY <4>1, <3>4, <1>0
    <3> QED BY <3>3, <3>4
  <2> QED BY <2>1, <2>2, <1>1, LeaseStep
<1>6. \A e \in Delivery : DeliveryRow(e)'
  BY <1>0 DEF WebhookInv, DeliveryRow
<1>7. ASSUME NEW e \in Delivery PROVE PostRow(e)'
  <2>1. Marking(e)' = Marking(e) /\ PostRow(e)
    BY <1>0 DEF Marking, Under, Carries, WebhookInv
  <2> HIDE DEF Marking
  <2> QED BY <2>1, <1>0, <1>1 DEF PostRow
<1> QED BY <1>3, <1>4, <1>5, <1>6, <1>7 DEF WebhookInv

-----------------------------------------------------------------------------
(* A monitor goes on with its delivery, d, without giving its lease back:  *)
(* r is its new row.                                                       *)
Onward(m, r, d) ==
    /\ hookActive' = hookActive /\ happened' = happened /\ deliveries' = deliveries
    /\ lost' = lost /\ senderStops' = senderStops
    /\ senders' = [senders EXCEPT ![m] = r]

LEMMA OnwardKeeps ==
    ASSUME WebhookAssumption, WebhookInv, NEW m \in Sender, NEW d \in Delivery, NEW r \in SenderType,
           Onward(m, r, d), r.of = d, r.at # "idle",
           senders[m].of = d \/ senders[m].at = "idle",
           leases' \in [Delivery -> Sender \cup {NoLease, Orphan}],
           posts' \in [Delivery -> Nat], accepted' \subseteq Delivery, accepted \subseteq accepted',
           \A e \in Delivery : e # d => leases'[e] = leases[e] /\ posts'[e] = posts[e],
           \/ /\ r.at = "picked" /\ senders[m].at = "idle" /\ leases' = leases
           \/ /\ r.at = "leased" /\ senders[m].at = "picked"
              /\ leases[d] = NoLease /\ leases'[d] = m
           \/ /\ r.at \in {"posting", "marking"} /\ senders[m].at \in {"leased", "posting"}
              /\ leases' = leases,
           r.at = "marking" <=> senders[m].at = "posting",
           r.at = "marking" /\ r.answer = "accepted" => d \in accepted',
           r.at \in {"posting", "marking"} /\ lost = 0 =>
              deliveries[d].status = "retrying" /\ deliveries[d].attempts = r.attempts,
           IF r.at = "marking" THEN posts'[d] <= posts[d] + 1 ELSE posts'[d] = posts[d]
    PROVE  WebhookInv'
<1>0. /\ lost \in Nat /\ senderStops \in Nat /\ d # NoDelivery /\ NoLease \notin Sender
      /\ senders[m] \in SenderType /\ SenderRow(m)
  BY WebhookNumbers DEF WebhookInv, WebhookTypeOK, SenderType
<1>1. \A v \in Sender : senders'[v] = IF v = m THEN r ELSE senders[v]
  BY DEF Onward, WebhookInv, WebhookTypeOK
<1>2. senders' \in [Sender -> SenderType]
  BY DEF Onward, WebhookInv, WebhookTypeOK, SenderType
<1>3. WebhookTypeOK'
  BY <1>2 DEF Onward, WebhookInv, WebhookTypeOK, SenderType
<1>4. ASSUME NEW v \in Sender PROVE SenderRow(v)'
  <2>1. CASE v = m
    <3>1. senders'[v] = r
      BY <2>1, <1>1
    <3> QED BY <3>1, <1>0 DEF SenderRow, Onward
  <2>2. CASE v # m
    <3>1. senders'[v] = senders[v] /\ SenderRow(v)
      BY <2>2, <1>1 DEF WebhookInv
    <3> QED BY <3>1 DEF SenderRow, Onward
  <2> QED BY <2>1, <2>2
<1>5. ASSUME NEW e \in Delivery PROVE LeaseRow(e)'
  <2>0. LeaseRow(e)
    BY DEF WebhookInv
  <2>1. e # d => senders[m].of # e
    BY <1>0 DEF SenderRow
  <2>2. \A v \in Sender : v \in Under(e)' <=> v \in Under(e) \/ (v = m /\ e = d /\ r.at = "leased")
    <3> SUFFICES ASSUME NEW v \in Sender
                 PROVE  v \in Under(e)' <=> v \in Under(e) \/ (v = m /\ e = d /\ r.at = "leased")
      OBVIOUS
    <3>1. CASE v # m
      BY <3>1, <1>1, WhoWorks
    <3>2. CASE v = m
      <4>1. v \in Under(e)' <=> e = d /\ r.at # "picked"
        BY <3>2, <1>1, WhoWorks
      <4>2. v \in Under(e) <=> senders[m].of = e /\ senders[m].at # "picked"
        BY <3>2, WhoWorks
      <4>3. senders[m].at = "idle" => senders[m].of # e
        BY <1>0, WebhookNumbers DEF SenderRow
      <4> QED BY <4>1, <4>2, <4>3, <2>1, <3>2
    <3> QED BY <3>1, <3>2
  <2>3. leases'[e] \in Sender => leases'[e] \in Under(e)'
    BY <2>0, <2>2 DEF LeaseRow
  <2>4. \A v : v \in Unleased(e)' => v \in Unleased(e)
    <3> SUFFICES ASSUME NEW v \in Unleased(e)' PROVE v \in Unleased(e)
      OBVIOUS
    <3>1. v \in Under(e)' /\ leases'[e] # v /\ v \in Sender
      BY WhoWorks
    <3>2. v \in Under(e)
      BY <3>1, <2>2
    <3>3. leases[e] # v
      BY <3>1, <1>0
    <3> QED BY <3>2, <3>3, WhoWorks
  <2> HIDE DEF Unleased
  <2> QED BY <2>3, <2>4, <1>0, LeaseStep DEF Onward
<1>6. \A e \in Delivery : DeliveryRow(e)'
  BY DEF WebhookInv, DeliveryRow, Onward
<1>7. ASSUME NEW e \in Delivery, lost = 0 PROVE PostRow(e)'
  <2>0. PostRow(e) /\ deliveries[e].attempts \in Nat /\ posts[e] \in Nat /\ posts'[e] \in Nat
    BY WebhookNumbers DEF WebhookInv, WebhookTypeOK
  <2>1. CASE r.at = "marking" /\ e = d
    <3>1. m \in Under(d)
      BY <2>1, WhoWorks
    <3>2. Marking(d) = {}
      <4> SUFFICES ASSUME NEW v \in Marking(d) PROVE FALSE
        OBVIOUS
      <4>1. v \in Under(d) /\ senders[v].at = "marking"
        BY WhoWorks
      <4> QED BY <4>1, <3>1, <2>1, <1>7, AloneAtWork
    <3>3. Marking(d)' # {}
      BY <2>1, <1>1, WhoWorks
    <3> HIDE DEF Marking
    <3> QED BY <3>2, <3>3, <2>0, <2>1, <1>0, <1>7 DEF PostRow, Onward
  <2>2. CASE ~(r.at = "marking" /\ e = d)
    <3>1. posts'[e] = posts[e]
      BY <2>2
    <3>2. \A v : v \in Marking(e)' <=> v \in Marking(e)
      BY <2>2, <1>0, <1>1, WhoWorks DEF SenderRow
    <3>3. Marking(e)' = {} <=> Marking(e) = {}
      BY <3>2
    <3> HIDE DEF Marking
    <3> QED BY <3>1, <3>3, <2>0, <1>0 DEF PostRow, Onward
  <2> QED BY <2>1, <2>2
<1>8. \A e \in Delivery : PostRow(e)'
  BY <1>7 DEF PostRow, Onward
<1> QED BY <1>3, <1>4, <1>5, <1>6, <1>8 DEF WebhookInv

(* A monitor is done with its delivery, d, or stops; row is what it leaves.  *)
LEMMA LeavingKeeps ==
    ASSUME WebhookAssumption, WebhookInv, NEW m \in Sender, NEW d \in Delivery, senders[m].of = d,
           hookActive' = hookActive, happened' = happened, accepted' = accepted,
           posts' = posts, lost' = lost, senderStops' \in 0 .. MaxSenderStops,
           senders' = [senders EXCEPT ![m] = IdleSender],
           NEW x \in {NoLease, Orphan},
           leases' = IF leases[d] = m THEN [leases EXCEPT ![d] = x] ELSE leases,
           NEW row \in DeliveryType, deliveries' = [deliveries EXCEPT ![d] = row],
           \/ row = deliveries[d]
           \/ /\ senders[m].at = "marking" /\ deliveries[d].status = "retrying"
              /\ row.status = "retrying" => row.attempts < MaxDeliveryAttempts
              /\ row.status # "none" /\ (row.status = "delivered" => d \in accepted),
           \/ senderStops' = senderStops + 1 /\ row = deliveries[d]
           \/ senderStops' = senderStops /\ senders[m].at # "marking" /\ row = deliveries[d]
           \/ senderStops' = senderStops /\ (lost = 0 => row.attempts = deliveries[d].attempts + 1)
    PROVE  WebhookInv'
<1>0. /\ lost \in Nat /\ senderStops \in Nat /\ d # NoDelivery /\ NoLease \notin Sender
      /\ Orphan \notin Sender /\ DeliveryRow(d) /\ deliveries[d] \in DeliveryType
      /\ m \in Under(d) \/ senders[m].at = "picked"
  BY WebhookNumbers, WhoWorks DEF WebhookInv, WebhookTypeOK, DeliveryType
<1>1. \A v \in Sender : senders'[v] = IF v = m THEN IdleSender ELSE senders[v]
  BY DEF WebhookInv, WebhookTypeOK
<1>2. \A e \in Delivery : deliveries'[e] = IF e = d THEN row ELSE deliveries[e]
  BY DEF WebhookInv, WebhookTypeOK
<1>3. \A e \in Delivery : leases'[e] = IF e = d /\ leases[d] = m THEN x ELSE leases[e]
  BY DEF WebhookInv, WebhookTypeOK
<1>4. IdleSender \in SenderType /\ IdleSender.at = "idle" /\ IdleSender.of = NoDelivery
  BY WebhookNumbers DEF IdleSender, SenderType, Answer
<1>5. WebhookTypeOK'
  <2>1. senders' \in [Sender -> SenderType] /\ deliveries' \in [Delivery -> DeliveryType]
    BY <1>4 DEF WebhookInv, WebhookTypeOK, SenderType, DeliveryType
  <2>2. leases' \in [Delivery -> Sender \cup {NoLease, Orphan}]
    BY DEF WebhookInv, WebhookTypeOK
  <2> QED BY <2>1, <2>2 DEF WebhookInv, WebhookTypeOK, SenderType, DeliveryType
<1>6. ASSUME NEW v \in Sender PROVE SenderRow(v)'
  <2>1. CASE v = m
    <3>1. senders'[v] = IdleSender
      BY <2>1, <1>1
    <3> QED BY <3>1, <1>4 DEF SenderRow
  <2>2. CASE v # m
    <3>1. senders'[v] = senders[v] /\ SenderRow(v) /\ senders[v] \in SenderType
      BY <2>2, <1>1 DEF WebhookInv, WebhookTypeOK, SenderType
    <3>2. ASSUME lost = 0, senders[v].at \in {"posting", "marking"}
          PROVE  deliveries'[senders[v].of] = deliveries[senders[v].of]
      <4>1. senders[v].of \in Delivery
        BY <3>1, <3>2 DEF SenderRow, SenderType
      <4>2. CASE senders[v].of # d
        BY <4>1, <4>2, <1>2
      <4>3. CASE senders[v].of = d
        <5>1. v \in Under(d)
          BY <4>3, <3>2, WhoWorks
        <5>2. m \notin Under(d)
          BY <5>1, <2>2, <3>2, AloneAtWork
        <5>3. row = deliveries[d]
          BY <5>2, <1>0
        <5> QED BY <5>3, <4>3, <1>2
      <4> QED BY <4>2, <4>3
    <3> QED BY <3>1, <3>2 DEF SenderRow
  <2> QED BY <2>1, <2>2
<1>7. ASSUME NEW e \in Delivery PROVE LeaseRow(e)'
  <2>0. LeaseRow(e)
    BY DEF WebhookInv
  <2>1. \A v \in Sender : v # m => (v \in Under(e)' <=> v \in Under(e))
    BY <1>1, WhoWorks
  <2>2. m \notin Under(e)'
    BY <1>0, <1>1, <1>4, WebhookNumbers, WhoWorks
  <2>3. leases'[e] \in Sender => leases'[e] \in Under(e)'
    <3>1. SUFFICES ASSUME leases'[e] \in Sender PROVE leases'[e] \in Under(e)'
      OBVIOUS
    <3>2. leases'[e] = leases[e] /\ ~(e = d /\ leases[d] = m)
      BY <3>1, <1>0, <1>3
    <3>3. leases[e] \in Under(e)
      BY <3>1, <3>2, <2>0 DEF LeaseRow
    <3>4. leases[e] # m
      BY <3>2, <3>3, WhoWorks
    <3> QED BY <3>1, <3>2, <3>3, <3>4, <2>1
  <2>4. \A v : v \in Unleased(e)' => v \in Unleased(e)
    <3> SUFFICES ASSUME NEW v \in Unleased(e)' PROVE v \in Unleased(e)
      OBVIOUS
    <3>1. v \in Under(e)' /\ leases'[e] # v /\ v \in Sender
      BY WhoWorks
    <3>2. v # m /\ v \in Under(e)
      BY <3>1, <2>1, <2>2
    <3>3. leases[e] # v
      BY <3>1, <3>2, <1>3
    <3> QED BY <3>2, <3>3, WhoWorks
  <2> HIDE DEF Unleased
  <2> QED BY <2>3, <2>4, <1>0, LeaseStep
<1>8. ASSUME NEW e \in Delivery PROVE DeliveryRow(e)'
  <2>1. DeliveryRow(e)
    BY DEF WebhookInv
  <2>2. CASE e # d
    BY <2>1, <2>2, <1>2 DEF DeliveryRow
  <2>3. CASE e = d
    <3>1. deliveries'[e] = row
      BY <2>3, <1>2
    <3> QED BY <3>1, <2>1, <2>3 DEF DeliveryRow
  <2> QED BY <2>2, <2>3
<1>9. ASSUME NEW e \in Delivery, lost = 0 PROVE PostRow(e)'
  <2>0. /\ PostRow(e) /\ deliveries[e].attempts \in Nat /\ posts[e] \in Nat
        /\ senderStops' >= senderStops /\ senderStops' \in Nat
    BY <1>0, WebhookNumbers DEF WebhookInv, WebhookTypeOK
  <2>1. \A v \in Sender : v # m => (v \in Marking(e)' <=> v \in Marking(e))
    BY <1>1, WhoWorks
  <2>2. \A v : v \in Marking(e) => v \in Sender
    BY WhoWorks
  <2>3. CASE e # d \/ senders[m].at # "marking"
    <3>0. m \notin Marking(e)
      BY <2>3, WhoWorks
    <3>1. Marking(e)' = {} => Marking(e) = {}
      BY <3>0, <2>1, <2>2
    <3>2. deliveries'[e] = deliveries[e]
      BY <2>3, <1>2
    <3> HIDE DEF Marking
    <3> QED BY <3>1, <3>2, <2>0, <1>0, <1>9 DEF PostRow
  <2>4. CASE e = d /\ senders[m].at = "marking"
    <3>1. deliveries'[e] = row /\ row.attempts \in Nat
      BY <2>4, <1>2, WebhookNumbers DEF DeliveryType
    <3>2. posts[e] <= row.attempts + senderStops'
      <4> HIDE DEF Marking
      <4>1. posts[e] <= deliveries[e].attempts + senderStops + 1
        BY <2>0, <1>0, <1>9 DEF PostRow
      <4> QED BY <4>1, <2>0, <2>4, <3>1, <1>0, <1>9
    <3> HIDE DEF Marking
    <3> QED BY <3>1, <3>2, <2>0 DEF PostRow
  <2> QED BY <2>3, <2>4
<1>10. \A e \in Delivery : PostRow(e)'
  BY <1>9 DEF PostRow
<1> QED BY <1>5, <1>6, <1>7, <1>8, <1>10 DEF WebhookInv

LEMMA SenderStep ==
    ASSUME WebhookAssumption, WebhookInv, NEW m \in Sender,
           RunDeliveryOnce(m) \/ MarkFails(m) \/ SenderStops(m)
    PROVE  WebhookInv'
<1> DEFINE d == senders[m].of
<1>0. /\ lost \in Nat /\ senderStops \in Nat /\ senderStops \in 0 .. MaxSenderStops
      /\ MaxSenderStops \in Nat /\ MaxDeliveryAttempts \in Nat /\ MaxDeliveryAttempts >= 1
      /\ senders[m] \in SenderType /\ SenderRow(m)
      /\ leases \in [Delivery -> Sender \cup {NoLease, Orphan}]
      /\ posts \in [Delivery -> Nat] /\ accepted \subseteq Delivery
      /\ deliveries \in [Delivery -> DeliveryType] /\ NoDelivery \notin Delivery
      /\ senders \in [Sender -> SenderType]
  BY WebhookNumbers DEF WebhookInv, WebhookTypeOK, SenderType, DeliveryType
<1>1. senders[m].at # "idle" => d \in Delivery
  BY <1>0 DEF SenderRow, SenderType
<1>2. ASSUME NEW e \in Delivery, NextDueDelivery(m, e) PROVE WebhookInv'
  <2> DEFINE r == [IdleSender EXCEPT !.at = "picked", !.of = e]
  <2>1. r \in SenderType /\ r.at = "picked" /\ r.of = e
    <3>1. IdleSender \in SenderType
      BY <1>0 DEF IdleSender, SenderType, Answer
    <3>2. [IdleSender EXCEPT !.at = "picked", !.of = e] \in SenderType
      BY <3>1 DEF SenderType
    <3> QED BY <3>1, <3>2 DEF SenderType
  <2>2. /\ senders[m].at = "idle" /\ leases' = leases /\ posts' = posts /\ accepted' = accepted
        /\ Onward(m, r, e)
    BY <1>2 DEF NextDueDelivery, Onward, ghosts
  <2> HIDE DEF r
  <2> QED BY <2>1, <2>2, <1>0, OnwardKeeps
<1>3. ASSUME senders[m].at # "idle", GoIdle(m), deliveries' = deliveries,
             hookActive' = hookActive, happened' = happened, accepted' = accepted,
             posts' = posts, lost' = lost,
             \/ senderStops' = senderStops /\ senders[m].at # "marking"
             \/ senderStops' = senderStops + 1 /\ senderStops < MaxSenderStops
      PROVE  WebhookInv'
  <2>1. /\ leases' = IF leases[d] = m THEN [leases EXCEPT ![d] = NoLease] ELSE leases
        /\ senders' = [senders EXCEPT ![m] = IdleSender]
    BY <1>3 DEF GoIdle, Released, Carries
  <2>2. deliveries' = [deliveries EXCEPT ![d] = deliveries[d]] /\ deliveries[d] \in DeliveryType
    BY <1>0, <1>1, <1>3
  <2>3. senderStops' \in 0 .. MaxSenderStops
    BY <1>0, <1>3
  <2>4. /\ d \in Delivery /\ senders[m].of = d /\ NoLease \in {NoLease, Orphan}
        /\ hookActive' = hookActive /\ happened' = happened /\ accepted' = accepted
        /\ posts' = posts /\ lost' = lost
    BY <1>1, <1>3
  <2> HIDE DEF d
  <2>5. CASE senderStops' = senderStops /\ senders[m].at # "marking"
    BY <2>1, <2>2, <2>3, <2>4, <2>5, LeavingKeeps
  <2>6. CASE senderStops' = senderStops + 1
    BY <2>1, <2>2, <2>3, <2>4, <2>6, LeavingKeeps
  <2> QED BY <2>5, <2>6, <1>3
<1>4. CASE TakeLease(m)
  <2>0. senders[m].at = "picked"
    BY <1>4 DEF TakeLease
  <2>1. CASE leases[d] # NoLease
    <3>1. GoIdle(m) /\ UNCHANGED <<hookActive, happened, deliveries, ghosts>>
      BY <1>4, <2>1 DEF TakeLease, Carries
    <3> QED BY <3>1, <2>0, <1>3 DEF ghosts
  <2>2. CASE leases[d] = NoLease
    <3> DEFINE r == [senders[m] EXCEPT !.at = "leased"]
    <3>1. r \in SenderType /\ r.at = "leased" /\ r.of = d
      BY <1>0 DEF SenderType
    <3>2. /\ leases' = [leases EXCEPT ![d] = m] /\ posts' = posts /\ accepted' = accepted
          /\ Onward(m, r, d)
      BY <1>0, <1>4, <2>2 DEF TakeLease, Onward, ghosts, Carries
    <3>3. /\ leases'[d] = m /\ \A e \in Delivery : e # d => leases'[e] = leases[e]
          /\ leases' \in [Delivery -> Sender \cup {NoLease, Orphan}]
      BY <3>2, <2>0, <1>0, <1>1
    <3> HIDE DEF r
    <3> QED BY <3>1, <3>2, <3>3, <2>0, <2>2, <1>0, <1>1, OnwardKeeps
  <2> QED BY <2>1, <2>2
<1>5. CASE LoadWorkerDelivery(m)
  <2>0. senders[m].at = "leased" /\ d \in Delivery
    BY <1>1, <1>5 DEF LoadWorkerDelivery
  <2>1. CASE ~(ActiveHook(d) /\ Due(d))
    <3>1. GoIdle(m) /\ UNCHANGED <<hookActive, happened, deliveries, ghosts>>
      BY <1>5, <2>1 DEF LoadWorkerDelivery, Carries
    <3> QED BY <3>1, <2>0, <1>3 DEF ghosts
  <2>2. CASE ActiveHook(d) /\ Due(d)
    <3> DEFINE r == [senders[m] EXCEPT !.at = "posting", !.attempts = deliveries[d].attempts]
    <3>1. deliveries[d].status = "retrying" /\ deliveries[d].attempts \in 0 .. MaxDeliveryAttempts - 1
      <4>1. deliveries[d].status = "retrying" /\ DeliveryRow(d) /\ deliveries[d] \in DeliveryType
        BY <2>0, <2>2, <1>0 DEF Due, WebhookInv
      <4>2. deliveries[d].attempts \in 0 .. MaxDeliveryAttempts
        BY <4>1 DEF DeliveryType
      <4>3. deliveries[d].attempts < MaxDeliveryAttempts
        BY <4>1 DEF DeliveryRow
      <4> HIDE DEF d
      <4> QED BY <4>1, <4>2, <4>3, <1>0
    <3>2. r \in SenderType /\ r.at = "posting" /\ r.of = d /\ r.attempts = deliveries[d].attempts
      <4> DEFINE n == deliveries[d].attempts
      <4> HIDE DEF n
      <4>1. [senders[m] EXCEPT !.at = "posting", !.attempts = n] \in SenderType
        BY <3>1, <1>0 DEF SenderType, n
      <4> QED BY <4>1, <1>0 DEF SenderType, n
    <3>3. /\ leases' = leases /\ posts' = posts /\ accepted' = accepted
          /\ Onward(m, r, d)
      BY <1>0, <1>5, <2>2 DEF LoadWorkerDelivery, Onward, ghosts, Carries
    <3> HIDE DEF r
    <3> QED BY <3>1, <3>2, <3>3, <2>0, <1>0, OnwardKeeps
  <2> QED BY <2>1, <2>2
<1>6. ASSUME NEW answer \in Answer, Post(m, answer) PROVE WebhookInv'
  <2> DEFINE r == [senders[m] EXCEPT !.at = "marking", !.answer = answer]
  <2>0. senders[m].at = "posting" /\ d \in Delivery
    BY <1>1, <1>6 DEF Post
  <2>1. /\ r \in SenderType /\ r.at = "marking" /\ r.of = d /\ r.answer = answer
        /\ r.attempts = senders[m].attempts
    BY <1>0 DEF SenderType
  <2>2. /\ leases' = leases /\ Onward(m, r, d)
        /\ posts' = [posts EXCEPT ![d] = IF answer = "permanent" THEN @ ELSE @ + 1]
        /\ accepted' = IF answer = "accepted" THEN accepted \cup {d} ELSE accepted
    BY <1>0, <1>6 DEF Post, Onward, Carries
  <2>3. /\ posts' \in [Delivery -> Nat] /\ posts'[d] <= posts[d] + 1
        /\ \A e \in Delivery : e # d => posts'[e] = posts[e]
    BY <2>0, <2>2, <1>0
  <2>4. /\ accepted' \subseteq Delivery /\ accepted \subseteq accepted'
        /\ answer = "accepted" => d \in accepted'
    BY <2>0, <2>2, <1>0
  <2>5. lost = 0 => deliveries[d].status = "retrying" /\ deliveries[d].attempts = senders[m].attempts
    BY <2>0, <1>0 DEF SenderRow
  <2> HIDE DEF r
  <2> QED BY <2>0, <2>1, <2>2, <2>3, <2>4, <2>5, <1>0, OnwardKeeps
<1>7. CASE MarkDelivery(m)
  <2> DEFINE n == senders[m].attempts + 1
             row == IF deliveries[d].status = "retrying" THEN MarkedRow(m) ELSE deliveries[d]
  <2>0. senders[m].at = "marking" /\ d \in Delivery
    BY <1>1, <1>7 DEF MarkDelivery
  <2>1. n \in 0 .. MaxDeliveryAttempts
    BY <1>0 DEF SenderType
  <2>2. /\ MarkedRow(m) \in DeliveryType /\ MarkedRow(m).attempts = n
        /\ MarkedRow(m).status # "none"
        /\ MarkedRow(m).status = "retrying" => n < MaxDeliveryAttempts
        /\ MarkedRow(m).status = "delivered" => senders[m].answer = "accepted"
    <3>1. MarkedRow(m) \in {[status |-> "delivered", attempts |-> n, due |-> FALSE],
                            [status |-> "failed", attempts |-> n, due |-> FALSE],
                            [status |-> "retrying", attempts |-> n, due |-> FALSE]}
      BY DEF MarkedRow
    <3>2. MarkedRow(m).status = "delivered" => senders[m].answer = "accepted"
      BY DEF MarkedRow
    <3>3. senders[m].answer \in {"accepted", "refused", "permanent"}
      BY <1>0 DEF SenderType, Answer
    <3>4. MarkedRow(m).status = "retrying" => ~(n >= MaxDeliveryAttempts)
      BY <3>3 DEF MarkedRow
    <3>5. MarkedRow(m).status = "retrying" => n < MaxDeliveryAttempts
      <4> HIDE DEF n, MarkedRow
      <4> QED BY <3>4, <2>1, <1>0
    <3> HIDE DEF n, MarkedRow
    <3>6. MarkedRow(m).attempts = n /\ MarkedRow(m).status \in {"delivered", "failed", "retrying"}
      BY <3>1
    <3>7. MarkedRow(m) \in DeliveryType
      <4>1. \A s \in {"delivered", "failed", "retrying"} :
              [status |-> s, attempts |-> n, due |-> FALSE] \in DeliveryType
        BY <2>1 DEF DeliveryType, DeliveryStatus
      <4> HIDE DEF DeliveryType
      <4> QED BY <3>1, <4>1
    <3> QED BY <3>2, <3>5, <3>6, <3>7
  <2>3. /\ deliveries' = [deliveries EXCEPT ![d] = row] /\ GoIdle(m)
        /\ UNCHANGED <<hookActive, happened, ghosts>>
    BY <1>0, <1>7 DEF MarkDelivery, Carries
  <2>4. /\ leases' = IF leases[d] = m THEN [leases EXCEPT ![d] = NoLease] ELSE leases
        /\ senders' = [senders EXCEPT ![m] = IdleSender]
    BY <2>3 DEF GoIdle, Released, Carries
  <2>5. senders[m].answer = "accepted" => d \in accepted
    BY <2>0, <1>0 DEF SenderRow
  <2>6. lost = 0 => deliveries[d].status = "retrying" /\ deliveries[d].attempts = senders[m].attempts
    BY <2>0, <1>0 DEF SenderRow
  <2>7. row \in DeliveryType
    BY <2>0, <2>2, <1>0
  <2>8. \/ row = deliveries[d]
        \/ /\ deliveries[d].status = "retrying"
           /\ row.status = "retrying" => row.attempts < MaxDeliveryAttempts
           /\ row.status # "none" /\ (row.status = "delivered" => d \in accepted)
    <3> HIDE DEF MarkedRow, n, d
    <3> QED BY <2>2, <2>5
  <2>9. lost = 0 => row.attempts = deliveries[d].attempts + 1
    <3> HIDE DEF MarkedRow, d
    <3> QED BY <2>2, <2>6
  <2> HIDE DEF row
  <2> QED BY <2>0, <2>3, <2>4, <2>7, <2>8, <2>9, <1>0, LeavingKeeps DEF ghosts
<1>8. CASE MarkFails(m)
  BY <1>3, <1>8 DEF MarkFails
<1>9. CASE SenderStops(m)
  <2>1. /\ senders[m].at \notin {"idle", "picked"} /\ senderStops' = senderStops + 1
        /\ senderStops < MaxSenderStops
        /\ leases' = IF leases[d] = m THEN [leases EXCEPT ![d] = Orphan] ELSE leases
        /\ senders' = [senders EXCEPT ![m] = IdleSender]
        /\ UNCHANGED <<hookActive, happened, deliveries, posts, accepted, lost>>
    BY <1>9 DEF SenderStops, Carries
  <2>2. deliveries' = [deliveries EXCEPT ![d] = deliveries[d]] /\ deliveries[d] \in DeliveryType
    BY <1>0, <1>1, <2>1
  <2>3. senderStops' \in 0 .. MaxSenderStops
    BY <1>0, <2>1
  <2> QED BY <2>1, <2>2, <2>3, <1>1, LeavingKeeps
<1> QED BY <1>2, <1>4, <1>5, <1>6, <1>7, <1>8, <1>9 DEF RunDeliveryOnce

LEMMA WebhookStep ==
    ASSUME WebhookAssumption, WebhookInv, [WebhookNext]_webhookVars
    PROVE  WebhookInv'
<1>1. ASSUME NEW d \in Delivery, \/ \E m \in Sender : QueueDelivery(m, d)
                                 \/ RetryDelivery(d) \/ DeliveryFallsDue(d)
      PROVE  WebhookInv'
  BY <1>1, RowMoves
<1>2. ASSUME NEW d \in Delivery, OrphanEnds(d) \/ LeaseLost(d) PROVE WebhookInv'
  BY <1>2, LeaseMoves
<1>3. ASSUME NEW m \in Sender, RunDeliveryOnce(m) \/ MarkFails(m) \/ SenderStops(m)
      PROVE  WebhookInv'
  BY <1>3, SenderStep
<1>4. ASSUME hookActive' \in [Hook -> BOOLEAN], happened' \subseteq Delivery,
             deliveries' = deliveries, leases' = leases, senders' = senders, posts' = posts,
             accepted' = accepted, lost' = lost, senderStops' = senderStops
      PROVE  WebhookInv'
  <2>1. WebhookTypeOK'
    BY <1>4 DEF WebhookInv, WebhookTypeOK
  <2>2. ASSUME NEW d \in Delivery
        PROVE  Under(d)' = Under(d) /\ Unleased(d)' = Unleased(d) /\ Marking(d)' = Marking(d)
    BY <1>4 DEF Under, Unleased, Marking, Carries
  <2> HIDE DEF Unleased, Marking
  <2>3. ASSUME NEW d \in Delivery PROVE LeaseRow(d)' /\ DeliveryRow(d)' /\ PostRow(d)'
    BY <1>4, <2>2 DEF WebhookInv, LeaseRow, DeliveryRow, PostRow
  <2>4. \A m \in Sender : SenderRow(m)'
    BY <1>4 DEF WebhookInv, SenderRow
  <2> QED BY <2>1, <2>3, <2>4 DEF WebhookInv
<1>5. ASSUME NEW d \in Delivery, LinkEvent(d) PROVE WebhookInv'
  <2>1. happened' \subseteq Delivery /\ UNCHANGED <<hookActive, deliveries, leases, senders, ghosts>>
    BY <1>5 DEF LinkEvent, WebhookInv, WebhookTypeOK
  <2> QED BY <2>1, <1>4 DEF ghosts, WebhookInv, WebhookTypeOK
<1>6. ASSUME NEW h \in Hook, NEW enabled \in BOOLEAN, SetEnabled(h, enabled) PROVE WebhookInv'
  <2>1. /\ hookActive' \in [Hook -> BOOLEAN]
        /\ UNCHANGED <<happened, deliveries, leases, senders, ghosts>>
    BY <1>6 DEF SetEnabled, WebhookInv, WebhookTypeOK
  <2> QED BY <2>1, <1>4 DEF ghosts, WebhookInv, WebhookTypeOK
<1>7. CASE UNCHANGED webhookVars
  BY <1>4, <1>7 DEF webhookVars, ghosts, WebhookInv, WebhookTypeOK
<1> QED BY <1>1, <1>2, <1>3, <1>5, <1>6, <1>7 DEF WebhookNext

\* What a step may do to a row that is over.
LEMMA OverRows ==
    ASSUME WebhookAssumption, WebhookInv, WebhookInv', [WebhookNext]_webhookVars, NEW d \in Delivery
    PROVE  /\ deliveries[d].status = "delivered" => deliveries'[d] = deliveries[d]
           /\ deliveries[d].status = "failed" => deliveries'[d] \in {deliveries[d], FreshDelivery}
           /\ deliveries'[d].status = "delivered" => d \in accepted
<1>0. /\ deliveries \in [Delivery -> DeliveryType] /\ \A m \in Sender : SenderRow(m)
      /\ DeliveryRow(d) /\ FreshDelivery.status = "retrying"
  BY DEF WebhookInv, WebhookTypeOK, DeliveryType, FreshDelivery
<1>1. ASSUME NEW e \in Delivery, \/ \E m \in Sender : QueueDelivery(m, e)
                                 \/ RetryDelivery(e)
      PROVE  /\ deliveries' = [deliveries EXCEPT ![e] = FreshDelivery]
             /\ deliveries[e].status \in {"none", "failed"}
  BY <1>1 DEF QueueDelivery, RetryDelivery, Unqueued
<1>2. CASE \E e \in Delivery : (\E m \in Sender : QueueDelivery(m, e)) \/ RetryDelivery(e)
  BY <1>0, <1>1, <1>2 DEF DeliveryRow
<1>3. ASSUME NEW e \in Delivery, DeliveryFallsDue(e)
      PROVE  /\ deliveries[d].status = "delivered" => deliveries'[d] = deliveries[d]
             /\ deliveries[d].status = "failed" => deliveries'[d] \in {deliveries[d], FreshDelivery}
             /\ deliveries'[d].status = "delivered" => d \in accepted
  <2>1. /\ deliveries' = [deliveries EXCEPT ![e] = [deliveries[e] EXCEPT !.due = TRUE]]
        /\ deliveries[e].status = "retrying"
    BY <1>0, <1>3 DEF DeliveryFallsDue
  <2>2. [deliveries[e] EXCEPT !.due = TRUE].status = "retrying"
    BY <1>0, <2>1 DEF DeliveryType
  <2> QED BY <1>0, <2>1, <2>2 DEF DeliveryRow
<1>4. ASSUME NEW m \in Sender, MarkDelivery(m)
      PROVE  /\ deliveries[d].status = "delivered" => deliveries'[d] = deliveries[d]
             /\ deliveries[d].status = "failed" => deliveries'[d] \in {deliveries[d], FreshDelivery}
             /\ deliveries'[d].status = "delivered" => d \in accepted
  <2>1. /\ senders[m].at = "marking"
        /\ deliveries' = IF deliveries[Carries(m)].status = "retrying"
                         THEN [deliveries EXCEPT ![Carries(m)] = MarkedRow(m)] ELSE deliveries
    BY <1>4 DEF MarkDelivery
  <2>2. MarkedRow(m).status = "delivered" => Carries(m) \in accepted
    <3>1. MarkedRow(m).status = "delivered" => senders[m].answer = "accepted"
      BY DEF MarkedRow
    <3>2. senders[m].answer = "accepted" => Carries(m) \in accepted
      BY <1>0, <2>1 DEF SenderRow, Carries
    <3> QED BY <3>1, <3>2
  <2> HIDE DEF MarkedRow
  <2> QED BY <1>0, <2>1, <2>2 DEF DeliveryRow
<1>5. CASE deliveries' = deliveries
  BY <1>0, <1>5 DEF DeliveryRow
<1>6. \/ \E e \in Delivery : (\E m \in Sender : QueueDelivery(m, e)) \/ RetryDelivery(e)
      \/ \E e \in Delivery : DeliveryFallsDue(e)
      \/ \E m \in Sender : MarkDelivery(m)
      \/ deliveries' = deliveries
  BY DEF WebhookNext, RunDeliveryOnce, LinkEvent, OrphanEnds, LeaseLost, SetEnabled, NextDueDelivery,
         TakeLease, LoadWorkerDelivery, Post, MarkFails, SenderStops, webhookVars
<1> QED BY <1>2, <1>3, <1>4, <1>5, <1>6

LEMMA WebhookHolds ==
    ASSUME WebhookAssumption, WebhookInv
    PROVE  WebhookTypeOK /\ OneMonitorPerLease /\ PostsAreCounted
<1>0. /\ lost \in Nat /\ senderStops \in Nat /\ WebhookTypeOK
      /\ \A d \in Delivery : deliveries[d].attempts \in Nat /\ posts[d] \in Nat
  BY WebhookNumbers DEF WebhookInv, WebhookTypeOK
<1>1. ASSUME NEW d \in Delivery
      PROVE  IsFiniteSet(Under(d)) /\ Cardinality(Under(d)) <= 1 + lost
  <2>1. IsFiniteSet(Unleased(d)) /\ Cardinality(Unleased(d)) <= lost
    BY DEF WebhookInv, LeaseRow
  <2>2. Under(d) \subseteq Unleased(d) \cup {leases[d]}
    BY DEF Unleased
  <2> DEFINE A == Unleased(d)
             B == Under(d)
             x == leases[d]
  <2>3. IsFiniteSet(B) /\ Cardinality(B) <= lost + 1
    <3>1. IsFiniteSet(A) /\ Cardinality(A) <= lost /\ B \subseteq A \cup {x}
      BY <2>1, <2>2
    <3> HIDE DEF A, B, x
    <3>2. lost + 1 \in Nat /\ \E y : B \subseteq A \cup {y}
      BY <3>1, <1>0
    <3> QED BY <3>1, <3>2, <1>0, FewMembers
  <2>4. Cardinality(B) \in Nat
    BY <2>3, FS_CardinalityType
  <2> QED BY <2>3, <2>4, <1>0
<1>2. ASSUME lost = 0, NEW d \in Delivery
      PROVE  posts[d] <= deliveries[d].attempts + Cardinality(Marking(d)) + senderStops
  <2>1. PostRow(d)
    BY DEF WebhookInv
  <2>2. IsFiniteSet(Marking(d))
    <3>1. Marking(d) \subseteq Under(d)
      BY DEF Marking
    <3> QED BY <3>1, <1>1, FS_Subset
  <2> DEFINE A == Marking(d)
             c == Cardinality(A)
  <2>3. c \in Nat /\ (A # {} => c >= 1)
    <3> HIDE DEF A
    <3>1. IsFiniteSet(A)
      BY <2>2 DEF A
    <3>2. Cardinality(A) \in Nat /\ (Cardinality(A) = 0 <=> A = {})
      BY <3>1, FS_CardinalityType, FS_EmptySet
    <3> QED BY <3>2
  <2> HIDE DEF c
  <2>4. posts[d] <= deliveries[d].attempts + senderStops + c
    <3>1. posts[d] <= deliveries[d].attempts + senderStops + (IF A = {} THEN 0 ELSE 1)
      BY <2>1, <1>2 DEF PostRow
    <3> HIDE DEF A
    <3> QED BY <3>1, <2>3, <1>0
  <2>5. posts[d] <= deliveries[d].attempts + c + senderStops
    BY <2>3, <2>4, <1>0
  <2> QED BY <2>5 DEF c
<1> QED BY <1>0, <1>1, <1>2 DEF OneMonitorPerLease, PostsAreCounted

(* Two monitors work on one delivery only after leases were lost, what is posted   *)
(* is bounded by the attempts and the losses, and a delivery that is over stays so. *)
THEOREM WebhooksAreSafe == WebhookSpec => WebhookSafety
<1>1. WebhookInit => WebhookInv
  BY WebhookAssumption, WebhookStarts
<1>2. WebhookInv /\ [WebhookNext]_webhookVars => WebhookInv'
  BY WebhookAssumption, WebhookStep
<1>3. WebhookInv => WebhookTypeOK /\ OneMonitorPerLease /\ PostsAreCounted
  BY WebhookAssumption, WebhookHolds
<1> DEFINE A == \A d \in Delivery :
          /\ deliveries[d].status = "delivered" => deliveries'[d] = deliveries[d]
          /\ deliveries[d].status = "failed" => deliveries'[d] \in {deliveries[d], FreshDelivery}
          /\ deliveries'[d].status = "delivered" => d \in accepted
<1>4. WebhookInv /\ WebhookInv' /\ [WebhookNext]_webhookVars => [A]_webhookVars
  <2> SUFFICES ASSUME WebhookInv, WebhookInv', [WebhookNext]_webhookVars PROVE A
    OBVIOUS
  <2> QED BY WebhookAssumption, OverRows
<1>5. WebhookSpec => [][A]_webhookVars
  BY <1>1, <1>2, <1>4, PTL DEF WebhookSpec
<1>6. WebhookSpec => DeliveryIsFinal
  BY <1>5 DEF DeliveryIsFinal
<1>7. WebhookSpec => [](WebhookTypeOK /\ OneMonitorPerLease /\ PostsAreCounted)
  BY <1>1, <1>2, <1>3, PTL DEF WebhookSpec
<1> QED BY <1>6, <1>7 DEF WebhookSafety

(* What the policy makes of an outcome is a state of the risk. *)
LEMMA JudgeType == \A o \in Outcome : Judge(o) \in RiskState
  BY DEF Judge, RiskState

-----------------------------------------------------------------------------
(* RiskScan.  What a step may make of the row of a scan.                       *)

ScanInv == ScanTypeOK /\ DecisionFollowsObservation /\ CompletedByDecision

GivenUp(s) ==
    scans[s].expired \/ \E w \in Monitor : /\ scans[s].owner = w /\ monitor[w].scan = s
                                           /\ monitor'[w] # monitor[w]

RowChange(s, r) ==
    /\ scans[s].status \notin Over /\ r \in ScanRow /\ r.status # "none"
    /\ scans[s].status = "none" \/ r.fp = scans[s].fp
    /\ r.status = "completed" => \E w \in Monitor : monitor[w].scan = s /\ FinalizeDestinationDecision(w)
    /\ scans[s].status = "leased" /\ r.status \in {"retry", "failed"} => GivenUp(s)

ScanRowStep ==
    \/ UNCHANGED scans
    \/ \E s \in Scan : \E r : scans' = [scans EXCEPT ![s] = r] /\ RowChange(s, r)

LEMMA ScanTypes ==
    ASSUME ScanTypeOK
    PROVE  /\ \A s \in Scan :
                 /\ scans[s] \in ScanRow /\ scans[s].fp \in Fingerprint
                 /\ scans[s].attempts \in 0 .. MaxAttempts /\ scans[s].owner \in Monitor \cup {Nobody}
                 /\ scans[s].expired \in BOOLEAN /\ scans[s].status \in ScanStatus
           /\ \A w \in Monitor :
                 /\ monitor[w] \in MonitorRecord /\ monitor[w].at \in MonitorStep
                 /\ monitor[w].at # "idle" => monitor[w].scan \in Scan
           /\ \A i \in DOMAIN verdicts :
                 verdicts[i] \in RiskDecision /\ verdicts[i].scan \in Scan /\ verdicts[i].outcome \in Outcome
  <1>1. \A s \in Scan : scans[s] \in ScanRow
    BY DEF ScanTypeOK
  <1>2. \A w \in Monitor : monitor[w] \in MonitorRecord /\ (monitor[w].at # "idle" => monitor[w].scan \in Scan)
    BY DEF ScanTypeOK
  <1>3. \A i \in DOMAIN verdicts : verdicts[i] \in RiskDecision
    <2>1. verdicts \in Seq(RiskDecision)
      BY DEF ScanTypeOK
    <2> QED BY <2>1
  <1>4. \A w \in Monitor : monitor[w].at \in MonitorStep
    BY <1>2 DEF MonitorRecord
  <1> QED BY <1>1, <1>2, <1>3, <1>4 DEF ScanRow, RiskDecision

LEMMA ScanRowSteps ==
    ASSUME ScanTypeOK, [ScanNext]_scanVars
    PROVE  ScanRowStep
  <1>0. scans \in [Scan -> ScanRow]
    BY DEF ScanTypeOK
  <1>1. ASSUME NEW s \in Scan, NEW fp \in Fingerprint, EnqueueDestinationScan(s, fp) PROVE ScanRowStep
    <2> DEFINE r == [status |-> "queued", fp |-> fp, attempts |-> 0, owner |-> Nobody, expired |-> FALSE]
    <2>1. r \in ScanRow /\ r.status = "queued"
      BY ScanAssumption DEF ScanRow, ScanStatus
    <2>2. scans' = [scans EXCEPT ![s] = r] /\ scans[s].status = "none"
      BY <1>1 DEF EnqueueDestinationScan
    <2> HIDE DEF r
    <2>3. RowChange(s, r)
      BY <2>1, <2>2 DEF RowChange, Over
    <2> QED BY <2>2, <2>3 DEF ScanRowStep
  <1>2. ASSUME NEW w \in Monitor, NEW s \in Scan, LeaseDestinationScan(w, s) PROVE ScanRowStep
    <2> DEFINE r == [scans[s] EXCEPT !.status = "leased", !.owner = w,
                                     !.attempts = scans[s].attempts + 1, !.expired = FALSE]
    <2>1. scans' = [scans EXCEPT ![s] = r]
      BY <1>2 DEF LeaseDestinationScan
    <2>2. scans[s].attempts + 1 \in 0 .. MaxAttempts /\ scans[s].status \notin Over
      BY <1>2, ScanAssumption, ScanTypes DEF LeaseDestinationScan, Leasable, Lapsed, Over
    <2>3. r \in ScanRow /\ r.status = "leased" /\ r.fp = scans[s].fp
      BY <2>2, ScanTypes DEF ScanRow, ScanStatus
    <2> HIDE DEF r
    <2>4. RowChange(s, r)
      BY <2>2, <2>3 DEF RowChange
    <2> QED BY <2>1, <2>4 DEF ScanRowStep
  <1>3. ASSUME NEW s \in Scan, scans[s].status = "leased", NEW st \in {"failed", "retry"}, GivenUp(s),
               scans' = [scans EXCEPT ![s] = [scans[s] EXCEPT !.status = st, !.owner = Nobody, !.expired = FALSE]]
        PROVE  ScanRowStep
    <2> DEFINE r == [scans[s] EXCEPT !.status = st, !.owner = Nobody, !.expired = FALSE]
    <2>1. r \in ScanRow /\ r.status = st /\ r.fp = scans[s].fp
      BY ScanTypes DEF ScanRow, ScanStatus
    <2>2. scans' = [scans EXCEPT ![s] = r]
      BY <1>3
    <2> HIDE DEF r
    <2>3. RowChange(s, r)
      BY <1>3, <2>1 DEF RowChange, Over
    <2> QED BY <2>2, <2>3 DEF ScanRowStep
  <1>4. ASSUME NEW w \in Monitor, NEW s \in Scan, ExhaustLease(w, s) PROVE ScanRowStep
    BY <1>3, <1>4 DEF ExhaustLease, Lapsed, GivenUp
  <1>5. ASSUME NEW w \in Monitor, GiveUp(w) PROVE ScanRowStep
    <2> DEFINE s == monitor[w].scan
    <2>1. CASE scans[s].status = "leased" /\ scans[s].owner = w
      <3>1. s \in Scan /\ monitor'[w] # monitor[w]
        BY <1>5, ScanTypes DEF GiveUp, Stop, IdleMonitor, ScanTypeOK
      <3>2. GivenUp(s)
        BY <2>1, <3>1 DEF GivenUp
      <3>3. \E st \in {"failed", "retry"} :
              scans' = [scans EXCEPT ![s] = [scans[s] EXCEPT !.status = st, !.owner = Nobody, !.expired = FALSE]]
        BY <1>5, <2>1 DEF GiveUp, ReleaseDestinationScanForRetry
      <3> HIDE DEF s
      <3> QED BY <1>3, <2>1, <3>1, <3>2, <3>3
    <2>2. CASE ~(scans[s].status = "leased" /\ scans[s].owner = w)
      BY <1>5, <2>2 DEF GiveUp, ReleaseDestinationScanForRetry, ScanRowStep
    <2> QED BY <2>1, <2>2
  <1>6. ASSUME NEW w \in Monitor, FinalizeDestinationDecision(w) PROVE ScanRowStep
    <2> DEFINE s == monitor[w].scan
               r == [scans[s] EXCEPT !.status = "completed", !.owner = Nobody, !.expired = FALSE]
    <2>1. s \in Scan
      BY <1>6, ScanTypes DEF FinalizeDestinationDecision
    <2>2. UNCHANGED scans \/ (scans' = [scans EXCEPT ![s] = r] /\ scans[s].status \notin Over)
      BY <1>0, <1>6, <2>1 DEF FinalizeDestinationDecision
    <2>3. r \in ScanRow /\ r.status = "completed" /\ r.fp = scans[s].fp
      BY <2>1, ScanTypes DEF ScanRow, ScanStatus
    <2>4. scans[s].status \notin Over => RowChange(s, r)
      <3> HIDE DEF r
      <3> QED BY <1>6, <2>3 DEF RowChange
    <2> HIDE DEF r, s
    <2> QED BY <2>1, <2>2, <2>4 DEF ScanRowStep
  <1>7. ASSUME NEW s \in Scan, LeaseEnds(s) PROVE ScanRowStep
    <2> DEFINE r == [scans[s] EXCEPT !.expired = TRUE]
    <2>1. scans' = [scans EXCEPT ![s] = r] /\ scans[s].status = "leased"
      BY <1>7 DEF LeaseEnds
    <2>2. r \in ScanRow /\ r.status = "leased" /\ r.fp = scans[s].fp
      BY <2>1, ScanTypes DEF ScanRow
    <2> HIDE DEF r
    <2>3. RowChange(s, r)
      BY <2>1, <2>2 DEF RowChange, Over
    <2> QED BY <2>1, <2>3 DEF ScanRowStep
  <1>8. \/ UNCHANGED scans
        \/ \E s \in Scan, fp \in Fingerprint : EnqueueDestinationScan(s, fp)
        \/ \E w \in Monitor, s \in Scan : LeaseDestinationScan(w, s) \/ ExhaustLease(w, s)
        \/ \E w \in Monitor : GiveUp(w) \/ FinalizeDestinationDecision(w)
        \/ \E s \in Scan : LeaseEnds(s)
    BY DEF ScanNext, scanVars, RunOnce, FindObservation, RecordProviderObservation, CrashMonitor
  <1>9. CASE UNCHANGED scans
    BY <1>9 DEF ScanRowStep
  <1> QED BY <1>1, <1>2, <1>4, <1>5, <1>6, <1>7, <1>8, <1>9

(* What a step does to the verdicts: nothing, or it adds the first of a scan. *)
Verdict(s) == [scan |-> s, fp |-> scans[s].fp, outcome |-> observed[s], state |-> Judge(observed[s])]

VerdictStep ==
    \/ UNCHANGED verdicts
    \/ \E s \in Scan :
         /\ ~HasVerdict(s) /\ observed[s] \in Outcome /\ UNCHANGED observed
         /\ verdicts' = Append(verdicts, Verdict(s)) /\ Verdict(s) \in RiskDecision
         /\ scans'[s].status \in Over /\ scans'[s].fp = scans[s].fp

DecidedNow(s) == \E i \in DOMAIN verdicts' : verdicts'[i].scan = s

LEMMA FinalizeStep ==
    ASSUME ScanInv, NEW w \in Monitor, FinalizeDestinationDecision(w)
    PROVE  VerdictStep /\ DecidedNow(monitor[w].scan)
  <1> DEFINE s == monitor[w].scan
  <1>1. s \in Scan /\ observed[s] \in Outcome /\ UNCHANGED observed
        /\ scans \in [Scan -> ScanRow] /\ scans[s] \in ScanRow /\ verdicts \in Seq(RiskDecision)
    BY ScanTypes DEF FinalizeDestinationDecision, ScanInv, ScanTypeOK
  <1>2. CASE HasVerdict(s)
    <2>1. UNCHANGED verdicts
      BY <1>2 DEF FinalizeDestinationDecision
    <2>2. DecidedNow(s)
      BY <1>2, <2>1 DEF HasVerdict, Log!Decided, DecidedNow
    <2> QED BY <2>1, <2>2 DEF VerdictStep
  <1>3. CASE ~HasVerdict(s)
    <2>1. verdicts' = Append(verdicts, Verdict(s))
      BY <1>3 DEF FinalizeDestinationDecision, Log!AppendDecision, Verdict, Log!Judge, Judge
    <2>2. Verdict(s) \in RiskDecision /\ Verdict(s).scan = s
      BY <1>1, JudgeType DEF Verdict, RiskDecision, ScanRow
    <2>3. scans'[s].status \in Over /\ scans'[s].fp = scans[s].fp
      <3>1. \/ scans' = scans /\ scans[s].status \in Over
            \/ scans' = [scans EXCEPT ![s] = [scans[s] EXCEPT !.status = "completed", !.owner = Nobody,
                                                               !.expired = FALSE]]
        BY <1>1, <1>3 DEF FinalizeDestinationDecision
      <3> DEFINE r == [scans[s] EXCEPT !.status = "completed", !.owner = Nobody, !.expired = FALSE]
      <3>3. r.status = "completed" /\ r.fp = scans[s].fp
        BY <1>1 DEF ScanRow
      <3>4. (scans' = scans /\ scans[s].status \in Over) \/ scans'[s] = r
        BY <1>1, <3>1
      <3> HIDE DEF r
      <3> QED BY <3>3, <3>4 DEF Over
    <2>4. DecidedNow(s)
      BY <1>1, <2>1, <2>2 DEF DecidedNow
    <2> QED BY <1>1, <1>3, <2>1, <2>2, <2>3, <2>4 DEF VerdictStep
  <1> QED BY <1>2, <1>3

LEMMA VerdictSteps ==
    ASSUME ScanInv, [ScanNext]_scanVars
    PROVE  VerdictStep
  <1>1. UNCHANGED verdicts \/ \E w \in Monitor : FinalizeDestinationDecision(w)
    BY DEF ScanNext, scanVars, RunOnce, EnqueueDestinationScan, LeaseDestinationScan, ExhaustLease,
           FindObservation, RecordProviderObservation, GiveUp, CrashMonitor, LeaseEnds
  <1> QED BY <1>1, FinalizeStep DEF VerdictStep

(* The observation that is kept, and what the monitors know. *)
LEMMA ObservedSteps ==
    ASSUME ScanTypeOK, [ScanNext]_scanVars
    PROVE  /\ observed' \in [Scan -> Outcome \cup {NoOutcome}]
           /\ monitor' \in [Monitor -> MonitorRecord]
           /\ \A w \in Monitor : monitor'[w].at # "idle" => monitor'[w].scan \in Scan
           /\ \A w \in Monitor : monitor'[w].at = "deciding" => observed'[monitor'[w].scan] \in Outcome
           /\ \A s \in Scan : observed[s] \in Outcome => observed'[s] = observed[s]
  <1> DEFINE Known(q, obs) == /\ q \in MonitorRecord
                              /\ q.at # "idle" => q.scan \in Scan
                              /\ q.at = "deciding" => obs[q.scan] \in Outcome
             Goal == /\ observed' \in [Scan -> Outcome \cup {NoOutcome}]
                     /\ monitor' \in [Monitor -> MonitorRecord]
                     /\ \A w \in Monitor : Known(monitor'[w], observed')
                     /\ \A s \in Scan : observed[s] \in Outcome => observed'[s] = observed[s]
  <1>1. /\ observed \in [Scan -> Outcome \cup {NoOutcome}] /\ monitor \in [Monitor -> MonitorRecord]
        /\ \A w \in Monitor : Known(monitor[w], observed)
    BY DEF ScanTypeOK
  <1>2. IdleMonitor \in MonitorRecord /\ IdleMonitor.at = "idle"
    BY DEF IdleMonitor, MonitorRecord, MonitorStep
  <1>3. ASSUME NEW w \in Monitor, NEW q, monitor' = [monitor EXCEPT ![w] = q], Known(q, observed),
               UNCHANGED observed
        PROVE  Goal
    <2>1. q \in MonitorRecord
      BY <1>3
    <2> HIDE DEF Known
    <2>2. \A x \in Monitor : Known(monitor'[x], observed)
      BY <1>1, <1>3
    <2> QED BY <1>1, <1>3, <2>1, <2>2
  <1>4. ASSUME NEW w \in Monitor, Stop(w), UNCHANGED observed PROVE Goal
    <2>1. Known(IdleMonitor, observed)
      BY <1>2
    <2> QED BY <1>3, <1>4, <2>1 DEF Stop
  <1>5. ASSUME NEW w \in Monitor, NEW s \in Scan, LeaseDestinationScan(w, s) PROVE Goal
    <2> DEFINE q == [at |-> "leased", scan |-> s]
    <2>1. q \in MonitorRecord /\ q.at = "leased" /\ q.scan = s
      BY DEF MonitorRecord, MonitorStep
    <2>2. monitor' = [monitor EXCEPT ![w] = q] /\ UNCHANGED observed
      BY <1>5 DEF LeaseDestinationScan
    <2> HIDE DEF q
    <2>3. Known(q, observed)
      BY <2>1
    <2> HIDE DEF Known, Goal
    <2> QED BY <1>3, <2>2, <2>3
  <1>6. ASSUME NEW w \in Monitor, FindObservation(w) PROVE Goal
    <2> DEFINE at == IF observed[monitor[w].scan] = NoOutcome THEN "asking" ELSE "deciding"
               q == [monitor[w] EXCEPT !.at = at]
    <2>1. monitor[w].scan \in Scan /\ monitor[w].at = "leased" /\ UNCHANGED observed
          /\ monitor' = [monitor EXCEPT ![w] = q]
      BY <1>1, <1>6 DEF FindObservation, Step
    <2>2. q \in MonitorRecord /\ q.at = at /\ q.scan = monitor[w].scan
      BY <1>1 DEF MonitorRecord, MonitorStep
    <2>3. at = "deciding" => observed[monitor[w].scan] \in Outcome
      BY <1>1, <2>1
    <2> HIDE DEF q, at
    <2>4. Known(q, observed)
      BY <2>1, <2>2, <2>3
    <2> HIDE DEF Known, Goal
    <2> QED BY <1>3, <2>1, <2>4
  <1>7. ASSUME NEW w \in Monitor, NEW o \in Outcome, RecordProviderObservation(w, o) PROVE Goal
    <2> DEFINE s == monitor[w].scan
               q == [monitor[w] EXCEPT !.at = "deciding"]
    <2>1. s \in Scan /\ observed[s] \in {NoOutcome, o} /\ observed' = [observed EXCEPT ![s] = o]
          /\ monitor' = [monitor EXCEPT ![w] = q]
      BY <1>1, <1>7 DEF RecordProviderObservation, Step
    <2>2. q \in MonitorRecord /\ q.at = "deciding" /\ q.scan = s
      BY <1>1 DEF MonitorRecord, MonitorStep
    <2> HIDE DEF q, s
    <2>3. \A x \in Scan : observed[x] \in Outcome => observed'[x] = observed[x]
      BY <1>1, <2>1, ScanAssumption
    <2>4. observed' \in [Scan -> Outcome \cup {NoOutcome}] /\ observed'[s] = o
      BY <1>1, <2>1
    <2>5. \A x \in Monitor : Known(monitor[x], observed')
      BY <1>1, <2>3
    <2>6. Known(q, observed')
      BY <2>1, <2>2, <2>4
    <2> HIDE DEF Known
    <2>7. \A x \in Monitor : Known(monitor'[x], observed')
      BY <1>1, <2>1, <2>5, <2>6
    <2> QED BY <1>1, <2>1, <2>2, <2>3, <2>4, <2>7
  <1>8. ASSUME UNCHANGED <<observed, monitor>> PROVE Goal
    <2> HIDE DEF Known
    <2> QED BY <1>1, <1>8
  <1>9. \/ UNCHANGED <<observed, monitor>>
        \/ \E w \in Monitor, s \in Scan : LeaseDestinationScan(w, s)
        \/ \E w \in Monitor : FindObservation(w)
        \/ \E w \in Monitor, o \in Outcome : RecordProviderObservation(w, o)
        \/ \E w \in Monitor : Stop(w) /\ UNCHANGED observed
    BY DEF ScanNext, scanVars, RunOnce, EnqueueDestinationScan, ExhaustLease,
           FinalizeDestinationDecision, GiveUp, CrashMonitor, LeaseEnds
  <1>10. Goal
    <2> HIDE DEF Goal
    <2> QED BY <1>4, <1>5, <1>6, <1>7, <1>8, <1>9 DEF Goal
  <1> QED BY <1>10

-----------------------------------------------------------------------------
(* The scan queue as a whole.                                                  *)

(* A row that has a verdict stays; the others change as RowChange says. *)
LEMMA RowAfter ==
    ASSUME ScanInv, [ScanNext]_scanVars, NEW s \in Scan
    PROVE  scans'[s] = scans[s] \/ RowChange(s, scans'[s])
  <1>1. scans \in [Scan -> ScanRow] /\ ScanRowStep
    BY ScanRowSteps DEF ScanInv, ScanTypeOK
  <1>2. ASSUME NEW x \in Scan, NEW r, scans' = [scans EXCEPT ![x] = r], RowChange(x, r)
        PROVE  scans'[s] = scans[s] \/ RowChange(s, scans'[s])
    BY <1>1, <1>2
  <1> QED BY <1>1, <1>2 DEF ScanRowStep

LEMMA ScanTypeStep ==
    ASSUME ScanInv, [ScanNext]_scanVars
    PROVE  ScanTypeOK'
  <1>1. ScanTypeOK /\ verdicts \in Seq(RiskDecision)
    BY DEF ScanInv, ScanTypeOK
  <1>2. verdicts' \in Seq(RiskDecision)
    <2>1. ASSUME NEW d \in RiskDecision, verdicts' = Append(verdicts, d) PROVE verdicts' \in Seq(RiskDecision)
      BY <1>1, <2>1
    <2> QED BY <1>1, <2>1, VerdictSteps DEF VerdictStep
  <1>3. scans' \in [Scan -> ScanRow]
    <2>1. scans \in [Scan -> ScanRow]
      BY <1>1 DEF ScanTypeOK
    <2>2. ASSUME NEW x \in Scan, NEW r, scans' = [scans EXCEPT ![x] = r], RowChange(x, r)
          PROVE  scans' \in [Scan -> ScanRow]
      <3>1. r \in ScanRow
        BY <2>2 DEF RowChange
      <3> QED BY <2>1, <2>2, <3>1
    <2> QED BY <1>1, <2>1, <2>2, ScanRowSteps DEF ScanRowStep
  <1> QED BY <1>1, <1>2, <1>3, ObservedSteps DEF ScanTypeOK

LEMMA DecisionFollowsStep ==
    ASSUME ScanInv, [ScanNext]_scanVars
    PROVE  DecisionFollowsObservation'
  <1>1. ASSUME NEW i \in DOMAIN verdicts
        PROVE  verdicts[i].outcome = observed'[verdicts[i].scan] /\ verdicts[i].fp = scans'[verdicts[i].scan].fp
    <2> DEFINE d == verdicts[i]  s == d.scan
    <2>1. s \in Scan /\ d.outcome \in Outcome /\ d.outcome = observed[s] /\ d.fp = scans[s].fp
      BY ScanTypes DEF ScanInv, DecisionFollowsObservation
    <2>2. observed'[s] = observed[s]
      BY <2>1, ObservedSteps DEF ScanInv
    <2>3. HasVerdict(s)
      BY DEF HasVerdict, Log!Decided
    <2>4. scans[s].status \in Over
      BY <2>1, <2>3 DEF ScanInv, CompletedByDecision
    <2>5. scans'[s] = scans[s]
      BY <2>1, <2>4, RowAfter DEF RowChange
    <2> QED BY <2>1, <2>2, <2>5
  <1>2. CASE UNCHANGED verdicts
    BY <1>1, <1>2 DEF DecisionFollowsObservation
  <1>3. ASSUME NEW s \in Scan, verdicts' = Append(verdicts, Verdict(s)), Verdict(s) \in RiskDecision,
               UNCHANGED observed, scans'[s].fp = scans[s].fp
        PROVE  DecisionFollowsObservation'
    <2> DEFINE v == Verdict(s)
    <2>1. v.scan = s /\ v.outcome = observed'[s] /\ v.fp = scans'[s].fp
      BY <1>3 DEF Verdict
    <2>2. verdicts \in Seq(RiskDecision) /\ v \in RiskDecision
      BY <1>3 DEF ScanInv, ScanTypeOK
    <2> HIDE DEF v
    <2>3. \A i \in DOMAIN verdicts' : verdicts'[i] = v \/ (i \in DOMAIN verdicts /\ verdicts'[i] = verdicts[i])
      BY <1>3, <2>2 DEF v
    <2>4. ASSUME NEW i \in DOMAIN verdicts'
          PROVE  /\ verdicts'[i].outcome = observed'[verdicts'[i].scan]
                 /\ verdicts'[i].fp = scans'[verdicts'[i].scan].fp
      BY <1>1, <2>1, <2>3
    <2> QED BY <2>4 DEF DecisionFollowsObservation
  <1> QED BY <1>2, <1>3, VerdictSteps DEF VerdictStep

LEMMA CompletedStep ==
    ASSUME ScanInv, [ScanNext]_scanVars
    PROVE  CompletedByDecision'
  <1>1. ASSUME NEW s \in Scan PROVE HasVerdict(s)' <=> DecidedNow(s)
    BY DEF HasVerdict, Log!Decided, DecidedNow
  <1>2. verdicts \in Seq(RiskDecision)
    BY DEF ScanInv, ScanTypeOK
  <1>3. ASSUME NEW s \in Scan, HasVerdict(s) PROVE DecidedNow(s) /\ scans'[s].status \in Over
    <2>1. scans'[s] = scans[s] /\ scans[s].status \in Over
      BY <1>3, RowAfter DEF ScanInv, CompletedByDecision, RowChange
    <2>2. PICK i \in DOMAIN verdicts : verdicts[i].scan = s
      BY <1>3 DEF HasVerdict, Log!Decided
    <2>3. i \in DOMAIN verdicts' /\ verdicts'[i] = verdicts[i]
      BY <1>2, VerdictSteps DEF VerdictStep
    <2> QED BY <2>1, <2>2, <2>3 DEF DecidedNow
  <1>4. ASSUME NEW s \in Scan, scans'[s].status = "completed" PROVE DecidedNow(s)
    <2>1. CASE scans'[s] = scans[s]
      <3>1. HasVerdict(s)
        BY <1>4, <2>1 DEF ScanInv, CompletedByDecision
      <3> QED BY <1>3, <3>1
    <2>2. CASE RowChange(s, scans'[s])
      BY <1>4, <2>2, FinalizeStep DEF RowChange
    <2> QED BY <2>1, <2>2, RowAfter
  <1>5. ASSUME NEW s \in Scan, DecidedNow(s) PROVE scans'[s].status \in Over
    <2>1. CASE UNCHANGED verdicts
      BY <1>3, <1>5, <2>1 DEF DecidedNow, HasVerdict, Log!Decided
    <2>2. ASSUME NEW x \in Scan, verdicts' = Append(verdicts, Verdict(x)), Verdict(x) \in RiskDecision,
                 scans'[x].status \in Over
          PROVE  scans'[s].status \in Over
      <3>1. Verdict(x).scan = x
        BY DEF Verdict
      <3>2. s = x \/ HasVerdict(s)
        BY <1>2, <1>5, <2>2, <3>1 DEF DecidedNow, HasVerdict, Log!Decided
      <3> QED BY <1>3, <2>2, <3>2
    <2> QED BY <2>1, <2>2, VerdictSteps DEF VerdictStep
  <1> QED BY <1>1, <1>4, <1>5 DEF CompletedByDecision

LEMMA ScanInvStep ==
    ASSUME ScanInv, [ScanNext]_scanVars
    PROVE  ScanInv'
  BY ScanTypeStep, DecisionFollowsStep, CompletedStep DEF ScanInv

LEMMA ScanInvInit == ScanInit => ScanInv
  <1> SUFFICES ASSUME ScanInit PROVE ScanInv
    OBVIOUS
  <1>1. NoRow \in ScanRow /\ NoRow.status = "none"
    BY PolicyAssumption, ScanAssumption DEF NoRow, ScanRow, ScanStatus
  <1>2. IdleMonitor \in MonitorRecord /\ IdleMonitor.at = "idle"
    BY DEF IdleMonitor, MonitorRecord, MonitorStep
  <1>3. ScanTypeOK
    BY <1>1, <1>2 DEF ScanInit, ScanTypeOK
  <1>4. DecisionFollowsObservation /\ CompletedByDecision
    BY <1>1 DEF ScanInit, DecisionFollowsObservation, CompletedByDecision, HasVerdict, Log!Decided
  <1> QED BY <1>3, <1>4 DEF ScanInv

(* A verdict is a step of the abstract log of decisions. *)
LEMMA ScanRefines ==
    ASSUME ScanInv, [ScanNext]_scanVars
    PROVE  [Log!DecisionNext]_verdicts
  <1>1. ASSUME NEW s \in Scan, ~HasVerdict(s), observed[s] \in Outcome, verdicts' = Append(verdicts, Verdict(s))
        PROVE  Log!DecisionNext
    <2>1. scans[s].fp \in Fingerprint
      BY ScanTypes DEF ScanInv
    <2>2. Log!Decide(s, scans[s].fp, observed[s])
      BY <1>1 DEF Log!Decide, Log!AppendDecision, HasVerdict, Verdict, Log!Judge, Judge
    <2> QED BY <1>1, <2>1, <2>2 DEF Log!DecisionNext
  <1> QED BY <1>1, VerdictSteps DEF VerdictStep

(* What is over stays, and a lease is ended by its owner or after its time. *)
LEMMA OverStep ==
    ASSUME ScanInv, [ScanNext]_scanVars, NEW s \in Scan
    PROVE  /\ scans[s].status \in Over => scans'[s] = scans[s]
           /\ scans[s].status = "leased" /\ scans'[s].status \in {"retry", "failed"} => GivenUp(s)
  BY RowAfter DEF RowChange

(* Leases that end, monitors that die and answers that come late leave one decision *)
(* of a scan, the policy's on the observation that is kept; nobody touches what is  *)
(* over; and the queue implements the log of decisions.                             *)
THEOREM ScanIsSafe == ScanSpec => ScanSafety
  <1>1. ScanInit => Log!DecisionInit
    BY DEF ScanInit, Log!DecisionInit
  <1>2. ScanInv /\ [ScanNext]_scanVars => [Log!DecisionNext]_verdicts
    BY ScanRefines
  <1>3. ScanInv /\ [ScanNext]_scanVars
          => [\A s \in Scan :
                /\ scans[s].status \in Over => scans'[s] = scans[s]
                /\ scans[s].status = "leased" /\ scans'[s].status \in {"retry", "failed"}
                     => \/ scans[s].expired
                        \/ \E w \in Monitor : /\ scans[s].owner = w /\ monitor[w].scan = s
                                              /\ monitor'[w] # monitor[w]]_scanVars
    BY OverStep DEF GivenUp
  <1>4. ScanInv => ScanTypeOK /\ DecisionFollowsObservation /\ CompletedByDecision
    BY DEF ScanInv
  <1> QED BY <1>1, <1>2, <1>3, <1>4, ScanInvInit, ScanInvStep, PTL
          DEF ScanSpec, ScanSafety, VerdictsAreDecisions, OverStaysOver, Log!DecisionSpec
==============================================================================
