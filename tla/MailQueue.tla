----------------------------- MODULE MailQueue -----------------------------
(***************************************************************************)
(* The durable mail queue of internal/support: jobs and attempts in MySQL, *)
(* the mailworker processes that claim a job, hand it to the SMTP server   *)
(* and record the result, and the administrator's pause.  A worker runs    *)
(* one action per database call and may stop between any two; nothing ever *)
(* takes a claimed job back.                                               *)
(***************************************************************************)
EXTENDS Naturals, FiniteSets

CONSTANTS
    MailJob,            \* jobs as numbers: the order of created_at
    AuthJob,            \* those that carry an auth_one_time_grant
    MailWorker,         \* mailworker processes
    MaxMailAttempts,    \* DefaultMailMaxAttempts
    MaxMailSettings,    \* bound: how often the administrator pauses or resumes
    MaxMailStops,       \* bound: workers that stop, completions that fail
    NoJob

ASSUME MailAssumption ==
    /\ MailJob \subseteq Nat /\ AuthJob \subseteq MailJob /\ NoJob \notin MailJob
    /\ MaxMailAttempts \in Nat \ {0} /\ MaxMailSettings \in Nat /\ MaxMailStops \in Nat

MailStatus == {"none", "queued", "sending", "retrying", "sent", "failed"}
MailOver == {"sent", "failed"}
MailResult == {"sent", "transient", "terminal"}
AttemptNumber == 1 .. MaxMailAttempts

VARIABLES
    mailJobs,       \* mail_jobs: status, attempt_count, and whether next_attempt_at has come
    mailAttempts,   \* mail_attempts: the status of each attempt of a job
    mailWorkers,    \* what each worker is doing
    mailSettings,   \* mail_settings: enabled and version
    handed,         \* how often the SMTP server accepted a job's message
    mailStops       \* how many workers stopped, or failed to record, with a job in hand

mailVars == <<mailJobs, mailAttempts, mailWorkers, mailSettings, handed, mailStops>>

IdleMailWorker == [at |-> "idle", job |-> NoJob, result |-> "terminal"]

-----------------------------------------------------------------------------
\* Bug: the same request enqueues again.
BugEnqueueAgain(j) ==
    /\ mailJobs' = [mailJobs EXCEPT ![j] = [status |-> "queued", attempts |-> 0, due |-> TRUE]]
    /\ UNCHANGED <<mailAttempts, mailWorkers, mailSettings, handed, mailStops>>

\* A second request with the same logical key changes nothing.
EnqueueMailTx(j) ==
    /\ mailJobs[j].status = "none"
    /\ mailJobs' = [mailJobs EXCEPT ![j] = [status |-> "queued", attempts |-> 0, due |-> TRUE]]
    /\ UNCHANGED <<mailAttempts, mailWorkers, mailSettings, handed, mailStops>>

UpdateAdminMailSettings(enabled) ==
    /\ mailSettings.version < MaxMailSettings
    /\ mailSettings' = [enabled |-> enabled, version |-> mailSettings.version + 1]
    /\ UNCHANGED <<mailJobs, mailAttempts, mailWorkers, handed, mailStops>>

\* next_attempt_at comes.
RetryFallsDue(j) ==
    /\ mailJobs[j].status = "retrying" /\ ~mailJobs[j].due
    /\ mailJobs' = [mailJobs EXCEPT ![j].due = TRUE]
    /\ UNCHANGED <<mailAttempts, mailWorkers, mailSettings, handed, mailStops>>

MailDispatchEnabled(w) ==
    /\ mailWorkers[w].at = "idle"
    /\ mailSettings.enabled
    /\ mailWorkers' = [mailWorkers EXCEPT ![w].at = "open"]
    /\ UNCHANGED <<mailJobs, mailAttempts, mailSettings, handed, mailStops>>

\* Bug: a job waiting for its retry is not looked for.
BugRetriesForgotten(j) == mailJobs[j].status = "queued"

\* The rows the claim looks at, oldest first.
Waiting(j) ==
    \/ mailJobs[j].status = "queued"
    \/ mailJobs[j].status = "retrying" /\ mailJobs[j].due

\* The oldest waiting job, and the refusals of ClaimMailJob.
ClaimNext(w, j) ==
    /\ mailWorkers[w].at = "open"
    /\ Waiting(j) /\ \A k \in MailJob : Waiting(k) => j <= k
    /\ mailJobs[j].attempts < MaxMailAttempts
    /\ mailJobs' = [mailJobs EXCEPT ![j] = [status |-> "sending", due |-> FALSE,
                                            attempts |-> @.attempts + 1]]
    /\ mailAttempts' = [mailAttempts EXCEPT ![j][mailJobs[j].attempts + 1] = "sending"]
    /\ mailWorkers' = [mailWorkers EXCEPT ![w] = [at |-> "claimed", job |-> j,
                                                  result |-> "terminal"]]
    /\ UNCHANGED <<mailSettings, handed, mailStops>>

ClaimRefused(w) ==
    /\ mailWorkers[w].at = "open"
    /\ \A j \in MailJob :
           Waiting(j) /\ (\A k \in MailJob : Waiting(k) => j <= k)
               => mailJobs[j].attempts >= MaxMailAttempts
    /\ mailWorkers' = [mailWorkers EXCEPT ![w] = IdleMailWorker]
    /\ UNCHANGED <<mailJobs, mailAttempts, mailSettings, handed, mailStops>>

\* resolveMailValues knows no auth_one_time_grant; any job's template may be
\* disabled or the database fail, which ends the attempt as payload_invalid.
LoadDelivery(w, loaded) ==
    /\ mailWorkers[w].at = "claimed"
    /\ loaded => mailWorkers[w].job \notin AuthJob
    /\ mailWorkers' = [mailWorkers EXCEPT ![w].at = IF loaded THEN "sending" ELSE "recording"]
    /\ UNCHANGED <<mailJobs, mailAttempts, mailSettings, handed, mailStops>>

\* The server may have accepted a message whose sending then ends in an error.
Send(w, result, accepted) ==
    /\ mailWorkers[w].at = "sending"
    /\ result = "sent" => accepted
    /\ handed' = [handed EXCEPT ![mailWorkers[w].job] = @ + IF accepted THEN 1 ELSE 0]
    /\ mailWorkers' = [mailWorkers EXCEPT ![w].at = "recording", ![w].result = result]
    /\ UNCHANGED <<mailJobs, mailAttempts, mailSettings, mailStops>>

CompleteMailJob(j, result) ==
    IF result = "sent" THEN "sent"
    ELSE IF result = "transient" /\ mailJobs[j].attempts < MaxMailAttempts THEN "retrying"
    ELSE "failed"

AttemptOutcome(status) ==
    CASE status = "sent" -> "sent" [] status = "retrying" -> "transient_failure"
      [] OTHER -> "terminal_failure"

\* The audit event names the workspace of the job's resource, which no auth job
\* has: RecordingFails.
Complete(w) ==
    LET j == mailWorkers[w].job
        status == CompleteMailJob(j, mailWorkers[w].result)
    IN  /\ mailWorkers[w].at = "recording"
        /\ j \notin AuthJob
        /\ mailJobs[j].status = "sending"
        /\ mailJobs' = [mailJobs EXCEPT ![j].status = status]
        /\ mailAttempts' = [mailAttempts EXCEPT ![j][mailJobs[j].attempts] = AttemptOutcome(status)]
        /\ mailWorkers' = [mailWorkers EXCEPT ![w] = IdleMailWorker]
        /\ UNCHANGED <<mailSettings, handed, mailStops>>

\* The transaction of Complete is rolled back and the worker goes on.
RecordingFails(w) ==
    /\ mailWorkers[w].at = "recording"
    /\ mailWorkers[w].job \in AuthJob
    /\ mailWorkers' = [mailWorkers EXCEPT ![w] = IdleMailWorker]
    /\ UNCHANGED <<mailJobs, mailAttempts, mailSettings, handed, mailStops>>

\* The process ends, its context is cancelled by a signal, or the database
\* refuses the completion.
WorkerStops(w) ==
    /\ mailWorkers[w].job # NoJob
    /\ mailStops < MaxMailStops
    /\ mailStops' = mailStops + 1
    /\ mailWorkers' = [mailWorkers EXCEPT ![w] = IdleMailWorker]
    /\ UNCHANGED <<mailJobs, mailAttempts, mailSettings, handed>>

-----------------------------------------------------------------------------
MailInit ==
    /\ mailJobs = [j \in MailJob |-> [status |-> "none", attempts |-> 0, due |-> FALSE]]
    /\ mailAttempts = [j \in MailJob |-> [n \in AttemptNumber |-> "none"]]
    /\ mailWorkers = [w \in MailWorker |-> IdleMailWorker]
    /\ mailSettings = [enabled |-> TRUE, version |-> 0]
    /\ handed = [j \in MailJob |-> 0]
    /\ mailStops = 0

\* One iteration of the worker's loop, call by call.
MailRunOnce(w) ==
    \/ MailDispatchEnabled(w)
    \/ \E j \in MailJob : ClaimNext(w, j)
    \/ ClaimRefused(w)
    \/ \E loaded \in BOOLEAN : LoadDelivery(w, loaded)
    \/ \E result \in MailResult, accepted \in BOOLEAN : Send(w, result, accepted)
    \/ Complete(w) \/ RecordingFails(w)

MailNext ==
    \/ \E j \in MailJob : EnqueueMailTx(j) \/ RetryFallsDue(j)
    \/ \E enabled \in BOOLEAN : UpdateAdminMailSettings(enabled)
    \/ \E w \in MailWorker : MailRunOnce(w) \/ WorkerStops(w)

\* A worker runs on its ticker, and time passes.
MailFairness ==
    /\ \A w \in MailWorker : WF_mailVars(MailRunOnce(w))
    /\ \A j \in MailJob : WF_mailVars(RetryFallsDue(j))

MailSpec == MailInit /\ [][MailNext]_mailVars
FairMailSpec == MailSpec /\ MailFairness

-----------------------------------------------------------------------------
\* Every variable keeps its type, and a job that waits has an attempt left: the
\* claim would refuse it and never look past it.
MailTypeOK ==
    /\ mailJobs \in [MailJob -> [status : MailStatus, attempts : 0 .. MaxMailAttempts,
                                 due : BOOLEAN]]
    /\ mailAttempts \in [MailJob -> [AttemptNumber ->
                            {"none", "sending", "sent", "transient_failure", "terminal_failure"}]]
    /\ mailWorkers \in [MailWorker ->
                            [at : {"idle", "open", "claimed", "sending", "recording"},
                             job : MailJob \cup {NoJob}, result : MailResult]]
    /\ mailSettings \in [enabled : BOOLEAN, version : 0 .. MaxMailSettings]
    /\ handed \in [MailJob -> 0 .. MaxMailAttempts]
    /\ mailStops \in 0 .. MaxMailStops
    /\ \A j \in MailJob :
          mailJobs[j].status \in {"queued", "retrying"} => mailJobs[j].attempts < MaxMailAttempts

InHand(j) == {w \in MailWorker : mailWorkers[w].job = j}
Stranded(j) == mailJobs[j].status = "sending" /\ InHand(j) = {}

\* A job in the hands of a worker is 'sending', and no two workers have the same
\* job (the row lock of ClaimNext and its status test).
OneWorkerPerJob ==
    \A j \in MailJob :
        /\ InHand(j) # {} => mailJobs[j].status = "sending"
        /\ Cardinality(InHand(j)) <= 1

\* mail_attempts tells the story of mail_jobs: every attempt but the last ended
\* transiently, the last one as the job stands, and no later one exists.
AttemptsTellTheJob ==
    \A j \in MailJob : \A n \in AttemptNumber :
        mailAttempts[j][n] =
            IF n > mailJobs[j].attempts THEN "none"
            ELSE IF n < mailJobs[j].attempts THEN "transient_failure"
            ELSE IF mailJobs[j].status = "sending" THEN "sending"
            ELSE AttemptOutcome(mailJobs[j].status)

\* A support job is left 'sending' for ever only where a worker stopped with it
\* or its completion was rolled back: one job for each such event.
StrandedByStops ==
    Cardinality({j \in MailJob \ AuthJob : Stranded(j)}) <= mailStops

\* A job that is over is never sent again, and a job is marked sent only when the
\* server has accepted its message.
OverIsNotSentAgain ==
    [][\A j \in MailJob :
          /\ mailJobs[j].status \in MailOver
                 => mailJobs'[j] = mailJobs[j] /\ handed'[j] = handed[j]
          /\ mailJobs'[j].status = "sent" => handed'[j] > 0]_mailVars

\* While dispatch stays enabled, every job handed to the queue is sent, fails, or
\* is stranded in the claim of a worker that is gone.
MailSettles ==
    (<>[](mailSettings.enabled)) =>
        \A j \in MailJob :
            mailJobs[j].status = "queued" ~> mailJobs[j].status \in MailOver \/ Stranded(j)

\* A verification, recovery or login-code message is delivered or fails like any
\* other (artifacts/v10/P15/review.md:119): refuted by the deployed worker.
AuthMailSettles ==
    \A j \in AuthJob : mailJobs[j].status = "queued" ~> mailJobs[j].status \in MailOver

\* The mail queue as a whole: one worker per job, attempts that tell its story, no job
\* lost but by a stop, and none sent again when it is over.
MailSafety ==
    /\ [](MailTypeOK /\ OneWorkerPerJob /\ AttemptsTellTheJob /\ StrandedByStops)
    /\ OverIsNotSentAgain
=============================================================================
