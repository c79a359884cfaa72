---------------------------- MODULE FileLifecycle ----------------------------
(***************************************************************************)
(* File sharing (internal/files, services/platformapi/cmd/fileworker and   *)
(* the administrator's file operations).  A file lives in two places that  *)
(* no transaction spans: its row and scan attempts in MySQL, its bytes in  *)
(* one of two directories of the storage.  Request handlers move bytes     *)
(* between the directories around their transactions and undo the move     *)
(* when the transaction fails; file workers claim scan attempts under a    *)
(* lease, move bytes back when they must, and record verdicts;             *)
(* administrators change the rows and never touch the bytes.               *)
(*                                                                         *)
(* A transaction is one action, and so is one system call on the storage.  *)
(* One workspace is modelled.  Expiry and retention dates are left out:    *)
(* they refuse a download where the limit does.                            *)
(***************************************************************************)
EXTENDS Integers, FiniteSets

CONSTANTS
    File,          \* files, each with its own storage key and public slug
    Worker,        \* file worker processes
    Handler,       \* requests the API serves at the same time
    Password,      \* passwords a share may have
    Open,          \* the absence of a password
    None,          \* no file, no worker
    MaxFiles,      \* the workspace's quota of live files
    MaxGeneration, \* bound: scan generations of a file
    MaxDownloads,  \* bound: public downloads of a file
    MaxFaults      \* bound: failed statements, crashes and overlong scans

ASSUME FileAssumption == None \notin File \cup Worker /\ Open \notin Password
ASSUME BoundAssumption ==
    /\ MaxFiles \in Nat
    /\ MaxGeneration \in Nat \ {0}
    /\ MaxDownloads \in Nat
    /\ MaxFaults \in Nat

VARIABLES
    state,       \* files.scan_state; "absent" while there is no row
    generation,  \* files.scan_generation
    published,   \* files.published
    deleted,     \* files.deleted_at is set
    password,    \* files.password_hash
    limit,       \* files.download_limit, 0 for none
    downloads,   \* files.download_count
    status,      \* file_scan_attempts.status of each generation
    holder,      \* claim token of the current attempt
    lapsed,      \* files whose claim is older than the lease
    active,      \* file_workspace_counters.active_count
    place,       \* the directory that holds the bytes
    job,         \* what each worker is doing
    request,     \* what each handler is doing
    unanswered,  \* uploads that were committed although their handler was told otherwise
    faults       \* failures so far

rowVars == <<state, generation, published, deleted>>
accessVars == <<password, limit, downloads>>
scanVars == <<status, holder, lapsed>>
vars == <<rowVars, accessVars, scanVars, active, place, job, request, unanswered, faults>>

Generation == 1..MaxGeneration
Verdict == {"clean", "infected", "error"}
ScanState == {"quarantined", "scanning", "safe", "blocked", "scan_error"}
Status == {"none", "queued", "processing"} \cup Verdict
Place == {"none", "quarantine", "published"}
JobStep == {"idle", "open", "reclaim", "reopen", "scan", "complete"}
Step == {"idle", "create", "move", "mark", "return", "withdraw", "rescan", "republish",
         "remove", "remove_published", "open", "reserve"}

\* A claim token is 32 random bytes.  The worker's name stands for it: a worker
\* has one job at a time and forgets it when it ends or crashes, so two claims
\* that somebody may still complete never carry the same name.
Job(at, f, g, v) == [at |-> at, file |-> f, generation |-> g, verdict |-> v]
JobRecord == [at : JobStep, file : File \cup {None}, generation : Generation, verdict : Verdict]
NoJob == Job("idle", None, 1, "error")

\* moved: the handler moved the bytes itself.  proven: the password hash that a
\* visitor's cookie was checked against when the share was looked up.
Request(at, f, m, p) == [at |-> at, file |-> f, moved |-> m, proven |-> p]
RequestRecord == [at : Step, file : File \cup {None}, moved : BOOLEAN,
                  proven : Password \cup {Open}]
NoRequest == Request("idle", None, FALSE, Open)

Live(f) == state[f] # "absent" /\ ~deleted[f]
LiveFiles == {f \in File : Live(f)}

-----------------------------------------------------------------------------
(***************************************************************************)
(* The storage.  A rename succeeds when its source is there.  Returning    *)
(* bytes that are already in quarantine succeeds as well.                  *)
(***************************************************************************)
PublishBytes(f) ==
    place' = IF place[f] = "quarantine" THEN [place EXCEPT ![f] = "published"] ELSE place

ReturnBytes(f) ==
    place' = IF place[f] = "published" THEN [place EXCEPT ![f] = "quarantine"] ELSE place

RemoveBytes(f, dir) ==
    place' = IF place[f] = dir THEN [place EXCEPT ![f] = "none"] ELSE place

Fault == faults < MaxFaults /\ faults' = faults + 1

Advance(h, at, m) ==
    request' = [request EXCEPT ![h] = Request(at, request[h].file, m, request[h].proven)]
Finish(h) == request' = [request EXCEPT ![h] = NoRequest]
At(h, at) == request[h].at = at

-----------------------------------------------------------------------------
(***************************************************************************)
(* Upload: the bytes are written first, then one transaction checks the    *)
(* quota and inserts the row and its first attempt.  When it returns an    *)
(* error the handler removes the bytes.  The error may be that of a commit *)
(* which took effect and whose answer was lost; the same holds of the      *)
(* transactions of publish and rescan below.                               *)
(***************************************************************************)
WriteQuarantine(h, f) ==
    /\ At(h, "idle")
    /\ state[f] = "absent" /\ place[f] = "none"
    /\ \A k \in Handler : request[k].file # f
    /\ place' = [place EXCEPT ![f] = "quarantine"]
    /\ request' = [request EXCEPT ![h] = Request("create", f, FALSE, Open)]
    /\ UNCHANGED <<rowVars, accessVars, scanVars, active, job, unanswered, faults>>

InsertFile(f) ==
    /\ active < MaxFiles
    /\ state' = [state EXCEPT ![f] = "quarantined"]
    /\ generation' = [generation EXCEPT ![f] = 1]
    /\ status' = [status EXCEPT ![f][1] = "queued"]
    /\ active' = active + 1
    /\ UNCHANGED <<published, deleted, accessVars, holder, lapsed>>

CreateQuarantined(h) ==
    /\ At(h, "create")
    /\ InsertFile(request[h].file)
    /\ Finish(h)
    /\ UNCHANGED <<place, job, unanswered, faults>>

CreateUnanswered(h) ==
    /\ At(h, "create")
    /\ InsertFile(request[h].file)
    /\ Fault
    /\ unanswered' = unanswered \cup {request[h].file}
    /\ Advance(h, "remove", FALSE)
    /\ UNCHANGED <<place, job>>

CreateRefused(h) ==
    /\ At(h, "create")
    /\ \/ active >= MaxFiles /\ UNCHANGED faults
       \/ Fault
    /\ Advance(h, "remove", FALSE)
    /\ UNCHANGED <<rowVars, accessVars, scanVars, active, place, job, unanswered>>

-----------------------------------------------------------------------------
(***************************************************************************)
(* Publish: read the row; when it is safe and not yet published, move the  *)
(* bytes; then mark the row in a transaction that looks at it again.       *)
(***************************************************************************)
BeginPublish(h, f) ==
    /\ At(h, "idle")
    /\ Live(f) /\ state[f] = "safe"
    /\ request' = [request EXCEPT ![h] =
                     Request(IF published[f] THEN "mark" ELSE "move", f, FALSE, Open)]
    /\ UNCHANGED <<rowVars, accessVars, scanVars, active, place, job, unanswered, faults>>

MoveToPublished(h) ==
    LET f == request[h].file IN
    /\ At(h, "move")
    /\ PublishBytes(f)
    /\ IF place[f] = "quarantine" THEN Advance(h, "mark", TRUE) ELSE Finish(h)
    /\ UNCHANGED <<rowVars, accessVars, scanVars, active, job, unanswered, faults>>

\* Bug: the transaction trusts the state the handler read before it moved the bytes.
MarkPublishedUnchecked(h) ==
    LET f == request[h].file IN
    /\ At(h, "mark")
    /\ Live(f)
    /\ published' = [published EXCEPT ![f] = TRUE]
    /\ Finish(h)
    /\ UNCHANGED <<state, generation, deleted, accessVars, scanVars, active, place, job,
                   unanswered, faults>>

SetPublished(f) ==
    /\ Live(f) /\ state[f] = "safe"
    /\ published' = [published EXCEPT ![f] = TRUE]
    /\ UNCHANGED <<state, generation, deleted, accessVars, scanVars, active>>

MarkPublished(h) ==
    /\ At(h, "mark")
    /\ SetPublished(request[h].file)
    /\ Finish(h)
    /\ UNCHANGED <<place, job, unanswered, faults>>

AnswerMarkError(h) ==
    IF request[h].moved THEN Advance(h, "return", TRUE) ELSE Finish(h)

MarkUnanswered(h) ==
    /\ At(h, "mark")
    /\ SetPublished(request[h].file)
    /\ Fault
    /\ AnswerMarkError(h)
    /\ UNCHANGED <<place, job, unanswered>>

MarkRefused(h) ==
    LET f == request[h].file IN
    /\ At(h, "mark")
    /\ \/ ~(Live(f) /\ state[f] = "safe") /\ UNCHANGED faults
       \/ Fault
    /\ AnswerMarkError(h)
    /\ UNCHANGED <<rowVars, accessVars, scanVars, active, place, job, unanswered>>

UndoMove(h) ==
    /\ At(h, "return")
    /\ ReturnBytes(request[h].file)
    /\ Finish(h)
    /\ UNCHANGED <<rowVars, accessVars, scanVars, active, job, unanswered, faults>>

-----------------------------------------------------------------------------
(***************************************************************************)
(* Rescan: read the row; when it is published, move the bytes back; then   *)
(* start the next generation, or publish the bytes again when that fails.  *)
(***************************************************************************)
\* Bug: a rescan may start while the current one is queued or running.
RescannableAnytime(f) == Live(f) /\ generation[f] < MaxGeneration

Rescannable(f) ==
    Live(f) /\ state[f] \notin {"scanning", "quarantined"} /\ generation[f] < MaxGeneration

StartGeneration(f) ==
    /\ state' = [state EXCEPT ![f] = "quarantined"]
    /\ generation' = [generation EXCEPT ![f] = generation[f] + 1]
    /\ published' = [published EXCEPT ![f] = FALSE]
    /\ status' = [status EXCEPT ![f][generation[f] + 1] = "queued"]
    /\ holder' = [holder EXCEPT ![f] = None]
    /\ UNCHANGED <<deleted, accessVars, lapsed, active>>

RequestRescan(h, f) ==
    /\ At(h, "idle")
    /\ Live(f)
    /\ request' = [request EXCEPT ![h] =
                     Request(IF published[f] THEN "withdraw" ELSE "rescan", f, FALSE, Open)]
    /\ UNCHANGED <<rowVars, accessVars, scanVars, active, place, job, unanswered, faults>>

Withdraw(h) ==
    LET f == request[h].file IN
    /\ At(h, "withdraw")
    /\ ReturnBytes(f)
    /\ IF place[f] # "none" THEN Advance(h, "rescan", TRUE) ELSE Finish(h)
    /\ UNCHANGED <<rowVars, accessVars, scanVars, active, job, unanswered, faults>>

BeginRescan(h) ==
    /\ At(h, "rescan")
    /\ Rescannable(request[h].file)
    /\ StartGeneration(request[h].file)
    /\ Finish(h)
    /\ UNCHANGED <<place, job, unanswered, faults>>

AnswerRescanError(h) ==
    IF request[h].moved THEN Advance(h, "republish", TRUE) ELSE Finish(h)

RescanUnanswered(h) ==
    /\ At(h, "rescan")
    /\ Rescannable(request[h].file)
    /\ StartGeneration(request[h].file)
    /\ Fault
    /\ AnswerRescanError(h)
    /\ UNCHANGED <<place, job, unanswered>>

\* A rescan beyond the bound on generations ends like one whose transaction failed.
RescanRefused(h) ==
    /\ At(h, "rescan")
    /\ \/ ~Rescannable(request[h].file) /\ UNCHANGED faults
       \/ Fault
    /\ AnswerRescanError(h)
    /\ UNCHANGED <<rowVars, accessVars, scanVars, active, place, job, unanswered>>

UndoWithdraw(h) ==
    /\ At(h, "republish")
    /\ PublishBytes(request[h].file)
    /\ Finish(h)
    /\ UNCHANGED <<rowVars, accessVars, scanVars, active, job, unanswered, faults>>

-----------------------------------------------------------------------------
(***************************************************************************)
(* Delete: the row first, then the two directories one after the other, as *)
(* the handler of a failed upload does.                                    *)
(***************************************************************************)
MarkDeleted(f) ==
    /\ Live(f)
    /\ active > 0
    /\ deleted' = [deleted EXCEPT ![f] = TRUE]
    /\ published' = [published EXCEPT ![f] = FALSE]
    /\ active' = active - 1
    /\ UNCHANGED <<state, generation, accessVars, scanVars>>

\* Bug: the bytes are removed before the row is marked.
DeleteBytesFirst(h, f) ==
    /\ At(h, "idle")
    /\ Live(f)
    /\ request' = [request EXCEPT ![h] = Request("remove", f, FALSE, Open)]
    /\ UNCHANGED <<rowVars, accessVars, scanVars, active, place, job, unanswered, faults>>

Delete(h, f) ==
    /\ At(h, "idle")
    /\ MarkDeleted(f)
    /\ request' = [request EXCEPT ![h] = Request("remove", f, FALSE, Open)]
    /\ UNCHANGED <<place, job, unanswered, faults>>

RemoveQuarantined(h) ==
    /\ At(h, "remove")
    /\ RemoveBytes(request[h].file, "quarantine")
    /\ Advance(h, "remove_published", FALSE)
    /\ UNCHANGED <<rowVars, accessVars, scanVars, active, job, unanswered, faults>>

RemovePublished(h) ==
    /\ At(h, "remove_published")
    /\ RemoveBytes(request[h].file, "published")
    /\ Finish(h)
    /\ UNCHANGED <<rowVars, accessVars, scanVars, active, job, unanswered, faults>>

-----------------------------------------------------------------------------
(***************************************************************************)
(* Public download: look the share up and check the visitor, open the      *)
(* bytes, then reserve the download in a transaction that checks again.    *)
(***************************************************************************)
Shared(f) == Live(f) /\ published[f] /\ state[f] = "safe"

LookUp(h, f) ==
    /\ At(h, "idle")
    /\ Shared(f)
    /\ request' = [request EXCEPT ![h] = Request("open", f, FALSE, password[f])]
    /\ UNCHANGED <<rowVars, accessVars, scanVars, active, place, job, unanswered, faults>>

OpenPublished(h) ==
    /\ At(h, "open")
    /\ IF place[request[h].file] = "published" THEN Advance(h, "reserve", FALSE) ELSE Finish(h)
    /\ UNCHANGED <<rowVars, accessVars, scanVars, active, place, job, unanswered, faults>>

\* Bug: the reservation relies on the check made when the share was looked up.
ReservableUnproven(f, proven) ==
    /\ Shared(f)
    /\ limit[f] # 0 => downloads[f] < limit[f]
    /\ downloads[f] < MaxDownloads

Reservable(f, proven) ==
    /\ Shared(f)
    /\ limit[f] # 0 => downloads[f] < limit[f]
    /\ password[f] # Open => proven = password[f]
    /\ downloads[f] < MaxDownloads

ReservePublicDownload(h) ==
    LET f == request[h].file IN
    /\ At(h, "reserve")
    /\ Reservable(f, request[h].proven)
    /\ downloads' = [downloads EXCEPT ![f] = downloads[f] + 1]
    /\ Finish(h)
    /\ UNCHANGED <<rowVars, password, limit, scanVars, active, place, job, unanswered, faults>>

ReserveRefused(h) ==
    /\ At(h, "reserve")
    /\ ~Reservable(request[h].file, request[h].proven)
    /\ Finish(h)
    /\ UNCHANGED <<rowVars, accessVars, scanVars, active, place, job, unanswered, faults>>

UpdateAccessPolicy(f) ==
    /\ Live(f)
    /\ \E p \in Password \cup {Open}, n \in 0..MaxDownloads :
          /\ password' = [password EXCEPT ![f] = p]
          /\ limit' = [limit EXCEPT ![f] = n]
    /\ UNCHANGED <<rowVars, downloads, scanVars, active, place, job, request, unanswered, faults>>

-----------------------------------------------------------------------------
(***************************************************************************)
(* The administrator changes rows; nothing here moves bytes.               *)
(***************************************************************************)
AdminQuarantine(f) ==
    /\ Rescannable(f)
    /\ StartGeneration(f)
    /\ UNCHANGED <<place, job, request, unanswered, faults>>

AdminRestore(f) ==
    /\ SetPublished(f)
    /\ UNCHANGED <<place, job, request, unanswered, faults>>

\* Bug: the administrator's deletion leaves the workspace counter alone.
AdminDeleteUncounted(f) ==
    /\ Live(f)
    /\ deleted' = [deleted EXCEPT ![f] = TRUE]
    /\ published' = [published EXCEPT ![f] = FALSE]
    /\ UNCHANGED <<state, generation, accessVars, scanVars, active, place, job, request,
                   unanswered, faults>>

AdminDelete(f) ==
    /\ MarkDeleted(f)
    /\ UNCHANGED <<place, job, request, unanswered, faults>>

-----------------------------------------------------------------------------
(***************************************************************************)
(* The file worker.                                                        *)
(***************************************************************************)
\* The claim takes the oldest queued attempt that no other transaction has
\* locked (SKIP LOCKED), which may be any of them.
ClaimNextScan(w, f) ==
    /\ job[w].at = "idle"
    /\ Live(f) /\ state[f] = "quarantined"
    /\ status[f][generation[f]] = "queued"
    /\ status' = [status EXCEPT ![f][generation[f]] = "processing"]
    /\ holder' = [holder EXCEPT ![f] = w]
    /\ state' = [state EXCEPT ![f] = "scanning"]
    /\ published' = [published EXCEPT ![f] = FALSE]
    /\ job' = [job EXCEPT ![w] = Job("open", f, generation[f], "error")]
    /\ UNCHANGED <<generation, deleted, accessVars, lapsed, active, place, request, unanswered, faults>>

Continue(w, at, v) ==
    job' = [job EXCEPT ![w] = Job(at, job[w].file, job[w].generation, v)]

OpenQuarantine(w) ==
    /\ job[w].at = "open"
    /\ Continue(w, IF place[job[w].file] = "quarantine" THEN "scan" ELSE "reclaim", "error")
    /\ UNCHANGED <<rowVars, accessVars, scanVars, active, place, request, unanswered, faults>>

ReturnToQuarantine(w) ==
    LET f == job[w].file IN
    /\ job[w].at = "reclaim"
    /\ ReturnBytes(f)
    /\ Continue(w, IF place[f] = "none" THEN "complete" ELSE "reopen", "error")
    /\ UNCHANGED <<rowVars, accessVars, scanVars, active, request, unanswered, faults>>

ReopenQuarantine(w) ==
    /\ job[w].at = "reopen"
    /\ Continue(w, IF place[job[w].file] = "quarantine" THEN "scan" ELSE "complete", "error")
    /\ UNCHANGED <<rowVars, accessVars, scanVars, active, place, request, unanswered, faults>>

Scan(w) ==
    /\ job[w].at = "scan"
    /\ \E v \in Verdict : Continue(w, "complete", v)
    /\ UNCHANGED <<rowVars, accessVars, scanVars, active, place, request, unanswered, faults>>

StateOf(v) ==
    IF v = "clean" THEN "safe" ELSE IF v = "infected" THEN "blocked" ELSE "scan_error"

\* Bug: the claim token is not compared.
CompletableByAnyone(w) ==
    LET f == job[w].file IN
    /\ status[f][job[w].generation] = "processing"
    /\ Live(f) /\ generation[f] = job[w].generation /\ state[f] = "scanning"

Completable(w) ==
    LET f == job[w].file IN
    /\ status[f][job[w].generation] = "processing" /\ holder[f] = w
    /\ Live(f) /\ generation[f] = job[w].generation /\ state[f] = "scanning"

CompleteScan(w) ==
    LET f == job[w].file IN
    /\ job[w].at = "complete"
    /\ Completable(w)
    /\ status' = [status EXCEPT ![f][job[w].generation] = job[w].verdict]
    /\ state' = [state EXCEPT ![f] = StateOf(job[w].verdict)]
    /\ published' = [published EXCEPT ![f] = FALSE]
    /\ lapsed' = lapsed \ {f}
    /\ job' = [job EXCEPT ![w] = NoJob]
    /\ UNCHANGED <<generation, deleted, accessVars, holder, active, place, request, unanswered, faults>>

\* ErrScanClaimConflict is logged, and so is a failed transaction: the worker
\* goes on with its loop and the attempt stays claimed until its lease ends.
CompleteRefused(w) ==
    /\ job[w].at = "complete"
    /\ \/ ~Completable(w) /\ UNCHANGED faults
       \/ Fault
    /\ job' = [job EXCEPT ![w] = NoJob]
    /\ UNCHANGED <<rowVars, accessVars, scanVars, active, place, request, unanswered>>

\* Bug: the recovery looks for the state the claim has already left.
StaleQuarantined == {f \in lapsed : Live(f) /\ state[f] = "quarantined"
                                    /\ status[f][generation[f]] = "processing"}

Stale == {f \in lapsed : Live(f) /\ state[f] = "scanning"
                         /\ status[f][generation[f]] = "processing"}

RecoverStaleClaims(w) ==
    /\ job[w].at = "idle"
    /\ Stale # {}
    /\ status' = [f \in File |-> IF f \in Stale THEN [status[f] EXCEPT ![generation[f]] = "queued"]
                                 ELSE status[f]]
    /\ holder' = [f \in File |-> IF f \in Stale THEN None ELSE holder[f]]
    /\ state' = [f \in File |-> IF f \in Stale THEN "quarantined" ELSE state[f]]
    /\ published' = [f \in File |-> IF f \in Stale THEN FALSE ELSE published[f]]
    /\ lapsed' = lapsed \ Stale
    /\ UNCHANGED <<generation, deleted, accessVars, active, place, job, request, unanswered, faults>>

-----------------------------------------------------------------------------
(***************************************************************************)
(* Time and failures.  The lease (2 minutes) is longer than the scan's     *)
(* timeouts, so a claim that lapses while its worker still has the job is  *)
(* counted among the failures; one whose worker is gone lapses in time.    *)
(***************************************************************************)
Working(f) == \E w \in Worker : job[w].at # "idle" /\ job[w].file = f /\ holder[f] = w

ClaimLapses(f) ==
    /\ state[f] = "scanning" /\ f \notin lapsed
    /\ IF Working(f) THEN Fault ELSE UNCHANGED faults
    /\ lapsed' = lapsed \cup {f}
    /\ UNCHANGED <<rowVars, accessVars, status, holder, active, place, job, request, unanswered>>

WorkerCrashes(w) ==
    /\ job[w].at # "idle"
    /\ Fault
    /\ job' = [job EXCEPT ![w] = NoJob]
    /\ UNCHANGED <<rowVars, accessVars, scanVars, active, place, request, unanswered>>

HandlerCrashes(h) ==
    /\ ~At(h, "idle")
    /\ Fault
    /\ Finish(h)
    /\ UNCHANGED <<rowVars, accessVars, scanVars, active, place, job, unanswered>>

-----------------------------------------------------------------------------
Init ==
    /\ state = [f \in File |-> "absent"]
    /\ generation = [f \in File |-> 1]
    /\ published = [f \in File |-> FALSE]
    /\ deleted = [f \in File |-> FALSE]
    /\ password = [f \in File |-> Open]
    /\ limit = [f \in File |-> 0]
    /\ downloads = [f \in File |-> 0]
    /\ status = [f \in File |-> [g \in Generation |-> "none"]]
    /\ holder = [f \in File |-> None]
    /\ lapsed = {}
    /\ active = 0
    /\ place = [f \in File |-> "none"]
    /\ job = [w \in Worker |-> NoJob]
    /\ request = [h \in Handler |-> NoRequest]
    /\ unanswered = {}
    /\ faults = 0

RequestStep(h) ==
    \/ CreateQuarantined(h) \/ CreateUnanswered(h) \/ CreateRefused(h)
    \/ MoveToPublished(h) \/ MarkPublished(h) \/ MarkUnanswered(h) \/ MarkRefused(h)
    \/ UndoMove(h)
    \/ Withdraw(h) \/ BeginRescan(h) \/ RescanUnanswered(h) \/ RescanRefused(h)
    \/ UndoWithdraw(h)
    \/ RemoveQuarantined(h) \/ RemovePublished(h)
    \/ OpenPublished(h) \/ ReservePublicDownload(h) \/ ReserveRefused(h)

NewRequest(h, f) ==
    \/ WriteQuarantine(h, f) \/ BeginPublish(h, f) \/ RequestRescan(h, f)
    \/ Delete(h, f) \/ LookUp(h, f)

Administer(f) ==
    \/ UpdateAccessPolicy(f) \/ AdminQuarantine(f) \/ AdminRestore(f) \/ AdminDelete(f)

WorkerStep(w) ==
    \/ RecoverStaleClaims(w)
    \/ \E f \in File : ClaimNextScan(w, f)
    \/ OpenQuarantine(w) \/ ReturnToQuarantine(w) \/ ReopenQuarantine(w)
    \/ Scan(w) \/ CompleteScan(w) \/ CompleteRefused(w)

Next ==
    \/ \E h \in Handler : RequestStep(h) \/ HandlerCrashes(h)
    \/ \E h \in Handler, f \in File : NewRequest(h, f)
    \/ \E f \in File : Administer(f) \/ ClaimLapses(f)
    \/ \E w \in Worker : WorkerStep(w) \/ WorkerCrashes(w)

Spec == Init /\ [][Next]_vars

\* Workers are supervised loops, and time passes.  Requests may be abandoned, so
\* no handler is fair.
FairSpec ==
    /\ Spec
    /\ \A w \in Worker : WF_vars(WorkerStep(w))
    /\ \A f \in File : WF_vars(ClaimLapses(f) /\ ~Working(f))

-----------------------------------------------------------------------------
\* Every variable keeps its type.
TypeOK ==
    /\ state \in [File -> ScanState \cup {"absent"}]
    /\ generation \in [File -> Generation]
    /\ published \in [File -> BOOLEAN]
    /\ deleted \in [File -> BOOLEAN]
    /\ password \in [File -> Password \cup {Open}]
    /\ limit \in [File -> 0..MaxDownloads]
    /\ downloads \in [File -> 0..MaxDownloads]
    /\ status \in [File -> [Generation -> Status]]
    /\ holder \in [File -> Worker \cup {None}]
    /\ lapsed \subseteq File
    /\ active \in Nat
    /\ place \in [File -> Place]
    /\ job \in [Worker -> JobRecord]
    /\ request \in [Handler -> RequestRecord]
    /\ unanswered \subseteq File
    /\ faults \in 0..MaxFaults

Agree(s, t) ==
    \/ s = "absent" /\ t = "none"
    \/ s = "quarantined" /\ t = "queued"
    \/ s = "scanning" /\ t = "processing"
    \/ s = "safe" /\ t = "clean"
    \/ s = "blocked" /\ t = "infected"
    \/ s = "scan_error" /\ t = "error"

\* The state of a file is the state of the attempt of its current generation, the
\* earlier attempts are decided and later ones do not exist: whatever handlers,
\* administrators and workers with lapsed claims do, no verdict of another
\* generation makes a file safe, and no file waits for an attempt nobody will claim.
StateFollowsAttempt ==
    \A f \in File :
        /\ Agree(state[f], status[f][generation[f]])
        /\ \A g \in Generation :
              /\ g < generation[f] => status[f][g] \in Verdict
              /\ g > generation[f] => status[f][g] = "none"

\* Only a file whose current generation was found clean is published, and a file
\* being scanned again or deleted is not.
PublishedIsClean ==
    \A f \in File : published[f] => ~deleted[f] /\ status[f][generation[f]] = "clean"

\* The bytes of a live file are in the storage: no order of moves, undone moves,
\* removals, crashes and failed transactions loses them, even when the answer of a
\* publication's or a rescan's commit is lost.  The lost answer of an upload's commit
\* is the one exception, and no more can be said of it: the handler removes the
\* bytes of a row that was inserted (httpapi_upload.go, the deferred cleanup).
BytesSurvive == \A f \in File : Live(f) /\ f \notin unanswered => place[f] # "none"

\* The workspace's counter is the number of its live files, and within the quota.
CounterIsExact == active = Cardinality(LiveFiles) /\ active <= MaxFiles

\* A worker whose claim lapsed and was given away decides nothing: when an attempt
\* gets its verdict, the verdict is that of every worker that still holds its claim.
OnlyHolderDecides ==
    [][\A f \in File, g \in Generation :
          status[f][g] \notin Verdict /\ status'[f][g] \in Verdict =>
             /\ holder[f] # None
             /\ job[holder[f]].at = "complete" /\ job[holder[f]].file = f
             /\ job[holder[f]].verdict = status'[f][g]]_vars

\* A counted download was authorised when it was counted, although the visitor was
\* checked and the bytes were opened earlier: the file is live, published and
\* clean, the limit leaves room, and the visitor has proven the password in force.
DownloadsAreAuthorised ==
    [][\A f \in File : downloads'[f] # downloads[f] =>
          /\ downloads'[f] = downloads[f] + 1
          /\ Live(f) /\ published[f] /\ status[f][generation[f]] = "clean"
          /\ limit[f] = 0 \/ downloads'[f] <= limit[f]
          /\ \E h \in Handler :
                /\ At(h, "reserve") /\ request[h].file = f
                /\ password[f] # Open => request[h].proven = password[f]]_vars

\* A file that waits for a scan gets a verdict, or is deleted: crashed workers,
\* failed transactions and lapsed claims only delay it.
EveryScanEnds ==
    \A f \in File :
        state[f] \in {"quarantined", "scanning"} ~>
            deleted[f] \/ state[f] \in {"safe", "blocked", "scan_error"}

\* The rows as a whole: well typed, and the state of a file follows its scan attempt.
FileSafety == TypeOK /\ StateFollowsAttempt
=============================================================================
