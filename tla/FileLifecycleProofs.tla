------------------------- MODULE FileLifecycleProofs -------------------------
(* Invariants of FileLifecycle, proved for every number of files, workers,    *)
(* requests, generations and failures.                                        *)
EXTENDS FileLifecycle, FiniteSetTheorems, TLAPS

-----------------------------------------------------------------------------
(* The records that handlers and workers keep. *)

LEMMA RecordTypes ==
    /\ NoJob \in JobRecord /\ NoRequest \in RequestRecord
    /\ \A at \in JobStep, f \in File \cup {None}, g \in Generation, v \in Verdict :
          Job(at, f, g, v) \in JobRecord
    /\ \A at \in Step, f \in File \cup {None}, m \in BOOLEAN, p \in Password \cup {Open} :
          Request(at, f, m, p) \in RequestRecord
  <1>1. 1 \in Generation
    BY BoundAssumption DEF Generation
  <1> QED
    BY <1>1 DEF JobRecord, RequestRecord, Job, Request, NoJob, NoRequest, JobStep, Step, Verdict

LEMMA AdvanceType ==
    ASSUME TypeOK, NEW h \in Handler, NEW at \in Step, NEW m \in BOOLEAN, Advance(h, at, m)
    PROVE  request' \in [Handler -> RequestRecord]
  <1>1. request[h].file \in File \cup {None} /\ request[h].proven \in Password \cup {Open}
    BY DEF TypeOK, RequestRecord
  <1>2. Request(at, request[h].file, m, request[h].proven) \in RequestRecord
    BY <1>1, RecordTypes
  <1> QED BY <1>2 DEF TypeOK, Advance

LEMMA FinishType ==
    ASSUME TypeOK, NEW h \in Handler, Finish(h)
    PROVE  request' \in [Handler -> RequestRecord]
  BY RecordTypes DEF TypeOK, Finish

LEMMA ContinueType ==
    ASSUME TypeOK, NEW w \in Worker, NEW at \in JobStep, NEW v \in Verdict, Continue(w, at, v)
    PROVE  job' \in [Worker -> JobRecord]
  <1>1. job[w].file \in File \cup {None} /\ job[w].generation \in Generation
    BY DEF TypeOK, JobRecord
  <1>2. Job(at, job[w].file, job[w].generation, v) \in JobRecord
    BY <1>1, RecordTypes
  <1> QED BY <1>2 DEF TypeOK, Continue

LEMMA FaultType ==
    ASSUME TypeOK, Fault
    PROVE  faults' \in 0 .. MaxFaults
  BY BoundAssumption DEF TypeOK, Fault

(* A move never loses bytes. *)
LEMMA MoveKeeps ==
    ASSUME TypeOK, NEW f, PublishBytes(f) \/ ReturnBytes(f)
    PROVE  /\ place' \in [File -> Place]
           /\ \A x \in File : place[x] # "none" => place'[x] # "none"
           /\ \A x \in File : place[x] = "none" => place'[x] = "none"
  BY DEF TypeOK, PublishBytes, ReturnBytes, Place

LEMMA RemoveKeepsOthers ==
    ASSUME TypeOK, NEW f, NEW d, RemoveBytes(f, d)
    PROVE  /\ place' \in [File -> Place]
           /\ \A x \in File : x # f => place'[x] = place[x]
  BY DEF TypeOK, RemoveBytes, Place

-----------------------------------------------------------------------------
(* The inductive invariant: types, and what the steps of requests and workers *)
(* presuppose about the rows.                                                 *)

\* A row that does not exist has no history.
AbsentRows ==
    \A f \in File : state[f] = "absent" => generation[f] = 1 /\ ~published[f] /\ ~deleted[f]

Removing == {"remove", "remove_published"}

\* Each request works on a file of its own kind: an upload on a file that has no row
\* and that no other request knows, every other request on a file that has one.  What
\* a request removes are the bytes of a file that has no row, or a deleted one, or one
\* whose upload was answered by an error although it was committed.
RequestOK(h) ==
    /\ At(h, "idle") <=> request[h].file = None
    /\ At(h, "create") =>
          state[request[h].file] = "absent" /\ place[request[h].file] = "quarantine"
    /\ ~At(h, "idle") /\ state[request[h].file] = "absent" =>
          /\ request[h].at \in Removing \cup {"create"}
          /\ \A k \in Handler : request[k].file = request[h].file => k = h
    /\ request[h].at \in Removing =>
          \/ state[request[h].file] = "absent" \/ deleted[request[h].file]
          \/ request[h].file \in unanswered

Requests == \A h \in Handler : RequestOK(h)

Jobs == \A w \in Worker : job[w].at = "idle" <=> job[w].file = None

FiniteFiles == IsFiniteSet(LiveFiles)

IInv ==
    /\ TypeOK /\ AbsentRows /\ Requests /\ Jobs /\ FiniteFiles
    /\ StateFollowsAttempt /\ PublishedIsClean /\ BytesSurvive /\ CounterIsExact

LEMMA Start == Init => IInv
  <1> SUFFICES ASSUME Init PROVE IInv
    OBVIOUS
  <1>1. TypeOK
    BY BoundAssumption, RecordTypes
    DEF Init, TypeOK, ScanState, Generation, Status, Place, Verdict
  <1>2. LiveFiles = {}
    BY DEF Init, LiveFiles, Live
  <1>3. FiniteFiles /\ CounterIsExact
    BY <1>2, FS_EmptySet, BoundAssumption DEF FiniteFiles, CounterIsExact, Init
  <1>4. AbsentRows /\ BytesSurvive /\ PublishedIsClean
    BY DEF Init, AbsentRows, BytesSurvive, PublishedIsClean, Live
  <1>5. Requests /\ Jobs
    BY DEF Init, Requests, RequestOK, Removing, Jobs, NoRequest, Request, NoJob, Job, At
  <1>6. StateFollowsAttempt
    BY BoundAssumption DEF Init, StateFollowsAttempt, Agree, Generation
  <1> QED BY <1>1, <1>3, <1>4, <1>5, <1>6 DEF IInv

-----------------------------------------------------------------------------
(* Types are preserved: requests, then administrators and visitors, then      *)
(* workers and failures.                                                      *)

(* A file a request or a job is busy with is a file. *)
LEMMA BusyFile ==
    ASSUME IInv
    PROVE  /\ \A h \in Handler : ~At(h, "idle") => request[h].file \in File
           /\ \A w \in Worker : job[w].at # "idle" => job[w].file \in File
  BY FileAssumption DEF IInv, TypeOK, Requests, RequestOK, Jobs, RequestRecord, JobRecord, At

LEMMA GenerationType ==
    ASSUME TypeOK, NEW f \in File, Rescannable(f), StartGeneration(f)
    PROVE  /\ state' \in [File -> ScanState \cup {"absent"}]
           /\ generation' \in [File -> Generation]
           /\ published' \in [File -> BOOLEAN]
           /\ status' \in [File -> [Generation -> Status]]
           /\ holder' \in [File -> Worker \cup {None}]
  <1>1. generation[f] \in Generation /\ generation[f] + 1 \in Generation
    BY BoundAssumption DEF TypeOK, Rescannable, Generation
  <1>2. "quarantined" \in ScanState /\ "queued" \in Status
    BY DEF ScanState, Status
  <1> QED BY <1>1, <1>2 DEF TypeOK, StartGeneration

LEMMA InsertedType ==
    ASSUME TypeOK, NEW f \in File, InsertFile(f)
    PROVE  /\ state' \in [File -> ScanState \cup {"absent"}]
           /\ generation' \in [File -> Generation]
           /\ status' \in [File -> [Generation -> Status]]
           /\ active' \in Nat
  <1>1. 1 \in Generation /\ "quarantined" \in ScanState /\ "queued" \in Status
    BY BoundAssumption DEF Generation, ScanState, Status
  <1> QED BY <1>1 DEF TypeOK, InsertFile

LEMMA RequestStepType ==
    ASSUME IInv, NEW h \in Handler, RequestStep(h)
    PROVE  TypeOK'
  <1> USE DEF IInv
  <1> DEFINE f == request[h].file
  <1>f. CASE ~At(h, "idle")
    <2>0. f \in File
      BY <1>f, BusyFile
    <2>1. CASE CreateQuarantined(h)
      <3>1. InsertFile(f)
        BY <2>1 DEF CreateQuarantined
      <3>2. request' \in [Handler -> RequestRecord]
        BY <2>1, FinishType DEF CreateQuarantined
      <3> QED BY <2>0, <2>1, <3>1, <3>2, InsertedType
              DEF TypeOK, CreateQuarantined, accessVars, InsertFile
    <2>3. CASE CreateUnanswered(h)
      <3>1. InsertFile(f) /\ unanswered' \subseteq File
        BY <2>0, <2>3 DEF CreateUnanswered, TypeOK
      <3>2. request' \in [Handler -> RequestRecord]
        BY <2>3, AdvanceType DEF CreateUnanswered, Step
      <3>3. faults' \in 0 .. MaxFaults
        BY <2>3, FaultType DEF CreateUnanswered
      <3>4. UNCHANGED <<published, deleted, accessVars, holder, lapsed, place, job>>
        BY <2>3 DEF CreateUnanswered, InsertFile
      <3> QED BY <2>0, <3>1, <3>2, <3>3, <3>4, InsertedType DEF TypeOK, accessVars
    <2>2. CASE CreateRefused(h)
      <3>1. request' \in [Handler -> RequestRecord]
        BY <2>2, AdvanceType DEF CreateRefused, Step
      <3> QED BY <2>2, <3>1, FaultType
              DEF TypeOK, CreateRefused, rowVars, accessVars, scanVars

    <2>4. CASE MoveToPublished(h)
      <3>1. request' \in [Handler -> RequestRecord]
        BY <2>4, AdvanceType, FinishType DEF MoveToPublished, Step
      <3>2. place' \in [File -> Place]
        BY <2>4, MoveKeeps DEF MoveToPublished
      <3> QED BY <2>4, <3>1, <3>2 DEF TypeOK, MoveToPublished, rowVars, accessVars, scanVars
    <2>5. CASE MarkPublished(h)
      <3>1. request' \in [Handler -> RequestRecord]
        BY <2>5, FinishType DEF MarkPublished
      <3> QED BY <2>0, <2>5, <3>1 DEF TypeOK, MarkPublished, SetPublished, accessVars, scanVars
    <2>17. CASE MarkUnanswered(h)
      <3>1. request' \in [Handler -> RequestRecord]
        BY <2>17, AdvanceType, FinishType DEF MarkUnanswered, AnswerMarkError, Step
      <3> QED BY <2>0, <2>17, <3>1, FaultType
              DEF TypeOK, MarkUnanswered, SetPublished, accessVars, scanVars
    <2>6. CASE MarkRefused(h)
      <3>1. request' \in [Handler -> RequestRecord]
        BY <2>6, AdvanceType, FinishType DEF MarkRefused, AnswerMarkError, Step
      <3> QED BY <2>6, <3>1, FaultType
              DEF TypeOK, MarkRefused, rowVars, accessVars, scanVars
    <2>7. CASE UndoMove(h)
      <3>1. request' \in [Handler -> RequestRecord] /\ place' \in [File -> Place]
        BY <2>7, FinishType, MoveKeeps DEF UndoMove
      <3> QED BY <2>7, <3>1 DEF TypeOK, UndoMove, rowVars, accessVars, scanVars
    <2>8. CASE Withdraw(h)
      <3>1. request' \in [Handler -> RequestRecord]
        BY <2>8, AdvanceType, FinishType DEF Withdraw, Step
      <3>2. place' \in [File -> Place]
        BY <2>8, MoveKeeps DEF Withdraw
      <3> QED BY <2>8, <3>1, <3>2 DEF TypeOK, Withdraw, rowVars, accessVars, scanVars
    <2>9. CASE BeginRescan(h)
      <3>1. request' \in [Handler -> RequestRecord]
        BY <2>9, FinishType DEF BeginRescan
      <3>2. Rescannable(f) /\ StartGeneration(f)
        BY <2>9 DEF BeginRescan
      <3>3. /\ state' \in [File -> ScanState \cup {"absent"}]
            /\ generation' \in [File -> Generation]
            /\ published' \in [File -> BOOLEAN]
            /\ status' \in [File -> [Generation -> Status]]
            /\ holder' \in [File -> Worker \cup {None}]
        BY <2>0, <3>2, GenerationType
      <3>4. UNCHANGED <<deleted, accessVars, lapsed, active, place, job, unanswered, faults>>
        BY <2>9, <3>2 DEF BeginRescan, StartGeneration
      <3> QED BY <3>1, <3>3, <3>4 DEF TypeOK, accessVars
    <2>18. CASE RescanUnanswered(h)
      <3>1. request' \in [Handler -> RequestRecord]
        BY <2>18, AdvanceType, FinishType DEF RescanUnanswered, AnswerRescanError, Step
      <3>2. Rescannable(f) /\ StartGeneration(f) /\ Fault
        BY <2>18 DEF RescanUnanswered
      <3>3. /\ state' \in [File -> ScanState \cup {"absent"}]
            /\ generation' \in [File -> Generation]
            /\ published' \in [File -> BOOLEAN]
            /\ status' \in [File -> [Generation -> Status]]
            /\ holder' \in [File -> Worker \cup {None}]
        BY <2>0, <3>2, GenerationType
      <3>4. UNCHANGED <<deleted, accessVars, lapsed, active, place, job, unanswered>>
        BY <2>18, <3>2 DEF RescanUnanswered, StartGeneration
      <3> QED BY <3>1, <3>2, <3>3, <3>4, FaultType DEF TypeOK, accessVars
    <2>10. CASE RescanRefused(h)
      <3>1. request' \in [Handler -> RequestRecord]
        BY <2>10, AdvanceType, FinishType DEF RescanRefused, AnswerRescanError, Step
      <3> QED BY <2>10, <3>1, FaultType
              DEF TypeOK, RescanRefused, rowVars, accessVars, scanVars
    <2>11. CASE UndoWithdraw(h)
      <3>1. request' \in [Handler -> RequestRecord] /\ place' \in [File -> Place]
        BY <2>11, FinishType, MoveKeeps DEF UndoWithdraw
      <3> QED BY <2>11, <3>1 DEF TypeOK, UndoWithdraw, rowVars, accessVars, scanVars
    <2>12. CASE RemoveQuarantined(h)
      <3>1. request' \in [Handler -> RequestRecord] /\ place' \in [File -> Place]
        BY <2>12, AdvanceType, RemoveKeepsOthers DEF RemoveQuarantined, Step
      <3> QED BY <2>12, <3>1 DEF TypeOK, RemoveQuarantined, rowVars, accessVars, scanVars
    <2>13. CASE RemovePublished(h)
      <3>1. request' \in [Handler -> RequestRecord] /\ place' \in [File -> Place]
        BY <2>13, FinishType, RemoveKeepsOthers DEF RemovePublished
      <3> QED BY <2>13, <3>1 DEF TypeOK, RemovePublished, rowVars, accessVars, scanVars
    <2>14. CASE OpenPublished(h)
      <3>1. request' \in [Handler -> RequestRecord]
        BY <2>14, AdvanceType, FinishType DEF OpenPublished, Step
      <3> QED BY <2>14, <3>1 DEF TypeOK, OpenPublished, rowVars, accessVars, scanVars
    <2>15. CASE ReservePublicDownload(h)
      <3>1. request' \in [Handler -> RequestRecord]
        BY <2>15, FinishType DEF ReservePublicDownload
      <3>2. downloads[f] + 1 \in 0 .. MaxDownloads
        BY <2>0, <2>15, BoundAssumption DEF TypeOK, ReservePublicDownload, Reservable
      <3> QED BY <2>0, <2>15, <3>1, <3>2
              DEF TypeOK, ReservePublicDownload, rowVars, scanVars
    <2>16. CASE ReserveRefused(h)
      <3>1. request' \in [Handler -> RequestRecord]
        BY <2>16, FinishType DEF ReserveRefused
      <3> QED BY <2>16, <3>1 DEF TypeOK, ReserveRefused, rowVars, accessVars, scanVars
    <2> QED
      BY <2>1, <2>2, <2>3, <2>4, <2>5, <2>6, <2>7, <2>8, <2>9, <2>10, <2>11, <2>12, <2>13,
         <2>14, <2>15, <2>16, <2>17, <2>18 DEF RequestStep
  <1>i. CASE At(h, "idle")
    BY <1>i DEF RequestStep, At, CreateQuarantined, CreateUnanswered, CreateRefused,
       MoveToPublished, MarkPublished, MarkUnanswered, MarkRefused, UndoMove, Withdraw,
       BeginRescan, RescanUnanswered, RescanRefused, UndoWithdraw, RemoveQuarantined,
       RemovePublished, OpenPublished, ReservePublicDownload, ReserveRefused
  <1> QED BY <1>f, <1>i

LEMMA NewRequestType ==
    ASSUME IInv, NEW h \in Handler, NEW f \in File, NewRequest(h, f)
    PROVE  TypeOK'
  <1> USE DEF IInv
  <1>0. /\ password[f] \in Password \cup {Open} /\ Open \in Password \cup {Open}
        /\ f \in File \cup {None}
    BY DEF TypeOK
  <1>1. CASE WriteQuarantine(h, f)
    <2>1. Request("create", f, FALSE, Open) \in RequestRecord
      BY <1>0, RecordTypes DEF Step
    <2> QED BY <1>1, <2>1 DEF TypeOK, WriteQuarantine, Place, rowVars, accessVars, scanVars
  <1>2. CASE BeginPublish(h, f)
    <2>1. \A at \in {"mark", "move"} : Request(at, f, FALSE, Open) \in RequestRecord
      BY <1>0, RecordTypes DEF Step
    <2> QED BY <1>2, <2>1 DEF TypeOK, BeginPublish, rowVars, accessVars, scanVars
  <1>3. CASE RequestRescan(h, f)
    <2>1. \A at \in {"withdraw", "rescan"} : Request(at, f, FALSE, Open) \in RequestRecord
      BY <1>0, RecordTypes DEF Step
    <2> QED BY <1>3, <2>1 DEF TypeOK, RequestRescan, rowVars, accessVars, scanVars
  <1>4. CASE Delete(h, f)
    <2>1. Request("remove", f, FALSE, Open) \in RequestRecord
      BY <1>0, RecordTypes DEF Step
    <2>2. request' \in [Handler -> RequestRecord]
      BY <1>4, <2>1 DEF TypeOK, Delete
    <2>3. MarkDeleted(f) /\ UNCHANGED <<place, job, unanswered, faults>>
      BY <1>4 DEF Delete
    <2> QED BY <2>2, <2>3 DEF TypeOK, MarkDeleted, accessVars, scanVars
  <1>5. CASE LookUp(h, f)
    <2>1. Request("open", f, FALSE, password[f]) \in RequestRecord
      BY <1>0, RecordTypes DEF Step
    <2> QED BY <1>5, <2>1 DEF TypeOK, LookUp, rowVars, accessVars, scanVars
  <1> QED BY <1>1, <1>2, <1>3, <1>4, <1>5 DEF NewRequest

LEMMA AdministerType ==
    ASSUME IInv, NEW f \in File, Administer(f)
    PROVE  TypeOK'
  <1> USE DEF IInv
  <1>1. CASE UpdateAccessPolicy(f)
    BY <1>1 DEF TypeOK, UpdateAccessPolicy, rowVars, scanVars
  <1>2. CASE AdminQuarantine(f)
    <2>1. Rescannable(f) /\ StartGeneration(f)
      BY <1>2 DEF AdminQuarantine
    <2>2. UNCHANGED <<deleted, accessVars, lapsed, active, place, job, request, unanswered,
                      faults>>
      BY <1>2, <2>1 DEF AdminQuarantine, StartGeneration
    <2> QED BY <2>1, <2>2, GenerationType DEF TypeOK, accessVars
  <1>3. CASE AdminRestore(f)
    BY <1>3 DEF TypeOK, AdminRestore, SetPublished, accessVars, scanVars
  <1>4. CASE AdminDelete(f)
    BY <1>4 DEF TypeOK, AdminDelete, MarkDeleted, accessVars, scanVars
  <1> QED BY <1>1, <1>2, <1>3, <1>4 DEF Administer

LEMMA WorkerStepType ==
    ASSUME IInv, NEW w \in Worker, WorkerStep(w)
    PROVE  TypeOK'
  <1> USE DEF IInv
  <1> DEFINE f == job[w].file
             g == job[w].generation
  <1>0. g \in Generation /\ job[w].verdict \in Verdict
    BY DEF TypeOK, JobRecord
  <1>1. CASE RecoverStaleClaims(w)
    <2>1. "queued" \in Status /\ "quarantined" \in ScanState
      BY DEF Status, ScanState
    <2>2. \A x \in File : [status[x] EXCEPT ![generation[x]] = "queued"] \in [Generation -> Status]
      BY <2>1 DEF TypeOK
    <2>3. /\ status' \in [File -> [Generation -> Status]]
          /\ state' \in [File -> ScanState \cup {"absent"}]
          /\ holder' \in [File -> Worker \cup {None}]
          /\ published' \in [File -> BOOLEAN]
          /\ lapsed' \subseteq File
      BY <1>1, <2>1, <2>2 DEF TypeOK, RecoverStaleClaims
    <2> QED BY <1>1, <2>3 DEF TypeOK, RecoverStaleClaims, accessVars
  <1>2. ASSUME NEW x \in File, ClaimNextScan(w, x) PROVE TypeOK'
    <2>1. generation[x] \in Generation /\ "error" \in Verdict /\ "open" \in JobStep
      BY DEF TypeOK, Verdict, JobStep
    <2>2. Job("open", x, generation[x], "error") \in JobRecord
      BY <2>1, RecordTypes
    <2>3. "processing" \in Status /\ "scanning" \in ScanState
      BY DEF Status, ScanState
    <2> QED BY <1>2, <2>1, <2>2, <2>3 DEF TypeOK, ClaimNextScan, accessVars
  <1>3. CASE OpenQuarantine(w)
    <2>1. job' \in [Worker -> JobRecord]
      BY <1>3, ContinueType DEF OpenQuarantine, JobStep, Verdict
    <2> QED BY <1>3, <2>1 DEF TypeOK, OpenQuarantine, rowVars, accessVars, scanVars
  <1>4. CASE ReturnToQuarantine(w)
    <2>1. job' \in [Worker -> JobRecord]
      BY <1>4, ContinueType DEF ReturnToQuarantine, JobStep, Verdict
    <2>2. place' \in [File -> Place]
      BY <1>4, MoveKeeps DEF ReturnToQuarantine
    <2> QED BY <1>4, <2>1, <2>2 DEF TypeOK, ReturnToQuarantine, rowVars, accessVars, scanVars
  <1>5. CASE ReopenQuarantine(w)
    <2>1. job' \in [Worker -> JobRecord]
      BY <1>5, ContinueType DEF ReopenQuarantine, JobStep, Verdict
    <2> QED BY <1>5, <2>1 DEF TypeOK, ReopenQuarantine, rowVars, accessVars, scanVars
  <1>6. CASE Scan(w)
    <2>1. job' \in [Worker -> JobRecord]
      BY <1>6, ContinueType DEF Scan, JobStep
    <2> QED BY <1>6, <2>1 DEF TypeOK, Scan, rowVars, accessVars, scanVars
  <1>7. CASE CompleteScan(w)
    <2>0. f \in File
      BY <1>7, BusyFile DEF CompleteScan
    <2>1. StateOf(job[w].verdict) \in ScanState /\ job[w].verdict \in Status
      BY <1>0 DEF StateOf, ScanState, Status
    <2> QED BY <1>0, <1>7, <2>0, <2>1, RecordTypes DEF TypeOK, CompleteScan, accessVars
  <1>8. CASE CompleteRefused(w)
    BY <1>8, FaultType, RecordTypes DEF TypeOK, CompleteRefused, rowVars, accessVars, scanVars
  <1> QED BY <1>1, <1>2, <1>3, <1>4, <1>5, <1>6, <1>7, <1>8 DEF WorkerStep

LEMMA FailureType ==
    ASSUME IInv,
           \/ \E h \in Handler : HandlerCrashes(h)
           \/ \E w \in Worker : WorkerCrashes(w)
           \/ \E f \in File : ClaimLapses(f)
    PROVE  TypeOK'
  <1> USE DEF IInv
  <1>1. ASSUME NEW h \in Handler, HandlerCrashes(h) PROVE TypeOK'
    <2>1. request' \in [Handler -> RequestRecord]
      BY <1>1, FinishType DEF HandlerCrashes
    <2> QED BY <1>1, <2>1, FaultType DEF TypeOK, HandlerCrashes, rowVars, accessVars, scanVars
  <1>2. ASSUME NEW w \in Worker, WorkerCrashes(w) PROVE TypeOK'
    BY <1>2, FaultType, RecordTypes DEF TypeOK, WorkerCrashes, rowVars, accessVars, scanVars
  <1>3. ASSUME NEW f \in File, ClaimLapses(f) PROVE TypeOK'
    BY <1>3, FaultType DEF TypeOK, ClaimLapses, rowVars, accessVars
  <1> QED BY <1>1, <1>2, <1>3

LEMMA NextType ==
    ASSUME IInv, [Next]_vars
    PROVE  TypeOK'
  <1>1. CASE UNCHANGED vars
    BY <1>1 DEF IInv, TypeOK, vars, rowVars, accessVars, scanVars
  <1>2. CASE Next
    BY <1>2, RequestStepType, NewRequestType, AdministerType, WorkerStepType, FailureType DEF Next
  <1> QED BY <1>1, <1>2

-----------------------------------------------------------------------------
(* What the steps do to the rows: nothing, or one of seven things.            *)

RowsUnchanged == UNCHANGED <<state, generation, published, deleted, status, active>>


LEMMA RowKinds ==
    ASSUME IInv, [Next]_vars
    PROVE  \/ RowsUnchanged
           \/ \E h \in Handler : At(h, "create") /\ InsertFile(request[h].file)
           \/ \E f \in File : SetPublished(f)
           \/ \E f \in File : Rescannable(f) /\ StartGeneration(f)
           \/ \E f \in File : MarkDeleted(f)
           \/ \E w \in Worker, f \in File : ClaimNextScan(w, f)
           \/ \E w \in Worker : CompleteScan(w)
           \/ \E w \in Worker : RecoverStaleClaims(w)
  <1> USE DEF RowsUnchanged, rowVars, accessVars, scanVars
  <1>1. CASE UNCHANGED vars
    BY <1>1 DEF vars
  <1>2. ASSUME NEW h \in Handler, RequestStep(h)
        PROVE  \/ RowsUnchanged
               \/ At(h, "create") /\ InsertFile(request[h].file)
               \/ \E f \in File : SetPublished(f)
               \/ \E f \in File : Rescannable(f) /\ StartGeneration(f)
    <2>1. CASE MarkPublished(h) \/ MarkUnanswered(h)
      <3>1. request[h].file \in File
        BY <2>1, BusyFile DEF MarkPublished, MarkUnanswered, At
      <3>2. SetPublished(request[h].file)
        BY <2>1 DEF MarkPublished, MarkUnanswered
      <3> QED BY <3>1, <3>2
    <2>2. CASE BeginRescan(h) \/ RescanUnanswered(h)
      <3>1. request[h].file \in File
        BY <2>2, BusyFile DEF BeginRescan, RescanUnanswered, At
      <3> QED BY <2>2, <3>1 DEF BeginRescan, RescanUnanswered
    <2>3. CASE CreateQuarantined(h) \/ CreateUnanswered(h)
      BY <2>3 DEF CreateQuarantined, CreateUnanswered
    <2>4. CASE \/ CreateRefused(h) \/ MoveToPublished(h) \/ MarkRefused(h)
               \/ UndoMove(h) \/ Withdraw(h)
      BY <2>4 DEF CreateRefused, MoveToPublished, MarkRefused, UndoMove, Withdraw
    <2>5. CASE \/ RescanRefused(h) \/ UndoWithdraw(h) \/ RemoveQuarantined(h)
               \/ RemovePublished(h) \/ OpenPublished(h) \/ ReservePublicDownload(h)
               \/ ReserveRefused(h)
      BY <2>5 DEF RescanRefused, UndoWithdraw, RemoveQuarantined, RemovePublished,
                  OpenPublished, ReservePublicDownload, ReserveRefused
    <2> QED BY <1>2, <2>1, <2>2, <2>3, <2>4, <2>5 DEF RequestStep
  <1>3. ASSUME NEW h \in Handler, NEW f \in File, NewRequest(h, f)
        PROVE  RowsUnchanged \/ MarkDeleted(f)
    BY <1>3 DEF NewRequest, WriteQuarantine, BeginPublish, RequestRescan, Delete, LookUp
  <1>4. ASSUME NEW f \in File, Administer(f)
        PROVE  \/ RowsUnchanged \/ SetPublished(f) \/ MarkDeleted(f)
               \/ Rescannable(f) /\ StartGeneration(f)
    BY <1>4 DEF Administer, UpdateAccessPolicy, AdminQuarantine, AdminRestore, AdminDelete
  <1>5. ASSUME NEW w \in Worker, WorkerStep(w)
        PROVE  \/ RowsUnchanged \/ CompleteScan(w) \/ RecoverStaleClaims(w)
               \/ \E f \in File : ClaimNextScan(w, f)
    BY <1>5 DEF WorkerStep, OpenQuarantine, ReturnToQuarantine, ReopenQuarantine, Scan,
                CompleteRefused
  <1>6. ASSUME \/ \E h \in Handler : HandlerCrashes(h)
               \/ \E w \in Worker : WorkerCrashes(w)
               \/ \E f \in File : ClaimLapses(f)
        PROVE  RowsUnchanged
    BY <1>6 DEF HandlerCrashes, WorkerCrashes, ClaimLapses
  <1>7. CASE \E h \in Handler : RequestStep(h)
    BY <1>2, <1>7
  <1>8. CASE \E h \in Handler, f \in File : NewRequest(h, f)
    BY <1>3, <1>8
  <1>9. CASE \E f \in File : Administer(f)
    BY <1>4, <1>9
  <1>10. CASE \E w \in Worker : WorkerStep(w)
    BY <1>5, <1>10
  <1> QED BY <1>1, <1>6, <1>7, <1>8, <1>9, <1>10 DEF Next

RowInv == AbsentRows /\ StateFollowsAttempt /\ PublishedIsClean

(* The steps below leave the set of live files alone, or change it by one.    *)
LEMMA SameLiveFiles ==
    ASSUME IInv, LiveFiles' = LiveFiles, active' = active
    PROVE  FiniteFiles' /\ CounterIsExact'
  BY DEF IInv, FiniteFiles, CounterIsExact

\* What every kind of step guarantees: the row invariants, and that rows neither
\* vanish nor come back.
RowsDone ==
    /\ RowInv' /\ FiniteFiles' /\ CounterIsExact'
    /\ \A x \in File : state[x] # "absent" => state'[x] # "absent"
    /\ \A x \in File : deleted[x] => deleted'[x]

LEMMA UnchangedRows == ASSUME IInv, RowsUnchanged PROVE RowsDone
  <1>1. LiveFiles' = LiveFiles
    BY DEF LiveFiles, Live, RowsUnchanged
  <1>2. RowInv'
    BY DEF IInv, RowInv, AbsentRows, StateFollowsAttempt, PublishedIsClean, RowsUnchanged
  <1> QED BY <1>1, <1>2, SameLiveFiles DEF RowsDone, RowsUnchanged

(* One file gets a state and its attempt of that generation a status: the     *)
(* current generation, or the next one when the current attempt is decided.   *)
LEMMA FollowsStep ==
    ASSUME IInv, NEW f \in File, NEW g \in Generation, NEW s, NEW v,
           state' = [state EXCEPT ![f] = s],
           generation' = [generation EXCEPT ![f] = g],
           status' = [status EXCEPT ![f][g] = v],
           Agree(s, v),
           \/ g = generation[f]
           \/ g = generation[f] + 1 /\ status[f][generation[f]] \in Verdict
    PROVE  StateFollowsAttempt'
  <1> USE DEF IInv
  <1>1. state \in [File -> ScanState \cup {"absent"}] /\ generation \in [File -> Generation]
        /\ status \in [File -> [Generation -> Status]]
    BY DEF TypeOK
  <1>2. \A x \in File : x # f =>
           state'[x] = state[x] /\ generation'[x] = generation[x] /\ status'[x] = status[x]
    BY <1>1
  <1>3. state'[f] = s /\ generation'[f] = g /\ status'[f] = [status[f] EXCEPT ![g] = v]
    BY <1>1
  <1>4. status'[f][g] = v /\ \A i \in Generation : i # g => status'[f][i] = status[f][i]
    BY <1>1, <1>3
  <1>5. generation[f] \in Generation /\ Generation \subseteq Int
    BY <1>1 DEF Generation
  <1>6. \A i \in Generation :
           /\ i < generation[f] => status[f][i] \in Verdict
           /\ i > generation[f] => status[f][i] = "none"
    BY DEF StateFollowsAttempt
  <1>7. \A i \in Generation :
           /\ i < g => status'[f][i] \in Verdict
           /\ i > g => status'[f][i] = "none"
    <2>1. CASE g = generation[f]
      BY <2>1, <1>4, <1>5, <1>6
    <2>2. CASE g = generation[f] + 1 /\ status[f][generation[f]] \in Verdict
      <3>1. ASSUME NEW i \in Generation, i < g PROVE status'[f][i] \in Verdict
        <4>1. i = generation[f] \/ i < generation[f]
          BY <2>2, <3>1, <1>5
        <4>2. i # g
          BY <3>1, <1>5
        <4> QED BY <4>1, <4>2, <2>2, <1>4, <1>6
      <3>2. ASSUME NEW i \in Generation, i > g PROVE status'[f][i] = "none"
        <4>1. i > generation[f] /\ i # g
          BY <2>2, <3>2, <1>5
        <4> QED BY <4>1, <1>4, <1>6
      <3> QED BY <3>1, <3>2
    <2> QED BY <2>1, <2>2
  <1>8. ASSUME NEW x \in File
        PROVE  /\ Agree(state'[x], status'[x][generation'[x]])
               /\ \A i \in Generation :
                     /\ i < generation'[x] => status'[x][i] \in Verdict
                     /\ i > generation'[x] => status'[x][i] = "none"
    <2>1. CASE x = f
      BY <2>1, <1>3, <1>4, <1>7
    <2>2. CASE x # f
      BY <2>2, <1>2 DEF StateFollowsAttempt
    <2> QED BY <2>1, <2>2
  <1> QED BY <1>8 DEF StateFollowsAttempt

LEMMA CreatedRow ==
    ASSUME IInv, NEW h \in Handler, At(h, "create"), InsertFile(request[h].file)
    PROVE  RowsDone /\ \A x \in File : x # request[h].file => state'[x] = state[x]
  <1> DEFINE f == request[h].file
  <1> USE DEF IInv
  <1>1. f \in File /\ state[f] = "absent"
    BY BusyFile DEF At, Requests, RequestOK
  <1>2. generation[f] = 1 /\ ~published[f] /\ ~deleted[f] /\ 1 \in Generation
    BY <1>1, BoundAssumption DEF AbsentRows, Generation
  <1>3. /\ state' = [state EXCEPT ![f] = "quarantined"]
        /\ generation' = [generation EXCEPT ![f] = 1]
        /\ status' = [status EXCEPT ![f][1] = "queued"]
        /\ active' = active + 1 /\ active < MaxFiles
        /\ UNCHANGED <<published, deleted>>
    BY DEF InsertFile
  <1> HIDE DEF f
  <1>4. AbsentRows'
    BY <1>1, <1>3 DEF AbsentRows, TypeOK
  <1>5. StateFollowsAttempt'
    <2>1. Agree("quarantined", "queued")
      BY DEF Agree
    <2> QED BY <1>1, <1>2, <1>3, <2>1, FollowsStep
  <1>6. PublishedIsClean'
    BY <1>1, <1>2, <1>3 DEF PublishedIsClean, TypeOK
  <1>7. LiveFiles' = LiveFiles \cup {f} /\ f \notin LiveFiles
    BY <1>1, <1>2, <1>3 DEF LiveFiles, Live, TypeOK
  <1>8. FiniteFiles' /\ Cardinality(LiveFiles') = Cardinality(LiveFiles) + 1
    BY <1>7, FS_AddElement DEF FiniteFiles
  <1>9. CounterIsExact'
    BY <1>3, <1>8, BoundAssumption DEF CounterIsExact, TypeOK
  <1>10. \A x \in File : x # f => state'[x] = state[x]
    BY <1>3 DEF TypeOK
  <1>11. \A x \in File : state[x] # "absent" => state'[x] # "absent"
    BY <1>1, <1>10
  <1> QED BY <1>3, <1>4, <1>5, <1>6, <1>8, <1>9, <1>10, <1>11 DEF RowsDone, RowInv, f

LEMMA PublishedRow == ASSUME IInv, NEW f \in File, SetPublished(f) PROVE RowsDone
  <1> USE DEF IInv, scanVars
  <1>1. LiveFiles' = LiveFiles
    BY DEF LiveFiles, Live, SetPublished
  <1>2. status[f][generation[f]] = "clean"
    BY DEF SetPublished, StateFollowsAttempt, Agree
  <1>3. AbsentRows' /\ StateFollowsAttempt'
    BY DEF AbsentRows, StateFollowsAttempt, SetPublished, TypeOK, Live
  <1>4. PublishedIsClean'
    BY <1>2 DEF PublishedIsClean, SetPublished, TypeOK, Live
  <1> QED BY <1>1, <1>3, <1>4, SameLiveFiles DEF RowsDone, RowInv, SetPublished

LEMMA RescannedRow ==
    ASSUME IInv, NEW f \in File, Rescannable(f), StartGeneration(f)
    PROVE  RowsDone
  <1> USE DEF IInv
  <1>1. /\ generation[f] \in Generation /\ generation[f] + 1 \in Generation
        /\ state[f] # "absent" /\ ~deleted[f]
    BY BoundAssumption DEF TypeOK, Rescannable, Live, Generation
  <1>2. status[f][generation[f]] \in Verdict
    BY DEF StateFollowsAttempt, Agree, Rescannable, Live, Verdict
  <1>3. LiveFiles' = LiveFiles
    BY <1>1 DEF LiveFiles, Live, StartGeneration, TypeOK
  <1>4. AbsentRows'
    BY <1>1 DEF AbsentRows, StartGeneration, TypeOK
  <1>5. PublishedIsClean'
    BY <1>1 DEF PublishedIsClean, StartGeneration, TypeOK
  <1>9. StateFollowsAttempt'
    <2>1. Agree("quarantined", "queued")
      BY DEF Agree
    <2> QED BY <1>1, <1>2, <2>1, FollowsStep DEF StartGeneration
  <1> QED BY <1>1, <1>3, <1>4, <1>5, <1>9, SameLiveFiles DEF RowsDone, RowInv, StartGeneration, TypeOK

LEMMA DeletedRow == ASSUME IInv, NEW f \in File, MarkDeleted(f) PROVE RowsDone
  <1> USE DEF IInv
  <1>1. AbsentRows' /\ StateFollowsAttempt' /\ PublishedIsClean'
    BY DEF AbsentRows, StateFollowsAttempt, PublishedIsClean, MarkDeleted, Live, scanVars, TypeOK
  <1>2. LiveFiles' = LiveFiles \ {f} /\ f \in LiveFiles
    BY DEF LiveFiles, Live, MarkDeleted, TypeOK
  <1>3. FiniteFiles' /\ Cardinality(LiveFiles') = Cardinality(LiveFiles) - 1
    BY <1>2, FS_RemoveElement DEF FiniteFiles
  <1>4. CounterIsExact'
    BY <1>3, BoundAssumption DEF CounterIsExact, MarkDeleted, TypeOK
  <1> QED BY <1>1, <1>3, <1>4 DEF RowsDone, RowInv, MarkDeleted, TypeOK

LEMMA ClaimedRow ==
    ASSUME IInv, NEW w \in Worker, NEW f \in File, ClaimNextScan(w, f)
    PROVE  RowsDone
  <1> USE DEF IInv
  <1>1. LiveFiles' = LiveFiles
    BY DEF LiveFiles, Live, ClaimNextScan, TypeOK
  <1>2. AbsentRows' /\ PublishedIsClean'
    BY DEF AbsentRows, PublishedIsClean, ClaimNextScan, Live, TypeOK
  <1>3. StateFollowsAttempt'
    <2>1. Agree("scanning", "processing")
      BY DEF Agree
    <2>2. generation[f] \in Generation /\ generation = [generation EXCEPT ![f] = generation[f]]
      BY DEF TypeOK
    <2>3. /\ state' = [state EXCEPT ![f] = "scanning"] /\ generation' = generation
          /\ status' = [status EXCEPT ![f][generation[f]] = "processing"]
      BY DEF ClaimNextScan
    <2> QED BY <2>1, <2>2, <2>3, FollowsStep
  <1> QED BY <1>1, <1>2, <1>3, SameLiveFiles DEF RowsDone, RowInv, ClaimNextScan, TypeOK

LEMMA DecidedRow == ASSUME IInv, NEW w \in Worker, CompleteScan(w) PROVE RowsDone
  <1> DEFINE f == job[w].file
             v == job[w].verdict
  <1> USE DEF IInv
  <1>1. f \in File /\ v \in Verdict
    BY BusyFile DEF CompleteScan, TypeOK, JobRecord
  <1>2. /\ generation[f] = job[w].generation /\ state[f] = "scanning" /\ ~deleted[f]
        /\ generation[f] \in Generation
    BY <1>1 DEF CompleteScan, Completable, Live, TypeOK
  <1>3. /\ state' = [state EXCEPT ![f] = StateOf(v)]
        /\ published' = [published EXCEPT ![f] = FALSE]
        /\ status' = [status EXCEPT ![f][generation[f]] = v]
        /\ UNCHANGED <<generation, deleted, active>>
    BY <1>2 DEF CompleteScan
  <1> HIDE DEF f, v
  <1>4. StateOf(v) # "absent" /\ Agree(StateOf(v), v)
    BY <1>1 DEF StateOf, Agree, Verdict
  <1>5. LiveFiles' = LiveFiles
    BY <1>1, <1>2, <1>3, <1>4 DEF LiveFiles, Live, TypeOK
  <1>6. AbsentRows' /\ PublishedIsClean'
    BY <1>1, <1>2, <1>3, <1>4 DEF AbsentRows, PublishedIsClean, TypeOK
  <1>7. StateFollowsAttempt'
    <2>1. generation = [generation EXCEPT ![f] = generation[f]]
      BY DEF TypeOK
    <2> QED BY <1>1, <1>2, <1>3, <1>4, <2>1, FollowsStep
  <1> QED BY <1>1, <1>2, <1>3, <1>4, <1>5, <1>6, <1>7, SameLiveFiles DEF RowsDone, RowInv, TypeOK

LEMMA RecoveredRows == ASSUME IInv, NEW w \in Worker, RecoverStaleClaims(w) PROVE RowsDone
  <1> USE DEF IInv
  <1>1. \A x \in Stale : x \in File /\ state[x] = "scanning" /\ ~deleted[x]
    BY DEF Stale, Live, TypeOK
  <1>2. \A x \in File : state'[x] = "absent" <=> state[x] = "absent"
    BY <1>1 DEF RecoverStaleClaims
  <1>3. LiveFiles' = LiveFiles
    BY <1>2 DEF LiveFiles, Live, RecoverStaleClaims
  <1>4. AbsentRows' /\ PublishedIsClean'
    BY <1>1 DEF AbsentRows, PublishedIsClean, RecoverStaleClaims
  <1>5. StateFollowsAttempt'
    <2>1. ASSUME NEW x \in File
          PROVE  /\ Agree(state'[x], status'[x][generation'[x]])
                 /\ \A i \in Generation :
                       /\ i < generation'[x] => status'[x][i] \in Verdict
                       /\ i > generation'[x] => status'[x][i] = "none"
      <3>1. generation' = generation /\ generation[x] \in Generation
            /\ status[x] \in [Generation -> Status]
        BY DEF RecoverStaleClaims, TypeOK
      <3>2. CASE x \in Stale
        <4>1. state'[x] = "quarantined"
              /\ status'[x] = [status[x] EXCEPT ![generation[x]] = "queued"]
          BY <3>2 DEF RecoverStaleClaims
        <4>2. /\ status'[x][generation[x]] = "queued"
              /\ \A i \in Generation : i # generation[x] => status'[x][i] = status[x][i]
          BY <3>1, <4>1
        <4>3. Agree("quarantined", "queued")
          BY DEF Agree
        <4> QED BY <3>1, <4>1, <4>2, <4>3 DEF StateFollowsAttempt, Generation
      <3>3. CASE x \notin Stale
        <4>1. state'[x] = state[x] /\ status'[x] = status[x]
          BY <3>3 DEF RecoverStaleClaims
        <4> QED BY <3>1, <4>1 DEF StateFollowsAttempt
      <3> QED BY <3>2, <3>3
    <2> QED BY <2>1 DEF StateFollowsAttempt
  <1> QED BY <1>2, <1>3, <1>4, <1>5, SameLiveFiles DEF RowsDone, RowInv, RecoverStaleClaims

LEMMA NextRows == ASSUME IInv, [Next]_vars PROVE RowsDone
  BY NextType, RowKinds, UnchangedRows, CreatedRow, PublishedRow, RescannedRow, DeletedRow,
     ClaimedRow, DecidedRow, RecoveredRows

-----------------------------------------------------------------------------
(* Requests: what a step does to the file of the request that takes it, and   *)
(* what it leaves alone elsewhere.                                            *)

Elsewhere(f) ==
    \A x \in File : x # f =>
        /\ state[x] = "absent" => state'[x] = "absent"
        /\ place[x] = "quarantine" => place'[x] = "quarantine"
        /\ place[x] # "none" => place'[x] # "none"

Here(f) ==
    state'[f] # "absent" /\ ~deleted'[f] /\ f \notin unanswered' => place'[f] # "none"

LEMMA BytesKept ==
    ASSUME IInv, RowsDone, NEW f \in File, Elsewhere(f), Here(f), unanswered \subseteq unanswered'
    PROVE  BytesSurvive'
  <1>1. ASSUME NEW x \in File, x # f, state'[x] # "absent", ~deleted'[x], x \notin unanswered'
        PROVE  place'[x] # "none"
    <2>1. Live(x)
      BY <1>1 DEF Elsewhere, RowsDone, Live
    <2> QED BY <1>1, <2>1 DEF Elsewhere, IInv, BytesSurvive
  <1> QED BY <1>1 DEF Here, BytesSurvive, Live

(* The step of one request keeps the others as they should be.                *)
LEMMA OthersKept ==
    ASSUME IInv, RowsDone, NEW h \in Handler, Elsewhere(request[h].file),
           \A k \in Handler : k # h => request'[k] = request[k],
           request'[h].file \in {request[h].file, None},
           unanswered \subseteq unanswered'
    PROVE  \A k \in Handler : k # h => RequestOK(k)'
  <1> SUFFICES ASSUME NEW k \in Handler, k # h PROVE RequestOK(k)'
    OBVIOUS
  <1>1. request'[k] = request[k] /\ RequestOK(k)
    BY DEF IInv, Requests
  <1>2. ASSUME ~At(k, "idle"), state[request[k].file] = "absent"
        PROVE  /\ request[k].file \in File /\ request[k].file # request[h].file
               /\ \A j \in Handler : request'[j].file = request[k].file => j = k
    <2>1. request[k].file \in File
      BY <1>2, BusyFile
    <2>2. request[k].file # request[h].file
      BY <1>1, <1>2 DEF RequestOK
    <2>3. request'[h].file # request[k].file
      BY <2>1, <2>2, FileAssumption
    <2> QED BY <1>1, <1>2, <2>1, <2>2, <2>3 DEF RequestOK
  <1>3. ~At(k, "idle") => request[k].file \in File
    BY BusyFile
  <1> QED BY <1>1, <1>2, <1>3 DEF RequestOK, At, Elsewhere, RowsDone, Removing

LEMMA FinishedRequest ==
    ASSUME IInv, RowsDone, NEW h \in Handler, Elsewhere(request[h].file), Finish(h),
           unanswered \subseteq unanswered'
    PROVE  Requests'
  <1>1. request'[h] = NoRequest /\ \A k \in Handler : k # h => request'[k] = request[k]
    BY DEF Finish, IInv, TypeOK
  <1>2. RequestOK(h)'
    BY <1>1 DEF RequestOK, NoRequest, Request, At, Removing
  <1>3. request'[h].file = None
    BY <1>1 DEF NoRequest, Request
  <1> QED BY <1>1, <1>2, <1>3, OthersKept DEF Requests

LEMMA AdvancedRequest ==
    ASSUME IInv, RowsDone, NEW h \in Handler, NEW at, NEW m, Advance(h, at, m),
           Elsewhere(request[h].file), unanswered \subseteq unanswered',
           ~At(h, "idle"), at \notin {"idle", "create"},
           state'[request[h].file] = "absent" => at \in Removing,
           at \in Removing =>
              \/ At(h, "remove") /\ state' = state
              \/ state'[request[h].file] = "absent" \/ request[h].file \in unanswered'
    PROVE  Requests'
  <1>1. /\ request'[h].at = at /\ request'[h].file = request[h].file
        /\ \A k \in Handler : k # h => request'[k] = request[k]
    BY DEF Advance, Request, IInv, TypeOK
  <1>2. RequestOK(h) /\ request[h].file \in File
    BY BusyFile DEF IInv, Requests
  <1>3. \A k \in Handler : request'[k].file = request[k].file
    BY <1>1
  <1>4. RequestOK(h)'
    BY <1>1, <1>2, <1>3, FileAssumption DEF RequestOK, At, RowsDone, Removing
  <1> QED BY <1>1, <1>4, OthersKept DEF Requests

-----------------------------------------------------------------------------
(* The steps of a request, by what they do to the storage.                    *)

LEMMA MoveSteps ==
    ASSUME IInv, RowsDone, NEW h \in Handler,
           MoveToPublished(h) \/ UndoMove(h) \/ Withdraw(h) \/ UndoWithdraw(h)
    PROVE  Requests' /\ BytesSurvive'
  <1> DEFINE f == request[h].file
  <1>1. ~At(h, "idle") /\ state[f] # "absent" /\ f \in File
    BY BusyFile DEF MoveToPublished, UndoMove, Withdraw, UndoWithdraw, At, IInv, Requests,
           RequestOK, Removing
  <1>2. (PublishBytes(f) \/ ReturnBytes(f)) /\ UNCHANGED <<state, deleted, unanswered>>
    BY DEF MoveToPublished, UndoMove, Withdraw, UndoWithdraw, rowVars
  <1>3. \A x \in File : x # f => place'[x] = place[x]
    BY <1>2 DEF PublishBytes, ReturnBytes, IInv, TypeOK
  <1>4. Elsewhere(f)
    BY <1>2, <1>3 DEF Elsewhere
  <1>5. Here(f)
    BY <1>1, <1>2, MoveKeeps DEF Here, IInv, BytesSurvive, Live
  <1>6. Finish(h) \/ Advance(h, "mark", TRUE) \/ Advance(h, "rescan", TRUE)
    BY DEF MoveToPublished, UndoMove, Withdraw, UndoWithdraw
  <1>7. Requests'
    BY <1>1, <1>2, <1>4, <1>6, FinishedRequest, AdvancedRequest DEF Removing
  <1> QED BY <1>1, <1>2, <1>4, <1>5, <1>7, BytesKept

LEMMA RemoveSteps ==
    ASSUME IInv, RowsDone, NEW h \in Handler,
           RemoveQuarantined(h) \/ RemovePublished(h)
    PROVE  Requests' /\ BytesSurvive'
  <1> DEFINE f == request[h].file
  <1>1. ~At(h, "idle") /\ f \in File
    BY BusyFile DEF RemoveQuarantined, RemovePublished, At
  <1>2. /\ \E d \in Place : RemoveBytes(f, d)
        /\ UNCHANGED <<state, deleted, unanswered>>
    BY DEF RemoveQuarantined, RemovePublished, rowVars, Place
  <1>3. Elsewhere(f)
    BY <1>2, RemoveKeepsOthers DEF Elsewhere, IInv
  <1>4. state[f] = "absent" \/ deleted[f] \/ f \in unanswered
    BY DEF RemoveQuarantined, RemovePublished, IInv, Requests, RequestOK, At, Removing
  <1>5. Here(f)
    BY <1>2, <1>4 DEF Here
  <1>6. Finish(h) \/ (At(h, "remove") /\ Advance(h, "remove_published", FALSE))
    BY DEF RemoveQuarantined, RemovePublished
  <1>7. Requests'
    <2>1. CASE At(h, "remove") /\ Advance(h, "remove_published", FALSE)
      BY <2>1, <1>1, <1>2, <1>3, AdvancedRequest DEF Removing
    <2> QED BY <2>1, <1>2, <1>3, <1>6, FinishedRequest
  <1> QED BY <1>1, <1>2, <1>3, <1>5, <1>7, BytesKept

LEMMA RowSteps ==
    ASSUME IInv, RowsDone, NEW h \in Handler,
           \/ CreateQuarantined(h) \/ CreateUnanswered(h) \/ CreateRefused(h)
           \/ MarkPublished(h) \/ MarkUnanswered(h) \/ MarkRefused(h)
           \/ BeginRescan(h) \/ RescanUnanswered(h) \/ RescanRefused(h)
           \/ OpenPublished(h) \/ ReservePublicDownload(h) \/ ReserveRefused(h)
    PROVE  Requests' /\ BytesSurvive'
  <1> USE DEF CreateQuarantined, CreateUnanswered, CreateRefused, MarkPublished, MarkUnanswered,
              MarkRefused, BeginRescan, RescanUnanswered, RescanRefused, OpenPublished,
              ReservePublicDownload, ReserveRefused
  <1> DEFINE f == request[h].file
  <1>1. ~At(h, "idle")
    BY DEF At
  <1>2. f \in File /\ RequestOK(h)
    BY <1>1, BusyFile DEF IInv, Requests
  <1>3. place' = place /\ unanswered \subseteq unanswered'
    OBVIOUS
  <1>4. state' = state \/ \E s : state' = [state EXCEPT ![f] = s]
    BY DEF StartGeneration, InsertFile, SetPublished, rowVars
  <1>5. Elsewhere(f)
    BY <1>3, <1>4 DEF Elsewhere, IInv, TypeOK
  <1>6. Here(f)
    <2>1. CASE CreateQuarantined(h) \/ CreateUnanswered(h)
      BY <2>1, <1>2, <1>3 DEF RequestOK, Here
    <2>2. CASE CreateRefused(h)
      BY <2>2, <1>2, <1>3 DEF rowVars, Here, RequestOK
    <2>3. CASE request[h].at \notin Removing \cup {"create"}
      BY <2>3, <1>1, <1>2, <1>3 DEF RequestOK, Here, IInv, BytesSurvive, Live, RowsDone
    <2> QED BY <2>1, <2>2, <2>3 DEF At, Removing
  <1>7. \/ Finish(h)
        \/ CreateRefused(h) \/ CreateUnanswered(h)
        \/ /\ request[h].at \notin Removing \cup {"create"}
           /\ \E at \in {"return", "republish", "reserve"}, m \in BOOLEAN : Advance(h, at, m)
    BY DEF AnswerMarkError, AnswerRescanError, At, Removing
  <1>8. Requests'
    <2>1. CASE Finish(h)
      BY <2>1, <1>3, <1>5, FinishedRequest
    <2>2. CASE CreateRefused(h)
      <3>1. state'[f] = "absent" /\ Advance(h, "remove", FALSE)
        BY <2>2, <1>2 DEF rowVars, RequestOK
      <3> QED BY <3>1, <1>1, <1>3, <1>5, AdvancedRequest DEF Removing
    <2>3. CASE CreateUnanswered(h)
      <3>1. f \in unanswered' /\ Advance(h, "remove", FALSE)
        BY <2>3
      <3> QED BY <3>1, <1>1, <1>3, <1>5, AdvancedRequest DEF Removing
    <2>4. ASSUME request[h].at \notin Removing \cup {"create"},
                 NEW at \in {"return", "republish", "reserve"}, NEW m \in BOOLEAN,
                 Advance(h, at, m)
          PROVE  Requests'
      <3>1. state'[f] # "absent"
        BY <2>4, <1>1, <1>2 DEF RequestOK, RowsDone
      <3> QED BY <3>1, <2>4, <1>1, <1>3, <1>5, AdvancedRequest DEF Removing
    <2> QED BY <1>7, <2>1, <2>2, <2>3, <2>4
  <1> QED BY <1>2, <1>3, <1>5, <1>6, <1>8, BytesKept

(* A new request of a handler that had none.                                  *)
LEMMA NewRequestKept ==
    ASSUME IInv, RowsDone, NEW h \in Handler, NEW f \in File, NewRequest(h, f)
    PROVE  Requests' /\ BytesSurvive'
  <1>1. /\ At(h, "idle")
        /\ request'[h].file = f
        /\ request'[h].at \in Step \ {"idle"}
        /\ \A k \in Handler : k # h => request'[k] = request[k]
    BY DEF NewRequest, WriteQuarantine, BeginPublish, RequestRescan, Delete, LookUp, Request,
           IInv, TypeOK, Step
  <1>2. /\ state' = state /\ unanswered' = unanswered
        /\ \A x \in File : place[x] # "none" => place'[x] = place[x]
    BY DEF NewRequest, WriteQuarantine, BeginPublish, RequestRescan, Delete, LookUp, rowVars,
           MarkDeleted, IInv, TypeOK
  <1>3. \/ /\ request'[h].at = "create" /\ place'[f] = "quarantine" /\ state[f] = "absent"
           /\ \A k \in Handler : request[k].file # f
        \/ /\ request'[h].at # "create" /\ state[f] # "absent"
           /\ request'[h].at \in Removing => deleted'[f]
    <2>1. CASE WriteQuarantine(h, f)
      BY <2>1 DEF WriteQuarantine, Request, IInv, TypeOK
    <2>2. CASE BeginPublish(h, f) \/ RequestRescan(h, f) \/ LookUp(h, f)
      <3>1. state[f] # "absent"
        BY <2>2 DEF BeginPublish, RequestRescan, LookUp, Live, Shared
      <3>2. request'[h].at \in {"mark", "move", "withdraw", "rescan", "open"}
        BY <2>2 DEF BeginPublish, RequestRescan, LookUp, Request, IInv, TypeOK
      <3> QED BY <3>1, <3>2 DEF Removing
    <2>3. CASE Delete(h, f)
      BY <2>3 DEF Delete, MarkDeleted, Live, Request, IInv, TypeOK
    <2> QED BY <2>1, <2>2, <2>3 DEF NewRequest
  <1>4. RequestOK(h)'
    BY <1>1, <1>2, <1>3, FileAssumption DEF RequestOK, At, Removing
  <1>5. ASSUME NEW k \in Handler, k # h PROVE RequestOK(k)'
    <2>1. request'[k] = request[k] /\ RequestOK(k) /\ (~At(k, "idle") => request[k].file \in File)
      BY <1>1, <1>5, BusyFile DEF IInv, Requests
    <2>2. ASSUME ~At(k, "idle"), state[request[k].file] = "absent"
          PROVE  \A j \in Handler : request'[j].file = request[k].file => j = k
      <3>1. request[k].file # f
        BY <1>3, <2>2
      <3> QED BY <1>1, <2>1, <2>2, <3>1 DEF RequestOK
    <2> QED BY <1>2, <2>1, <2>2 DEF RequestOK, At, RowsDone, Removing
  <1>6. BytesSurvive'
    BY <1>2 DEF BytesSurvive, IInv, Live, RowsDone
  <1> QED BY <1>4, <1>5, <1>6 DEF Requests

(* Steps of workers, administrators, crashes and time.                        *)
LEMMA RequestsUntouched ==
    ASSUME IInv, RowsDone, request' = request, unanswered' = unanswered,
           \A x \in File : state[x] = "absent" => state'[x] = "absent",
           place' = place \/ \E f \in File : ReturnBytes(f)
    PROVE  Requests' /\ BytesSurvive'
  <1>1. /\ \A x \in File : place[x] = "quarantine" => place'[x] = "quarantine"
        /\ \A x \in File : place[x] # "none" => place'[x] # "none"
    BY DEF ReturnBytes, IInv, TypeOK
  <1>2. ASSUME NEW k \in Handler PROVE RequestOK(k)'
    BY <1>1, BusyFile DEF RequestOK, At, IInv, Requests, RowsDone, Removing
  <1>3. BytesSurvive'
    BY <1>1 DEF BytesSurvive, Live, IInv, RowsDone
  <1> QED BY <1>2, <1>3 DEF Requests

LEMMA JobsKept == ASSUME IInv, [Next]_vars PROVE Jobs'
  <1> USE DEF IInv
  <1>1. CASE job' = job
    BY <1>1 DEF Jobs
  <1>2. ASSUME NEW w \in Worker, job' = [job EXCEPT ![w] = NoJob]
        PROVE  Jobs'
    BY <1>2 DEF Jobs, NoJob, Job, TypeOK
  <1>3. ASSUME NEW w \in Worker, NEW at, NEW f \in File, NEW g, NEW v,
               at # "idle", job' = [job EXCEPT ![w] = Job(at, f, g, v)]
        PROVE  Jobs'
    BY <1>3, FileAssumption DEF Jobs, Job, TypeOK
  <1>4. ASSUME NEW w \in Worker, WorkerStep(w) PROVE Jobs'
    <2>1. CASE RecoverStaleClaims(w)
      BY <2>1, <1>1 DEF RecoverStaleClaims
    <2>2. ASSUME NEW f \in File, ClaimNextScan(w, f) PROVE Jobs'
      BY <2>2, <1>3 DEF ClaimNextScan
    <2>3. CASE OpenQuarantine(w) \/ ReturnToQuarantine(w) \/ ReopenQuarantine(w) \/ Scan(w)
      <3>1. job[w].file \in File
        BY <2>3, BusyFile DEF OpenQuarantine, ReturnToQuarantine, ReopenQuarantine, Scan
      <3>2. \E at \in JobStep \ {"idle"}, v \in Verdict : Continue(w, at, v)
        BY <2>3 DEF OpenQuarantine, ReturnToQuarantine, ReopenQuarantine, Scan, JobStep, Verdict
      <3> QED BY <3>1, <3>2, <1>3 DEF Continue
    <2>4. CASE CompleteScan(w) \/ CompleteRefused(w)
      BY <2>4, <1>2 DEF CompleteScan, CompleteRefused
    <2> QED BY <1>4, <2>1, <2>2, <2>3, <2>4 DEF WorkerStep
  <1>5. ASSUME NEW w \in Worker, WorkerCrashes(w) PROVE Jobs'
    BY <1>2, <1>5 DEF WorkerCrashes
  <1>6. ASSUME NEW h \in Handler, RequestStep(h) \/ HandlerCrashes(h) PROVE job' = job
    BY <1>6 DEF HandlerCrashes, RequestStep, CreateQuarantined, CreateUnanswered, CreateRefused,
       MoveToPublished, MarkPublished, MarkUnanswered, MarkRefused, UndoMove, Withdraw,
       BeginRescan, RescanUnanswered, RescanRefused, UndoWithdraw, RemoveQuarantined,
       RemovePublished, OpenPublished, ReservePublicDownload, ReserveRefused
  <1>7. ASSUME NEW f \in File,
               (\E h \in Handler : NewRequest(h, f)) \/ Administer(f) \/ ClaimLapses(f)
        PROVE  job' = job
    BY <1>7 DEF NewRequest, WriteQuarantine, BeginPublish, RequestRescan, Delete, LookUp,
       Administer, UpdateAccessPolicy, AdminQuarantine, AdminRestore, AdminDelete, ClaimLapses
  <1> QED BY <1>1, <1>4, <1>5, <1>6, <1>7 DEF Next, vars

(* The inductive step.                                                        *)
LEMMA NextRequests ==
    ASSUME IInv, RowsDone, [Next]_vars
    PROVE  Requests' /\ BytesSurvive'
  <1>1. ASSUME NEW h \in Handler, RequestStep(h) PROVE Requests' /\ BytesSurvive'
    BY <1>1, MoveSteps, RemoveSteps, RowSteps DEF RequestStep
  <1>2. ASSUME NEW h \in Handler, HandlerCrashes(h) PROVE Requests' /\ BytesSurvive'
    <2>1. UNCHANGED <<state, deleted, place, unanswered>> /\ Finish(h)
      BY <1>2 DEF HandlerCrashes, rowVars
    <2>2. Elsewhere(request[h].file)
      BY <2>1 DEF Elsewhere
    <2>3. BytesSurvive'
      BY <2>1 DEF IInv, BytesSurvive, Live
    <2> QED BY <2>1, <2>2, <2>3, FinishedRequest
  <1>3. ASSUME NEW h \in Handler, NEW f \in File, NewRequest(h, f)
        PROVE  Requests' /\ BytesSurvive'
    BY <1>3, NewRequestKept
  <1>4. ASSUME NEW f \in File, Administer(f) \/ ClaimLapses(f)
        PROVE  Requests' /\ BytesSurvive'
    <2>1. request' = request /\ place' = place /\ unanswered' = unanswered
      BY <1>4 DEF Administer, UpdateAccessPolicy, AdminQuarantine, AdminRestore, AdminDelete,
                  ClaimLapses
    <2>2. \A x \in File : state[x] = "absent" => state'[x] = "absent"
      BY <1>4 DEF Administer, UpdateAccessPolicy, AdminQuarantine, AdminRestore, AdminDelete,
                  ClaimLapses, StartGeneration, SetPublished, MarkDeleted, Rescannable, Live,
                  rowVars, IInv, TypeOK
    <2> QED BY <2>1, <2>2, RequestsUntouched
  <1>5. ASSUME NEW w \in Worker, WorkerStep(w) \/ WorkerCrashes(w)
        PROVE  Requests' /\ BytesSurvive'
    <2>1. /\ request' = request /\ unanswered' = unanswered
          /\ place' = place \/ \E f \in File : ReturnBytes(f)
      <3>1. ReturnToQuarantine(w) => job[w].file \in File
        BY BusyFile DEF ReturnToQuarantine
      <3> QED BY <1>5, <3>1
              DEF WorkerCrashes, WorkerStep, RecoverStaleClaims, ClaimNextScan, OpenQuarantine,
                  ReturnToQuarantine, ReopenQuarantine, Scan, CompleteScan, CompleteRefused
    <2>2. \A x \in File : state[x] = "absent" => state'[x] = "absent"
      <3>1. CASE RecoverStaleClaims(w)
        BY <3>1 DEF RecoverStaleClaims, Stale
      <3>2. ASSUME NEW f \in File, ClaimNextScan(w, f)
            PROVE  \A x \in File : state[x] = "absent" => state'[x] = "absent"
        BY <3>2 DEF ClaimNextScan, IInv, TypeOK
      <3>3. CASE CompleteScan(w)
        BY <3>3 DEF CompleteScan, Completable, IInv, TypeOK
      <3> QED BY <1>5, <3>1, <3>2, <3>3
              DEF WorkerCrashes, WorkerStep, OpenQuarantine, ReturnToQuarantine,
                  ReopenQuarantine, Scan, CompleteRefused, rowVars
    <2> QED BY <2>1, <2>2, RequestsUntouched
  <1>6. CASE UNCHANGED vars
    <2>1. request' = request /\ place' = place /\ state' = state /\ unanswered' = unanswered
      BY <1>6 DEF vars, rowVars
    <2> QED BY <2>1, RequestsUntouched
  <1> QED BY <1>1, <1>2, <1>3, <1>4, <1>5, <1>6 DEF Next

LEMMA Step_IInv == ASSUME IInv, [Next]_vars PROVE IInv'
  BY NextType, NextRows, NextRequests, JobsKept DEF IInv, RowsDone, RowInv

-----------------------------------------------------------------------------
\* The inductive invariant holds in every reachable state.
THEOREM FilesInvariance == Spec => []IInv
  BY Start, Step_IInv, PTL DEF Spec

\* Every variable keeps its type.
THEOREM FileTypeCorrect == Spec => []TypeOK
  <1>1. IInv => TypeOK
    BY DEF IInv
  <1> QED BY <1>1, FilesInvariance, PTL

\* The state of a file is that of the attempt of its current generation
\* (store.go: CompleteScan and RecoverStaleClaims, resource_lifecycle.go: BeginRescan, one transaction
\* each): no late verdict of an earlier generation decides it.
THEOREM VerdictsMatchFiles == Spec => []StateFollowsAttempt
  <1>1. IInv => StateFollowsAttempt
    BY DEF IInv
  <1> QED BY <1>1, FilesInvariance, PTL

\* Only files found clean in their current generation are published, although
\* MarkPublished and the administrator's restore race with scans and deletions.
THEOREM PublishedFilesAreClean == Spec => []PublishedIsClean
  <1>1. IInv => PublishedIsClean
    BY DEF IInv
  <1> QED BY <1>1, FilesInvariance, PTL

\* No order of moves, undone moves, removals, crashes and failed transactions loses a
\* live file's bytes, and a lost answer loses them at an upload's commit only, where
\* httpapi_upload.go removes the bytes of the row it has inserted.
THEOREM BytesAreNeverLost == Spec => []BytesSurvive
  <1>1. IInv => BytesSurvive
    BY DEF IInv
  <1> QED BY <1>1, FilesInvariance, PTL

\* The workspace counter that admits uploads is exact and within the quota,
\* whoever deletes the files and however often.
THEOREM CounterMatchesFiles == Spec => []CounterIsExact
  <1>1. IInv => CounterIsExact
    BY DEF IInv
  <1> QED BY <1>1, FilesInvariance, PTL

-----------------------------------------------------------------------------
(* The two action properties: which steps decide an attempt, and which count  *)
(* a download.                                                                *)

LEMMA OnlyHolderSteps ==
    ASSUME IInv, [Next]_vars, NEW f \in File, NEW g \in Generation,
           status[f][g] \notin Verdict, status'[f][g] \in Verdict
    PROVE  /\ holder[f] # None
           /\ job[holder[f]].at = "complete" /\ job[holder[f]].file = f
           /\ job[holder[f]].verdict = status'[f][g]
  <1> USE DEF IInv
  <1>1. ASSUME NEW w \in Worker, CompleteScan(w)
        PROVE  /\ holder[f] # None
               /\ job[holder[f]].at = "complete" /\ job[holder[f]].file = f
               /\ job[holder[f]].verdict = status'[f][g]
    <2>1. status' = [status EXCEPT ![job[w].file][job[w].generation] = job[w].verdict]
      BY <1>1 DEF CompleteScan
    <2>2. job[w].file = f /\ job[w].generation = g
      BY <2>1 DEF TypeOK
    <2>3. holder[f] = w /\ job[w].at = "complete"
      BY <1>1, <2>2 DEF CompleteScan, Completable
    <2>4. status'[f][g] = job[w].verdict
      BY <2>1, <2>2 DEF TypeOK
    <2> QED BY <2>2, <2>3, <2>4, FileAssumption
  <1>2. "queued" \notin Verdict /\ "processing" \notin Verdict
    BY DEF Verdict
  <1>3. RowsUnchanged \/ (\E x \in File : SetPublished(x)) \/ (\E x \in File : MarkDeleted(x))
        => FALSE
    BY DEF RowsUnchanged, SetPublished, MarkDeleted, scanVars
  <1>4. ASSUME NEW x, NEW i, NEW v, v \notin Verdict, status' = [status EXCEPT ![x][i] = v]
        PROVE  FALSE
    BY <1>4 DEF TypeOK
  <1>5. ASSUME NEW h \in Handler, InsertFile(request[h].file) PROVE FALSE
    BY <1>2, <1>4, <1>5 DEF InsertFile
  <1>6. ASSUME NEW x \in File, StartGeneration(x) PROVE FALSE
    BY <1>2, <1>4, <1>6 DEF StartGeneration
  <1>7. ASSUME NEW w \in Worker, NEW x \in File, ClaimNextScan(w, x) PROVE FALSE
    BY <1>2, <1>4, <1>7 DEF ClaimNextScan
  <1>8. ASSUME NEW w \in Worker, RecoverStaleClaims(w) PROVE FALSE
    <2>1. status'[f] = status[f] \/ status'[f] = [status[f] EXCEPT ![generation[f]] = "queued"]
      BY <1>8 DEF RecoverStaleClaims
    <2> QED BY <1>2, <2>1 DEF TypeOK
  <1> QED BY RowKinds, <1>1, <1>3, <1>5, <1>6, <1>7, <1>8

\* An attempt is decided by the worker that holds its claim, with the verdict that
\* worker reached: a worker whose lease ended decides nothing.
THEOREM OnlyTheHolderDecides == Spec => OnlyHolderDecides
  <1>1. IInv /\ [Next]_vars =>
           [\A f \in File, g \in Generation :
              status[f][g] \notin Verdict /\ status'[f][g] \in Verdict =>
                 /\ holder[f] # None
                 /\ job[holder[f]].at = "complete" /\ job[holder[f]].file = f
                 /\ job[holder[f]].verdict = status'[f][g]]_vars
    BY OnlyHolderSteps
  <1> QED BY <1>1, FilesInvariance, PTL DEF Spec, OnlyHolderDecides

LEMMA CountingSteps ==
    ASSUME IInv, [Next]_vars, NEW f \in File, downloads'[f] # downloads[f]
    PROVE  \E h \in Handler : ReservePublicDownload(h) /\ request[h].file = f
  <1> USE DEF rowVars, accessVars, scanVars
  <1>1. CASE UNCHANGED vars
    BY <1>1 DEF vars
  <1>2. ASSUME NEW h \in Handler, RequestStep(h)
        PROVE  ReservePublicDownload(h) /\ request[h].file = f
    <2>1. ReservePublicDownload(h) \/ downloads' = downloads
      BY <1>2 DEF RequestStep, CreateQuarantined, CreateUnanswered, InsertFile, CreateRefused,
         MoveToPublished, MarkPublished, MarkUnanswered, SetPublished, MarkRefused, UndoMove,
         Withdraw, BeginRescan, RescanUnanswered, StartGeneration, RescanRefused,
         UndoWithdraw, RemoveQuarantined, RemovePublished, OpenPublished, ReserveRefused
    <2> QED BY <2>1 DEF ReservePublicDownload, IInv, TypeOK
  <1>3. ASSUME \/ \E h \in Handler : HandlerCrashes(h)
               \/ \E h \in Handler, x \in File : NewRequest(h, x)
               \/ \E x \in File : Administer(x) \/ ClaimLapses(x)
               \/ \E w \in Worker : WorkerStep(w) \/ WorkerCrashes(w)
        PROVE  downloads' = downloads
    BY <1>3 DEF HandlerCrashes, NewRequest, WriteQuarantine, BeginPublish, RequestRescan, Delete,
       LookUp, MarkDeleted, Administer, UpdateAccessPolicy, AdminQuarantine, StartGeneration,
       AdminRestore, SetPublished, AdminDelete, ClaimLapses, WorkerCrashes, WorkerStep,
       RecoverStaleClaims,
       ClaimNextScan, OpenQuarantine, ReturnToQuarantine, ReopenQuarantine, Scan,
       CompleteScan, CompleteRefused
  <1> QED BY <1>1, <1>2, <1>3 DEF Next

\* A download is counted only when the reservation finds the file live, published
\* and clean, the limit not reached and the password in force proven, however long
\* ago the visitor was checked.
THEOREM DownloadsWereAuthorised == Spec => DownloadsAreAuthorised
  <1>1. ASSUME IInv, [Next]_vars, NEW f \in File, downloads'[f] # downloads[f]
        PROVE  /\ downloads'[f] = downloads[f] + 1
               /\ Live(f) /\ published[f] /\ status[f][generation[f]] = "clean"
               /\ limit[f] = 0 \/ downloads'[f] <= limit[f]
               /\ \E h \in Handler :
                     /\ At(h, "reserve") /\ request[h].file = f
                     /\ password[f] # Open => request[h].proven = password[f]
    <2>1. PICK h \in Handler : ReservePublicDownload(h) /\ request[h].file = f
      BY <1>1, CountingSteps
    <2>2. /\ At(h, "reserve") /\ Reservable(f, request[h].proven)
          /\ downloads'[f] = downloads[f] + 1
      BY <1>1, <2>1 DEF ReservePublicDownload, IInv, TypeOK
    <2>3. status[f][generation[f]] = "clean"
      BY <1>1, <2>2 DEF Reservable, Shared, IInv, PublishedIsClean
    <2>4. limit[f] = 0 \/ downloads'[f] <= limit[f]
      BY <1>1, <2>2, BoundAssumption DEF Reservable, IInv, TypeOK
    <2> QED BY <2>1, <2>2, <2>3, <2>4 DEF Reservable, Shared
  <1>2. IInv /\ [Next]_vars =>
           [\A f \in File : downloads'[f] # downloads[f] =>
              /\ downloads'[f] = downloads[f] + 1
              /\ Live(f) /\ published[f] /\ status[f][generation[f]] = "clean"
              /\ limit[f] = 0 \/ downloads'[f] <= limit[f]
              /\ \E h \in Handler :
                    /\ At(h, "reserve") /\ request[h].file = f
                    /\ password[f] # Open => request[h].proven = password[f]]_vars
    BY <1>1
  <1> QED BY <1>2, FilesInvariance, PTL DEF Spec, DownloadsAreAuthorised

(* The files' rows as a whole: well typed, and the state follows the attempt. *)
THEOREM FilesAreSafe == Spec => []FileSafety
  <1>1. TypeOK /\ StateFollowsAttempt => FileSafety
    BY DEF FileSafety
  <1> QED BY <1>1, FileTypeCorrect, VerdictsMatchFiles, PTL
=============================================================================
