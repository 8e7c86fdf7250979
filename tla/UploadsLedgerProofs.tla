------------------------- MODULE UploadsLedgerProofs -------------------------
(***************************************************************************)
(* Uploads for any number of principals, files, requests and bytes, and    *)
(* whatever faults occur: every file a Complete has taken was paid for, a  *)
(* deleted file and its jobs stay deleted, and the quota of a subject      *)
(* covers the completed files of its members.                              *)
(***************************************************************************)
EXTENDS UploadsProofs, FiniteSetTheorems, WellFoundedInduction

(***************************************************************************)
(* Why CompletedIsCharged holds.  A row says ready or failed, or has a     *)
(* job, only because some Complete was past CompleteCharge; and between    *)
(* its calls such a request relies on what it saw the call before.  A row  *)
(* that is gone meanwhile does not come back, so what was charged for the  *)
(* id of a request was charged for the row it finds.                       *)
(***************************************************************************)
PastCharge == {"c_job"} \cup JobPCs
Paid(f) == charged[f] >= files[f].size

LedgerInv ==
    /\ \A j \in JobIds : jobs[j] # None => HasRow(jobs[j].file)
    /\ \A f \in FileIds : Completed(f) => Paid(f)
    /\ \A h \in Handlers :
          /\ req[h].pc \notin {"idle", "p_create"} => req[h].file \in issued
          /\ req[h].pc = "c_ready" => charged[req[h].file] >= req[h].size
          /\ req[h].pc \in PastCharge /\ HasRow(req[h].file) => Paid(req[h].file)

-----------------------------------------------------------------------------
(* Steps of one request.                                                   *)

\* A request that goes on keeps its file, and its job and size unless it says otherwise.
LEMMA RequestKeeps ==
  ASSUME req \in [Handlers -> Request], NEW h \in Handlers, NEW pc, Goto(h, pc)
  PROVE  /\ req'[h].pc = pc /\ req'[h].file = req[h].file
         /\ req'[h].job = req[h].job /\ req'[h].size = req[h].size
  BY DEF Goto, Request

(* What LedgerInv asks survives a step that makes no row, changes none but *)
(* to one that is paid for, and makes no job but for a file that is.       *)
LEMMA LedgerKept ==
  ASSUME TypeOK, TypeOK', LedgerInv, NEW h \in Handlers,
         issued \subseteq issued',
         \A f \in FileIds : charged'[f] >= charged[f],
         \A f \in FileIds : HasRow(f)' => HasRow(f) /\ (files'[f] = files[f] \/ Paid(f)'),
         \A j \in JobIds : (jobs[j] # None)' =>
            /\ HasRow(jobs[j].file)'
            /\ (jobs[j] # None /\ jobs'[j].file = jobs[j].file) \/ Paid(jobs[j].file)',
         \A g \in Handlers : g # h => req'[g] = req[g],
         req'[h].pc \notin {"idle", "p_create"} => req'[h].file \in issued',
         req'[h].pc = "c_ready" => charged'[req'[h].file] >= req'[h].size,
         req'[h].pc \in PastCharge => (HasRow(req[h].file)' => Paid(req[h].file)')
  PROVE  LedgerInv'
<1>1. /\ charged \in [FileIds -> Nat] /\ charged' \in [FileIds -> Nat]
      /\ files \in [FileIds -> FileRow \cup {None}] /\ files' \in [FileIds -> FileRow \cup {None}]
      /\ jobs \in [JobIds -> JobRow \cup {None}] /\ jobs' \in [JobIds -> JobRow \cup {None}]
      /\ req \in [Handlers -> Request] /\ req' \in [Handlers -> Request]
      /\ \A g \in Handlers : req[g].pc \notin {"idle", "p_create"} => req[g].file \in FileIds
  BY DEF TypeOK, BaseTypeOK, FilesTypeOK, JobsTypeOK, ReqTypeOK
<1>2. \A f \in FileIds : HasRow(f)' /\ Paid(f) => Paid(f)'
  <2> SUFFICES ASSUME NEW f \in FileIds, HasRow(f)', Paid(f), files'[f] = files[f] PROVE Paid(f)'
    OBVIOUS
  <2>1. files[f].size \in Nat /\ charged[f] \in Nat /\ charged'[f] \in Nat /\ charged'[f] >= charged[f]
    BY <1>1 DEF HasRow, FileRow
  <2>2. QED
    BY <2>1 DEF Paid
<1>3. \A f \in FileIds : Completed(f)' => Paid(f)'
  <2> SUFFICES ASSUME NEW f \in FileIds, Completed(f)', ~Paid(f)' PROVE FALSE
    OBVIOUS
  <2>1. HasRow(f)' /\ HasRow(f) /\ files'[f] = files[f]
    BY DEF Completed
  <2>2. Completed(f)
    BY <2>1 DEF Completed
  <2>3. QED
    BY <1>2, <2>1, <2>2 DEF LedgerInv
<1>4. \A g \in Handlers : g # h =>
        /\ req'[g].pc \notin {"idle", "p_create"} => req'[g].file \in issued'
        /\ req'[g].pc = "c_ready" => charged'[req'[g].file] >= req'[g].size
        /\ req'[g].pc \in PastCharge => (HasRow(req[g].file)' => Paid(req[g].file)')
  <2> SUFFICES ASSUME NEW g \in Handlers, g # h
               PROVE  /\ req[g].pc \notin {"idle", "p_create"} => req[g].file \in issued'
                      /\ req[g].pc = "c_ready" => charged'[req[g].file] >= req[g].size
                      /\ req[g].pc \in PastCharge => (HasRow(req[g].file)' => Paid(req[g].file)')
    OBVIOUS
  <2>1. req[g].pc = "c_ready" => charged'[req[g].file] >= req[g].size
    BY <1>1 DEF LedgerInv, Request
  <2>2. req[g].pc \in PastCharge => (HasRow(req[g].file)' => Paid(req[g].file)')
    BY <1>1, <1>2 DEF LedgerInv, PastCharge, JobPCs
  <2>3. QED
    BY <2>1, <2>2 DEF LedgerInv
<1>5. QED
  BY <1>3, <1>4 DEF LedgerInv

(* A step that only moves its request: it is answered, goes on to a call   *)
(* that relies on nothing, or goes on where it relied on the charge before.*)
LEMMA OnlyRequestMoves ==
  ASSUME TypeOK, TypeOK', LedgerInv, NEW h \in Handlers,
         UNCHANGED <<files, jobs, charged, issued>>,
         \/ Return(h)
         \/ \E pc \in ReqPCs :
               /\ Goto(h, pc)
               /\ req[h].pc \notin {"idle", "p_create"} /\ pc # "c_ready"
               /\ pc \in PastCharge => req[h].pc \in PastCharge
  PROVE  LedgerInv'
<1>1. req \in [Handlers -> Request]
  BY DEF TypeOK, BaseTypeOK, ReqTypeOK
<1>2. /\ \A g \in Handlers : g # h => req'[g] = req[g]
      /\ req'[h].pc \notin {"idle", "p_create"} => req'[h].file \in issued'
      /\ req'[h].pc # "c_ready"
      /\ req'[h].pc \in PastCharge => req[h].pc \in PastCharge /\ req'[h].file = req[h].file
  <2>1. CASE Return(h)
    BY <1>1, <2>1, RequestMoves DEF PastCharge, JobPCs
  <2>2. CASE ~Return(h)
    <3>1. PICK pc \in ReqPCs :
             /\ Goto(h, pc)
             /\ req[h].pc \notin {"idle", "p_create"} /\ pc # "c_ready"
             /\ pc \in PastCharge => req[h].pc \in PastCharge
      BY <2>2
    <3>2. /\ \A g \in Handlers : g # h => req'[g] = req[g]
          /\ req'[h].pc = pc /\ req'[h].file = req[h].file /\ req[h].file \in issued'
      BY <1>1, <3>1, RequestMoves DEF LedgerInv
    <3>3. QED
      BY <3>1, <3>2
  <2>3. QED
    BY <2>1, <2>2
<1>3. req'[h].pc \in PastCharge => (HasRow(req[h].file)' => Paid(req[h].file)')
  BY <1>2 DEF LedgerInv, HasRow, Paid
<1>4. /\ \A f \in FileIds : charged'[f] >= charged[f]
      /\ \A j \in JobIds : (jobs[j] # None)' => HasRow(jobs[j].file)' /\ jobs'[j].file = jobs[j].file
  BY DEF TypeOK, LedgerInv, HasRow
<1>5. \A f \in FileIds : HasRow(f)' => HasRow(f) /\ files'[f] = files[f]
  BY DEF HasRow
<1>6. QED
  BY <1>2, <1>3, <1>4, <1>5, LedgerKept

\* A request that arrives, with the file that is asked about.
LEMMA RequestArrives ==
  ASSUME TypeOK, TypeOK', LedgerInv, NEW h \in Handlers,
         UNCHANGED <<files, jobs, charged, issued>>,
         NEW pc \in ReqPCs, NEW p, NEW f, NEW j, NEW kind, NEW size, Accept(h, pc, p, f, j, kind, size),
         pc # "c_ready", pc # "p_create" => f \in issued,
         pc \in PastCharge => (HasRow(f) => Paid(f))
  PROVE  LedgerInv'
<1>1. req \in [Handlers -> Request]
  BY DEF TypeOK, BaseTypeOK, ReqTypeOK
<1>2. /\ \A g \in Handlers : g # h => req'[g] = req[g]
      /\ req'[h].pc = pc /\ req'[h].file = f
  BY <1>1, RequestMoves
<1>3. req'[h].pc \in PastCharge => (HasRow(req[h].file)' => Paid(req[h].file)')
  BY <1>2 DEF HasRow, Paid
<1>4. /\ \A g \in FileIds : charged'[g] >= charged[g]
      /\ \A i \in JobIds : (jobs[i] # None)' => HasRow(jobs[i].file)' /\ jobs'[i].file = jobs[i].file
  BY DEF TypeOK, LedgerInv, HasRow
<1>5. \A g \in FileIds : HasRow(g)' => HasRow(g) /\ files'[g] = files[g]
  BY DEF HasRow
<1>6. QED
  BY <1>2, <1>3, <1>4, <1>5, LedgerKept

-----------------------------------------------------------------------------
(* What the UPDATEs and DELETEs leave as it was.                           *)

\* A row stays a row, and only the one that is updated changes.
LEMMA UpdateRowKeeps ==
  ASSUME FilesTypeOK, NEW f \in FileIds, NEW row, UpdateRow(f, row), HasRow(f) => row \in FileRow
  PROVE  /\ \A g \in FileIds : HasRow(g)' <=> HasRow(g)
         /\ \A g \in FileIds : g # f => files'[g] = files[g]
         /\ HasRow(f) => files'[f] = row
  BY NoneAssumption DEF FilesTypeOK, UpdateRow, HasRow

LEMMA SetFileStatusKeeps ==
  ASSUME FilesTypeOK, NEW f \in FileIds, NEW status \in FileStatus, SetFileStatus(f, status)
  PROVE  /\ \A g \in FileIds : HasRow(g)' <=> HasRow(g)
         /\ \A g \in FileIds : g # f => files'[g] = files[g]
         /\ HasRow(f) => files'[f].size = files[f].size /\ files'[f].variants = files[f].variants
<1> DEFINE row == [files[f] EXCEPT !.status = status]
<1>1. HasRow(f) => row \in FileRow /\ row.size = files[f].size /\ row.variants = files[f].variants
  BY DEF FilesTypeOK, FileRow, HasRow
<1>2. UpdateRow(f, row)
  BY DEF SetFileStatus
<1> HIDE DEF row
<1>3. QED
  BY <1>1, <1>2, UpdateRowKeeps

LEMMA UpdateJobKeeps ==
  ASSUME JobsTypeOK, NEW j \in JobIds, NEW status \in JobStatus, UpdateJob(j, status)
  PROVE  \A i \in JobIds : jobs'[i] # None => jobs[i] # None /\ jobs'[i].file = jobs[i].file
<1> DEFINE row == [jobs[j] EXCEPT !.status = status]
<1>1. jobs[j] # None => row.file = jobs[j].file
  BY DEF JobsTypeOK, JobRow
<1>2. jobs' = IF jobs[j] = None THEN jobs ELSE [jobs EXCEPT ![j] = row]
  BY DEF UpdateJob
<1> HIDE DEF row
<1>3. QED
  BY <1>1, <1>2 DEF JobsTypeOK

\* The jobs of a row go with it.
LEMMA DeleteFileRowKeeps ==
  ASSUME FilesTypeOK, NEW f \in FileIds, DeleteFileRow(f)
  PROVE  /\ ~HasRow(f)'
         /\ \A g \in FileIds : g # f => files'[g] = files[g]
         /\ \A j \in JobIds : jobs'[j] # None =>
               jobs'[j] = jobs[j] /\ jobs[j] # None /\ jobs[j].file # f
  BY DEF FilesTypeOK, DeleteFileRow, HasRow

\* A request that got past the charge sets the status of its file.
LEMMA StatusSet ==
  ASSUME TypeOK, TypeOK', LedgerInv, NEW h \in Handlers, req[h].pc \in PastCharge,
         NEW status \in FileStatus, SetFileStatus(req[h].file, status) \/ UNCHANGED files,
         UNCHANGED <<jobs, charged, issued>>,
         \A g \in Handlers : g # h => req'[g] = req[g],
         req'[h].pc = "idle" \/ (req'[h].pc \in PastCharge /\ req'[h].file = req[h].file)
  PROVE  LedgerInv'
<1>0. PICK f \in FileIds : f = req[h].file
  BY DEF TypeOK, BaseTypeOK, ReqTypeOK, PastCharge, JobPCs
<1>1. /\ f \in issued /\ (HasRow(f) => Paid(f))
      /\ FilesTypeOK /\ JobsTypeOK
      /\ charged \in [FileIds -> Nat]
  BY <1>0 DEF TypeOK, BaseTypeOK, LedgerInv, PastCharge, JobPCs
<1>2. /\ \A g \in FileIds : HasRow(g)' <=> HasRow(g)
      /\ \A g \in FileIds : g # f => files'[g] = files[g]
      /\ HasRow(f) => files'[f].size = files[f].size
  <2>1. CASE UNCHANGED files
    BY <2>1 DEF HasRow
  <2>2. CASE SetFileStatus(req[h].file, status)
    <3>1. SetFileStatus(f, status)
      BY <1>0, <2>2 DEF SetFileStatus, UpdateRow
    <3>2. QED
      BY <1>1, <3>1, SetFileStatusKeeps
  <2>3. QED
    BY <2>1, <2>2
<1>3. HasRow(f)' => Paid(f)'
  BY <1>1, <1>2 DEF Paid
<1>4. \A g \in FileIds : HasRow(g)' => HasRow(g) /\ (files'[g] = files[g] \/ Paid(g)')
  BY <1>2, <1>3
<1>5. \A j \in JobIds : jobs[j] # None => jobs[j].file \in FileIds /\ HasRow(jobs[j].file)
  BY <1>1 DEF JobsTypeOK, JobRow, LedgerInv
<1>6. \A j \in JobIds : jobs'[j] # None =>
        HasRow(jobs[j].file)' /\ jobs[j] # None /\ jobs'[j].file = jobs[j].file
  BY <1>2, <1>5 DEF HasRow
<1>7. req'[h].pc \in PastCharge => (HasRow(req[h].file)' => Paid(req[h].file)')
  BY <1>0, <1>3 DEF HasRow, Paid, PastCharge, JobPCs
<1>8. /\ \A g \in FileIds : charged'[g] >= charged[g]
      /\ req'[h].pc # "c_ready"
      /\ req'[h].pc # "idle" => req'[h].file \in issued'
  BY <1>0, <1>1 DEF PastCharge, JobPCs
<1>9. QED
  BY <1>4, <1>6, <1>7, <1>8, LedgerKept

\* A request that got past the charge sets the status of its job.
LEMMA JobSet ==
  ASSUME TypeOK, TypeOK', LedgerInv, NEW h \in Handlers, req[h].pc \in JobPCs,
         NEW status \in JobStatus, UpdateJob(req[h].job, status) \/ UNCHANGED jobs,
         UNCHANGED <<files, charged, issued>>,
         \A g \in Handlers : g # h => req'[g] = req[g],
         req'[h].pc = "idle" \/ (req'[h].pc \in JobPCs /\ req'[h].file = req[h].file)
  PROVE  LedgerInv'
<1>1. /\ req[h].job \in JobIds /\ req[h].file \in issued
      /\ HasRow(req[h].file) => Paid(req[h].file)
      /\ JobsTypeOK
      /\ charged \in [FileIds -> Nat]
  BY DEF TypeOK, BaseTypeOK, ReqTypeOK, LedgerInv, PastCharge, JobPCs
<1>2. \A i \in JobIds : jobs'[i] # None => jobs[i] # None /\ jobs'[i].file = jobs[i].file
  <2>1. CASE UNCHANGED jobs
    BY <2>1
  <2>2. CASE UpdateJob(req[h].job, status)
    BY <1>1, <2>2, UpdateJobKeeps
  <2>3. QED
    BY <2>1, <2>2
<1>3. \A i \in JobIds : jobs'[i] # None => HasRow(jobs[i].file)'
  BY <1>2 DEF HasRow, LedgerInv
<1>4. req'[h].pc \in PastCharge => (HasRow(req[h].file)' => Paid(req[h].file)')
  BY <1>1 DEF HasRow, Paid, PastCharge, JobPCs
<1>5. /\ \A g \in FileIds : charged'[g] >= charged[g]
      /\ \A g \in FileIds : HasRow(g)' => HasRow(g) /\ files'[g] = files[g]
      /\ req'[h].pc # "c_ready"
      /\ req'[h].pc # "idle" => req'[h].file \in issued'
  BY <1>1 DEF JobPCs, HasRow
<1>6. QED
  BY <1>2, <1>3, <1>4, <1>5, LedgerKept

\* A request deletes the row of its file.
LEMMA RowDeleted ==
  ASSUME TypeOK, TypeOK', LedgerInv, NEW h \in Handlers, req[h].pc \in {"c_rej_row", "d_row"},
         DeleteFileRow(req[h].file), UNCHANGED <<charged, issued>>,
         \A g \in Handlers : g # h => req'[g] = req[g],
         req'[h].pc = "idle" \/ (req'[h].pc = "d_refund" /\ req'[h].file = req[h].file)
  PROVE  LedgerInv'
<1>0. PICK f \in FileIds : f = req[h].file
  BY DEF TypeOK, BaseTypeOK, ReqTypeOK
<1>1. f \in issued /\ FilesTypeOK /\ JobsTypeOK /\ charged \in [FileIds -> Nat]
  BY <1>0 DEF TypeOK, BaseTypeOK, LedgerInv
<1>2. DeleteFileRow(f)
  BY <1>0 DEF DeleteFileRow
<1>3. /\ ~HasRow(f)'
      /\ \A g \in FileIds : g # f => files'[g] = files[g]
      /\ \A j \in JobIds : jobs'[j] # None =>
            jobs'[j] = jobs[j] /\ jobs[j] # None /\ jobs[j].file # f
  BY <1>1, <1>2, DeleteFileRowKeeps
<1>4. \A g \in FileIds : HasRow(g)' => HasRow(g) /\ files'[g] = files[g]
  BY <1>3 DEF HasRow
<1>5. \A j \in JobIds : jobs[j] # None => jobs[j].file \in FileIds /\ HasRow(jobs[j].file)
  BY <1>1 DEF JobsTypeOK, JobRow, LedgerInv
<1>6. \A j \in JobIds : jobs'[j] # None =>
        HasRow(jobs[j].file)' /\ jobs[j] # None /\ jobs'[j].file = jobs[j].file
  BY <1>3, <1>5 DEF HasRow
<1>7. /\ \A g \in FileIds : charged'[g] >= charged[g]
      /\ req'[h].pc \notin PastCharge \cup {"c_ready"}
      /\ req'[h].pc # "idle" => req'[h].file \in issued'
  BY <1>0, <1>1 DEF PastCharge, JobPCs
<1>8. QED
  BY <1>4, <1>6, <1>7, LedgerKept

-----------------------------------------------------------------------------
(* Every Complete pays.                                                    *)

LEMMA InitLedger == UploadsInit => LedgerInv
  BY MediaAssumption DEF UploadsInit, BaseInit, LedgerInv, Completed, HasRow, IdleReq, PastCharge, JobPCs

LEMMA NextLedger ==
  TypeOK /\ TypeOK' /\ RefundInv /\ LedgerInv /\ [UploadsNext]_uploadsVars => LedgerInv'
<1> SUFFICES ASSUME TypeOK, TypeOK', RefundInv, LedgerInv, [UploadsNext]_uploadsVars
             PROVE  LedgerInv'
  OBVIOUS
<1> USE DEF storeVars, ghostVars
<1>0. /\ FilesTypeOK /\ JobsTypeOK
      /\ req \in [Handlers -> Request] /\ req' \in [Handlers -> Request]
      /\ charged \in [FileIds -> Nat] /\ charged' \in [FileIds -> Nat]
      /\ \A h \in Handlers : req[h].pc \notin {"idle", "p_create"} => req[h].file \in FileIds
      /\ \A h \in Handlers : req[h].pc \in JobPCs => req[h].job \in JobIds
      /\ \A f \in FileIds : HasRow(f) => f \in issued
  BY DEF TypeOK, BaseTypeOK, ReqTypeOK, JobPCs, RefundInv
<1>1. ASSUME NEW f \in FileIds, Put(f) PROVE LedgerInv'
  BY <1>1 DEF Put, LedgerInv, Completed, HasRow, Paid
<1>2. ASSUME NEW h \in Handlers, RetryStart(h), UNCHANGED ghostVars PROVE LedgerInv'
  <2>1. PICK p \in Principals, j \in JobIds :
          /\ jobs[j] # None
          /\ Accept(h, "r_queued", p, jobs[j].file, j, "image", 0)
    BY <1>2 DEF RetryStart
  <2>2. jobs[j].file \in FileIds /\ HasRow(jobs[j].file)
    BY <1>0, <2>1 DEF JobsTypeOK, JobRow, LedgerInv
  <2>3. Paid(jobs[j].file)
    BY <2>1, <2>2 DEF LedgerInv, Completed
  <2>4. UNCHANGED <<files, jobs, charged, issued>>
    BY <1>2 DEF RetryStart
  <2>5. "r_queued" \in ReqPCs /\ jobs[j].file \in issued
    BY <1>0, <2>2 DEF ReqPCs
  <2>6. QED
    BY <2>1, <2>3, <2>4, <2>5, RequestArrives
<1>3. ASSUME NEW h \in Handlers, RetryQueued(h), UNCHANGED ghostVars PROVE LedgerInv'
  <2>1. req'[h].pc = "idle" \/ (req'[h].pc = "pend" /\ req'[h].file = req[h].file)
    BY <1>0, <1>3, RequestMoves DEF RetryQueued, GotoIf
  <2>2. \A g \in Handlers : g # h => req'[g] = req[g]
    BY <1>0, <1>3, RequestMoves DEF RetryQueued, GotoIf
  <2>3. QED
    BY <1>3, <2>1, <2>2, JobSet DEF RetryQueued, JobPCs, JobStatus
<1>4. ASSUME NEW h \in Handlers, MarkPending(h), UNCHANGED ghostVars PROVE LedgerInv'
  <2>1. req'[h].pc = "idle" \/ (req'[h].pc = "enq" /\ req'[h].file = req[h].file)
    BY <1>0, <1>4, RequestMoves DEF MarkPending, GotoIf
  <2>2. \A g \in Handlers : g # h => req'[g] = req[g]
    BY <1>0, <1>4, RequestMoves DEF MarkPending, GotoIf
  <2>3. QED
    BY <1>4, <2>1, <2>2, StatusSet DEF MarkPending, PastCharge, JobPCs, FileStatus
<1>5. ASSUME NEW h \in Handlers, EnqueueOK(h), UNCHANGED ghostVars PROVE LedgerInv'
  BY <1>5, OnlyRequestMoves DEF EnqueueOK
<1>6. ASSUME NEW h \in Handlers, EnqueueFails(h), UNCHANGED ghostVars PROVE LedgerInv'
  BY <1>6, OnlyRequestMoves DEF EnqueueFails, ReqPCs, PastCharge, JobPCs
<1>7. ASSUME NEW h \in Handlers, UndoJob(h), UNCHANGED ghostVars PROVE LedgerInv'
  <2>1. /\ req'[h].pc = "undo_file" /\ req'[h].file = req[h].file
        /\ \A g \in Handlers : g # h => req'[g] = req[g]
    BY <1>0, <1>7, RequestMoves DEF UndoJob
  <2>2. QED
    BY <1>7, <2>1, JobSet DEF UndoJob, JobPCs, JobStatus
<1>8. ASSUME NEW h \in Handlers, UndoFile(h), UNCHANGED ghostVars PROVE LedgerInv'
  <2>1. req'[h].pc = "idle" /\ \A g \in Handlers : g # h => req'[g] = req[g]
    BY <1>0, <1>8, RequestMoves DEF UndoFile
  <2>2. QED
    BY <1>8, <2>1, StatusSet DEF UndoFile, PastCharge, JobPCs, FileStatus
<1>9. ASSUME NEW h \in Handlers, Abort(h), UNCHANGED ghostVars PROVE LedgerInv'
  BY <1>9, OnlyRequestMoves DEF Abort
<1>10. ASSUME NEW h \in Handlers, PresignCheck(h) PROVE LedgerInv'
  <2>1. PICK p \in Principals, kind \in Kinds, size \in {c.size : c \in ClientContents} :
          Accept(h, "p_create", p, None, None, kind, size)
    BY <1>10 DEF PresignCheck
  <2>2. UNCHANGED <<files, jobs, charged, issued>> /\ "p_create" \in ReqPCs \ PastCharge
    BY <1>10 DEF PresignCheck, ReqPCs, PastCharge, JobPCs
  <2>3. QED
    BY <2>1, <2>2, RequestArrives
<1>11. ASSUME NEW h \in Handlers, CompleteStart(h) PROVE LedgerInv'
  <2>1. PICK p \in Principals, f \in FileIds :
          HasRow(f) /\ Accept(h, "c_stat", p, f, None, files[f].kind, 0)
    BY <1>11 DEF CompleteStart, OwnedBy
  <2>2. UNCHANGED <<files, jobs, charged, issued>> /\ "c_stat" \in ReqPCs \ PastCharge
    BY <1>11 DEF CompleteStart, ReqPCs, PastCharge, JobPCs
  <2>3. QED
    BY <1>0, <2>1, <2>2, RequestArrives
<1>12. ASSUME NEW h \in Handlers, CompleteStat(h) PROVE LedgerInv'
  <2>1. UNCHANGED <<files, jobs, charged, issued>> /\ req[h].pc = "c_stat"
    BY <1>12 DEF CompleteStat
  <2>2. CASE Return(h) \/ Goto(h, "c_drop")
    BY <2>1, <2>2, OnlyRequestMoves DEF ReqPCs, PastCharge, JobPCs
  <2>3. ASSUME NEW size, NEW etag,
               req' = [req EXCEPT ![h] = [@ EXCEPT !.pc = "c_head", !.size = size, !.etag = etag]]
        PROVE  LedgerInv'
    <3> DEFINE new == [req[h] EXCEPT !.pc = "c_head", !.size = size, !.etag = etag]
    <3>1. new.pc = "c_head" /\ new.file = req[h].file
      BY <1>0 DEF Request
    <3>2. req' = [req EXCEPT ![h] = new]
      BY <2>3
    <3> HIDE DEF new
    <3>3. /\ \A g \in Handlers : g # h => req'[g] = req[g]
          /\ req'[h].pc = "c_head" /\ req'[h].file = req[h].file
      BY <1>0, <3>1, <3>2
    <3>4. /\ req[h].file \in issued
          /\ \A f \in FileIds : charged'[f] >= charged[f]
          /\ \A f \in FileIds : HasRow(f)' => HasRow(f) /\ files'[f] = files[f]
          /\ \A j \in JobIds : jobs'[j] # None => HasRow(jobs[j].file)'
      BY <1>0, <2>1 DEF LedgerInv, HasRow
    <3>5. "c_head" \notin PastCharge
      BY DEF PastCharge, JobPCs
    <3>6. QED
      BY <2>1, <3>3, <3>4, <3>5, LedgerKept
  <2>4. QED
    BY <1>12, <2>2, <2>3 DEF CompleteStat
<1>13. ASSUME NEW h \in Handlers, CompleteDrop(h) PROVE LedgerInv'
  BY <1>13, OnlyRequestMoves DEF CompleteDrop
<1>14. ASSUME NEW h \in Handlers, CompleteHead(h) PROVE LedgerInv'
  <2>1. UNCHANGED <<files, jobs, charged, issued>> /\ req[h].pc = "c_head"
    BY <1>14 DEF CompleteHead
  <2>2. Return(h) \/ Goto(h, "c_drop") \/ Goto(h, "c_rej_obj") \/ Goto(h, "c_charge")
    BY <1>14 DEF CompleteHead, GotoIf
  <2>3. {"c_drop", "c_rej_obj", "c_charge"} \subseteq ReqPCs \ PastCharge
    BY DEF ReqPCs, PastCharge, JobPCs
  <2>4. QED
    BY <2>1, <2>2, <2>3, OnlyRequestMoves
<1>15. ASSUME NEW h \in Handlers, RejectObject(h) PROVE LedgerInv'
  BY <1>15, OnlyRequestMoves DEF RejectObject, ReqPCs, PastCharge, JobPCs
<1>16. ASSUME NEW h \in Handlers, RejectRow(h) PROVE LedgerInv'
  <2>1. CASE UNCHANGED <<files, jobs>>
    BY <1>16, <2>1, OnlyRequestMoves DEF RejectRow
  <2>2. CASE DeleteFileRow(req[h].file)
    <3>1. req'[h].pc = "idle" /\ \A g \in Handlers : g # h => req'[g] = req[g]
      BY <1>0, <1>16, RequestMoves DEF RejectRow
    <3>2. QED
      BY <1>16, <2>2, <3>1, RowDeleted DEF RejectRow
  <2>3. QED
    BY <1>16, <2>1, <2>2 DEF RejectRow
<1>17. ASSUME NEW h \in Handlers, CompleteCharge(h) PROVE LedgerInv'
  <2>1. /\ UNCHANGED <<files, jobs, issued>> /\ req[h].pc = "c_charge"
        /\ req[h].file \in FileIds /\ req[h].file \in issued /\ req[h].size \in Nat
    BY <1>0, <1>17 DEF CompleteCharge, LedgerInv, Request
  <2>2. CASE UNCHANGED charged /\ Goto(h, "c_drop")
    BY <2>1, <2>2, OnlyRequestMoves DEF ReqPCs, PastCharge, JobPCs
  <2>3. CASE /\ charged' = [charged EXCEPT ![req[h].file] = @ + req[h].size]
             /\ Goto(h, "c_drop") \/ Goto(h, "c_ready")
    <3>1. /\ \A f \in FileIds : charged'[f] >= charged[f]
          /\ charged'[req[h].file] >= req[h].size
      BY <1>0, <2>1, <2>3
    <3>2. /\ req'[h].file = req[h].file /\ req'[h].size = req[h].size
          /\ req'[h].pc \in {"c_drop", "c_ready"}
          /\ \A g \in Handlers : g # h => req'[g] = req[g]
      BY <1>0, <2>3, RequestMoves, RequestKeeps
    <3>3. /\ \A f \in FileIds : HasRow(f)' => HasRow(f) /\ files'[f] = files[f]
          /\ \A j \in JobIds : jobs'[j] # None => HasRow(jobs[j].file)'
          /\ req'[h].pc \notin PastCharge
      BY <2>1, <3>2 DEF LedgerInv, HasRow, PastCharge, JobPCs
    <3>4. QED
      BY <2>1, <3>1, <3>2, <3>3, LedgerKept
  <2>4. QED
    BY <1>17, <2>2, <2>3 DEF CompleteCharge
<1>18. ASSUME NEW h \in Handlers, CompleteReady(h) PROVE LedgerInv'
  <2>0. PICK f \in FileIds : f = req[h].file
    BY <1>0, <1>18 DEF CompleteReady
  <2>1. /\ UNCHANGED <<jobs, charged, issued>>
        /\ f \in issued /\ req[h].size \in Nat /\ charged[f] >= req[h].size
    BY <1>0, <1>18, <2>0 DEF CompleteReady, LedgerInv, Request
  <2>2. /\ \A g \in FileIds : HasRow(g)' <=> HasRow(g)
        /\ \A g \in FileIds : g # f => files'[g] = files[g]
        /\ HasRow(f) => files'[f].size = req[h].size
    <3> DEFINE row == [files[f] EXCEPT !.status = "ready", !.size = req[h].size]
    <3>1. HasRow(f) => row \in FileRow /\ row.size = req[h].size
      BY <1>0, <2>1 DEF FilesTypeOK, FileRow, FileStatus, HasRow
    <3>2. UpdateRow(f, row)
      BY <1>18, <2>0 DEF CompleteReady, MarkFileReady, UpdateRow
    <3> HIDE DEF row
    <3>3. QED
      BY <1>0, <3>1, <3>2, UpdateRowKeeps
  <2>3. HasRow(f)' => Paid(f)'
    BY <1>0, <2>1, <2>2 DEF Paid
  <2>4. \A g \in FileIds : HasRow(g)' => HasRow(g) /\ (files'[g] = files[g] \/ Paid(g)')
    BY <2>2, <2>3
  <2>5. \A j \in JobIds : jobs[j] # None => jobs[j].file \in FileIds /\ HasRow(jobs[j].file)
    BY <1>0 DEF JobsTypeOK, JobRow, LedgerInv
  <2>6. \A j \in JobIds : jobs'[j] # None =>
          HasRow(jobs[j].file)' /\ jobs[j] # None /\ jobs'[j].file = jobs[j].file
    BY <2>1, <2>2, <2>5 DEF HasRow
  <2>7. /\ \A g \in Handlers : g # h => req'[g] = req[g]
        /\ req'[h].pc = "idle" \/ (req'[h].pc = "c_job" /\ req'[h].file = f)
    BY <1>0, <1>18, <2>0, RequestMoves DEF CompleteReady, GotoIf
  <2>8. /\ req'[h].pc \in PastCharge => (HasRow(req[h].file)' => Paid(req[h].file)')
        /\ \A g \in FileIds : charged'[g] >= charged[g]
    BY <1>0, <2>1, <2>3, <2>7 DEF HasRow, Paid, PastCharge, JobPCs
  <2>9. QED
    BY <2>1, <2>4, <2>6, <2>7, <2>8, LedgerKept
<1>19. ASSUME NEW h \in Handlers, CompleteJob(h) PROVE LedgerInv'
  <2>0. PICK f \in FileIds : f = req[h].file
    BY <1>0, <1>19 DEF CompleteJob
  <2>1. /\ UNCHANGED <<files, charged>> /\ req[h].pc = "c_job"
        /\ f \in issued /\ (HasRow(f) => Paid(f))
    BY <1>19, <2>0 DEF CompleteJob, LedgerInv, PastCharge
  <2>2. CASE Return(h) /\ UNCHANGED <<jobs, issued>>
    BY <2>1, <2>2, OnlyRequestMoves
  <2>3. ASSUME NEW j \in JobIds \ issued, HasRow(f), CreateJob(j, f), issued' = issued \cup {j},
               req' = [req EXCEPT ![h] = [@ EXCEPT !.pc = "pend", !.job = j]]
        PROVE  LedgerInv'
    <3> DEFINE new == [req[h] EXCEPT !.pc = "pend", !.job = j]
    <3>1. new.pc = "pend" /\ new.file = f
      BY <1>0, <2>0 DEF Request
    <3>2. req' = [req EXCEPT ![h] = new]
      BY <2>3
    <3> HIDE DEF new
    <3>3. /\ \A g \in Handlers : g # h => req'[g] = req[g]
          /\ req'[h].pc = "pend" /\ req'[h].file = f
      BY <1>0, <3>1, <3>2
    <3>4. HasRow(f)' /\ Paid(f)'
      BY <2>1, <2>3 DEF HasRow, Paid
    <3>5. ASSUME NEW i \in JobIds, jobs'[i] # None
          PROVE  /\ HasRow(jobs[i].file)'
                 /\ (jobs[i] # None /\ jobs'[i].file = jobs[i].file) \/ Paid(jobs[i].file)'
      <4>1. CASE i = j
        <5>1. jobs'[i].file = f
          BY <1>0, <2>3, <4>1 DEF CreateJob, JobsTypeOK
        <5>2. QED
          BY <3>4, <5>1 DEF HasRow, Paid
      <4>2. CASE i # j
        BY <1>0, <2>1, <2>3, <3>5, <4>2 DEF CreateJob, JobsTypeOK, LedgerInv, HasRow
      <4>3. QED
        BY <4>1, <4>2
    <3>6. /\ \A g \in FileIds : charged'[g] >= charged[g]
          /\ \A g \in FileIds : HasRow(g)' => HasRow(g) /\ files'[g] = files[g]
          /\ HasRow(req[h].file)' => Paid(req[h].file)'
      BY <1>0, <2>1, <3>3, <3>4 DEF HasRow, Paid
    <3>7. issued \subseteq issued'
      BY <2>3
    <3>8. QED
      BY <2>1, <3>3, <3>5, <3>6, <3>7, LedgerKept
  <2>4. QED
    BY <1>19, <2>0, <2>2, <2>3 DEF CompleteJob, CreateJob, HasRow
<1>20. ASSUME NEW h \in Handlers, DeleteStart(h) PROVE LedgerInv'
  <2>1. PICK p \in Principals, f \in FileIds :
          HasRow(f) /\ Accept(h, "d_objs", p, f, None, files[f].kind, files[f].size)
    BY <1>20 DEF DeleteStart, OwnedBy
  <2>2. UNCHANGED <<files, jobs, charged, issued>> /\ "d_objs" \in ReqPCs \ PastCharge
    BY <1>20 DEF DeleteStart, ReqPCs, PastCharge, JobPCs
  <2>3. QED
    BY <1>0, <2>1, <2>2, RequestArrives
<1>21. ASSUME NEW h \in Handlers, DeleteObjects(h) PROVE LedgerInv'
  <2>1. UNCHANGED <<files, jobs, charged, issued>> /\ req[h].pc = "d_objs"
    BY <1>21 DEF DeleteObjects
  <2>2. Return(h) \/ Goto(h, "d_row")
    BY <1>21 DEF DeleteObjects
  <2>3. "d_row" \in ReqPCs \ PastCharge
    BY DEF ReqPCs, PastCharge, JobPCs
  <2>4. QED
    BY <2>1, <2>2, <2>3, OnlyRequestMoves
<1>22. ASSUME NEW h \in Handlers, PresignCreate(h) PROVE LedgerInv'
  <2>1. PICK f \in FileIds \ issued :
          /\ files' = [files EXCEPT ![f] = [owner |-> req[h].who, kind |-> req[h].kind,
                          size |-> req[h].size, status |-> "pending", variants |-> {}]]
          /\ issued' = issued \cup {f}
    BY <1>22 DEF PresignCreate, CreatePendingFile
  <2>2. /\ UNCHANGED <<jobs, charged>>
        /\ \A g \in Handlers : g # h => req'[g] = req[g]
        /\ req'[h].pc = "idle"
    BY <1>0, <1>22, RequestMoves DEF PresignCreate
  <2>3. /\ \A g \in FileIds : g # f => files'[g] = files[g]
        /\ files'[f].status = "pending" /\ files'[f].variants = {}
    BY <1>0, <2>1 DEF FilesTypeOK
  <2>4. \A j \in JobIds : jobs[j] # None =>
          HasRow(jobs[j].file) /\ jobs[j].file \in FileIds /\ jobs[j].file # f
    BY <1>0 DEF LedgerInv, JobsTypeOK, JobRow
  <2>5. \A j \in JobIds : jobs'[j] # None => HasRow(jobs[j].file)'
    BY <2>2, <2>3, <2>4 DEF HasRow
  <2>6. \A g \in FileIds : Completed(g)' => Paid(g)'
    <3>1. ~Completed(f)'
      BY <2>2, <2>3, <2>4 DEF Completed
    <3>2. \A g \in FileIds : g # f => (Completed(g)' <=> Completed(g)) /\ (Paid(g)' <=> Paid(g))
      BY <2>2, <2>3 DEF Completed, Paid, HasRow
    <3>3. QED
      BY <3>1, <3>2 DEF LedgerInv
  <2>7. ASSUME NEW g \in Handlers
        PROVE  /\ req'[g].pc \notin {"idle", "p_create"} => req'[g].file \in issued'
               /\ req'[g].pc = "c_ready" => charged'[req'[g].file] >= req'[g].size
               /\ req'[g].pc \in PastCharge => (HasRow(req[g].file)' => Paid(req[g].file)')
    <3>1. CASE g = h
      BY <2>2, <3>1 DEF PastCharge, JobPCs
    <3>2. CASE g # h
      <4>1. req'[g] = req[g]
        BY <2>2, <3>2
      <4>2. req[g].pc \notin {"idle", "p_create"} =>
              req[g].file \in FileIds /\ req[g].file \in issued /\ req[g].file # f
        BY <1>0 DEF LedgerInv
      <4>3. req[g].pc \in PastCharge => (HasRow(req[g].file)' => Paid(req[g].file)')
        BY <2>2, <2>3, <4>1, <4>2 DEF LedgerInv, HasRow, Paid, PastCharge, JobPCs
      <4>4. QED
        BY <2>1, <2>2, <4>1, <4>2, <4>3 DEF LedgerInv
    <3>3. QED
      BY <3>1, <3>2
  <2>8. QED
    BY <2>5, <2>6, <2>7 DEF LedgerInv
<1>23. ASSUME NEW h \in Handlers, DeleteRow(h) PROVE LedgerInv'
  <2>1. /\ req'[h].pc = "idle" \/ (req'[h].pc = "d_refund" /\ req'[h].file = req[h].file)
        /\ \A g \in Handlers : g # h => req'[g] = req[g]
    BY <1>0, <1>23, RequestMoves DEF DeleteRow, GotoIf
  <2>2. QED
    BY <1>23, <2>1, RowDeleted DEF DeleteRow
<1>24. ASSUME NEW h \in Handlers, DeleteRefund(h) PROVE LedgerInv'
  BY <1>24, OnlyRequestMoves DEF DeleteRefund
<1>25. CASE UNCHANGED uploadsVars
  BY <1>25 DEF uploadsVars, baseVars, LedgerInv, Completed, HasRow, Paid
<1>26. QED
  BY <1>1, <1>2, <1>3, <1>4, <1>5, <1>6, <1>7, <1>8, <1>9, <1>10, <1>11, <1>12, <1>13, <1>14, <1>15, <1>16, <1>17, <1>18, <1>19, <1>20, <1>21, <1>22, <1>23, <1>24, <1>25
     DEF UploadsNext, PresignStep, CompleteStep, DeleteStep, JobsStep

LEMMA Ledger == UploadsSpec => [](TypeOK /\ RefundInv /\ LedgerInv)
<1>1. UploadsInit => RefundInv /\ LedgerInv
  BY InitRefund, InitLedger
<1>2. TypeOK /\ TypeOK' /\ RefundInv /\ LedgerInv /\ [UploadsNext]_uploadsVars
        => RefundInv' /\ LedgerInv'
  BY NextRefund, NextLedger
<1>3. QED
  BY <1>1, <1>2, Typing, PTL DEF UploadsSpec

(* Every file a Complete has taken is paid for: whatever Completes,        *)
(* deletes, retries and failures do at the same time, no file says ready   *)
(* or failed, and none has a job, before AddQuota added its bytes.         *)
THEOREM CompletesPay == UploadsSpec => []CompletedIsCharged
<1>1. LedgerInv => CompletedIsCharged
  BY DEF LedgerInv, CompletedIsCharged, Paid
<1>2. QED
  BY <1>1, Ledger, PTL

-----------------------------------------------------------------------------
(* Deleted for good.                                                       *)

\* Only CreatePendingFile makes a row, and its id is a new one.
LEMMA OnlyPresignMakesRows ==
  ASSUME TypeOK, [UploadsNext]_uploadsVars, NEW f \in FileIds, HasRow(f)'
  PROVE  HasRow(f) \/ f \notin issued
<1>1. FilesTypeOK
  BY DEF TypeOK, BaseTypeOK
<1>2. \A g, row : UpdateRow(g, row) => HasRow(f)
  BY <1>1 DEF UpdateRow, FilesTypeOK, HasRow
<1>3. \A g : DeleteFileRow(g) => HasRow(f)
  BY <1>1 DEF DeleteFileRow, FilesTypeOK, HasRow
<1>4. UNCHANGED files => HasRow(f)
  BY DEF HasRow
<1>5. ASSUME NEW h \in Handlers, PresignCreate(h) PROVE HasRow(f) \/ f \notin issued
  BY <1>1, <1>5 DEF PresignCreate, CreatePendingFile, FilesTypeOK, HasRow
<1>6. ASSUME NEW h \in Handlers, MarkPending(h) \/ UndoFile(h) \/ CompleteReady(h) PROVE HasRow(f)
  BY <1>2, <1>4, <1>6 DEF MarkPending, UndoFile, CompleteReady, SetFileStatus, MarkFileReady
<1>7. ASSUME NEW h \in Handlers, RejectRow(h) \/ DeleteRow(h) PROVE HasRow(f)
  BY <1>3, <1>4, <1>7 DEF RejectRow, DeleteRow
<1>8. ASSUME NEW h \in Handlers,
             \/ RetryStart(h) \/ RetryQueued(h) \/ EnqueueOK(h) \/ EnqueueFails(h) \/ UndoJob(h) \/ Abort(h)
             \/ PresignCheck(h) \/ CompleteStart(h) \/ CompleteStat(h) \/ CompleteDrop(h)
             \/ CompleteHead(h) \/ RejectObject(h) \/ CompleteCharge(h) \/ CompleteJob(h)
             \/ DeleteStart(h) \/ DeleteObjects(h) \/ DeleteRefund(h)
      PROVE  HasRow(f)
  <2>1. UNCHANGED files
    BY <1>8 DEF storeVars, RetryStart, RetryQueued, EnqueueOK, EnqueueFails, UndoJob, Abort,
                PresignCheck, CompleteStart, CompleteStat, CompleteDrop, CompleteHead, RejectObject,
                CompleteCharge, CompleteJob, DeleteStart, DeleteObjects, DeleteRefund
  <2>2. QED
    BY <1>4, <2>1
<1>9. ASSUME NEW g \in FileIds, Put(g) PROVE HasRow(f)
  BY <1>4, <1>9 DEF Put, storeVars
<1>10. CASE UNCHANGED uploadsVars
  BY <1>4, <1>10 DEF uploadsVars, baseVars, storeVars
<1>11. QED
  BY <1>5, <1>6, <1>7, <1>8, <1>9, <1>10
     DEF UploadsNext, PresignStep, CompleteStep, DeleteStep, JobsStep

(* A deleted file stays deleted, whatever requests for it are still under  *)
(* way: none of their UPDATEs brings the row back, and neither a job that  *)
(* is created nor one that is updated late is left without its file.       *)
THEOREM DeletedForGood == UploadsSpec => NothingOutlivesDelete
<1>1. TypeOK /\ LedgerInv' /\ [UploadsNext]_uploadsVars =>
        \A f \in FileIds : f \in issued /\ ~HasRow(f) =>
            /\ ~HasRow(f)'
            /\ \A j \in JobIds : (jobs[j] # None)' => (jobs[j].file # f)'
  <2> SUFFICES ASSUME TypeOK, LedgerInv', [UploadsNext]_uploadsVars,
                      NEW f \in FileIds, f \in issued, ~HasRow(f)
               PROVE  /\ ~HasRow(f)'
                      /\ \A j \in JobIds : (jobs[j] # None)' => (jobs[j].file # f)'
    OBVIOUS
  <2>1. ~HasRow(f)'
    BY OnlyPresignMakesRows
  <2>2. \A j \in JobIds : (jobs[j] # None)' => (jobs[j].file # f)'
    BY <2>1 DEF LedgerInv, HasRow
  <2>3. QED
    BY <2>1, <2>2
<1>2. QED
  BY <1>1, Ledger, PTL DEF UploadsSpec, NothingOutlivesDelete

-----------------------------------------------------------------------------
(* Sums over finite sets, whatever order MapThenSumSet takes the members   *)
(* in.  What holds of a set when it holds of its subsets holds of every    *)
(* finite set: there would be a smallest one that it does not hold of.     *)

LEMMA Smallest ==
  ASSUME NEW S, IsFiniteSet(S), NEW Bad \in SUBSET SUBSET S, Bad # {}
  PROVE  \E T \in Bad : IsFiniteSet(T) /\ \A U \in SUBSET T : U # T => U \notin Bad
<1>1. \A T \in SUBSET S : IsFiniteSet(T)
  BY FS_Subset
<1>2. Bad \subseteq FiniteSubsetsOf(S)
  BY <1>1 DEF FiniteSubsetsOf
<1>3. PICK T \in Bad : \A U \in Bad : ~(<<U, T>> \in StrictSubsetOrdering(S))
  <2>1. IsWellFoundedOn(StrictSubsetOrdering(S), FiniteSubsetsOf(S))
    BY FS_StrictSubsetOrderingWellFounded
  <2>2. QED
    BY <1>2, <2>1, WFMin
<1>4. ASSUME NEW U \in SUBSET T, U # T PROVE U \notin Bad
  BY <1>3, <1>4 DEF StrictSubsetOrdering
<1>5. QED
  BY <1>1, <1>3, <1>4

First(s) == CHOOSE x \in s : TRUE

\* sum is the function MapThenSumSet computes on the subsets of S.
Sums(g, S, sum) ==
    sum = [s \in SUBSET S |-> IF s = {} THEN 0 ELSE g[First(s)] + sum[s \ {First(s)}]]

LEMMA FirstIn ==
  ASSUME NEW s, s # {} PROVE First(s) \in s
  BY DEF First

LEMMA SumsAt ==
  ASSUME NEW g, NEW S, NEW sum, Sums(g, S, sum), NEW s \in SUBSET S
  PROVE  sum[s] = IF s = {} THEN 0 ELSE g[First(s)] + sum[s \ {First(s)}]
<1> DEFINE F == [t \in SUBSET S |-> IF t = {} THEN 0 ELSE g[First(t)] + sum[t \ {First(t)}]]
<1>1. F[s] = IF s = {} THEN 0 ELSE g[First(s)] + sum[s \ {First(s)}]
  OBVIOUS
<1>2. sum = F
  BY DEF Sums
<1> HIDE DEF F
<1>3. QED
  BY <1>1, <1>2

LEMMA SumsUnique ==
  ASSUME NEW g, NEW S, IsFiniteSet(S), NEW a, NEW b, Sums(g, S, a), Sums(g, S, b)
  PROVE  a = b
<1>1. ASSUME NEW s \in SUBSET S, a[s] # b[s] PROVE FALSE
  <2>1. PICK Bad : Bad = {t \in SUBSET S : a[t] # b[t]}
    OBVIOUS
  <2>2. Bad \in SUBSET SUBSET S /\ Bad # {}
    BY <1>1, <2>1
  <2>3. PICK T \in Bad : \A U \in SUBSET T : U # T => U \notin Bad
    BY <2>2, Smallest
  <2>4. T \in SUBSET S /\ a[T] # b[T]
    BY <2>1
  <2>5. T # {}
    BY <2>4, SumsAt
  <2>6. PICK U : U = T \ {First(T)}
    OBVIOUS
  <2>7. U \in SUBSET T /\ U # T /\ U \in SUBSET S
    BY <2>4, <2>5, <2>6, FirstIn
  <2>8. a[U] = b[U]
    BY <2>1, <2>3, <2>7
  <2>9. a[T] = g[First(T)] + a[U]
    <3>1. a[T] = IF T = {} THEN 0 ELSE g[First(T)] + a[T \ {First(T)}]
      BY <2>4, SumsAt
    <3>2. QED
      BY <2>5, <2>6, <3>1
  <2>10. b[T] = g[First(T)] + b[U]
    <3>1. b[T] = IF T = {} THEN 0 ELSE g[First(T)] + b[T \ {First(T)}]
      BY <2>4, SumsAt
    <3>2. QED
      BY <2>5, <2>6, <3>1
  <2>11. QED
    BY <2>4, <2>8, <2>9, <2>10
<1>2. a = [s \in SUBSET S |-> a[s]] /\ b = [s \in SUBSET S |-> b[s]]
  BY DEF Sums
<1>3. QED
  BY <1>1, <1>2

\* The sum of g over s.
Sum(g, s) == (CHOOSE sum : Sums(g, s, sum))[s]

\* What is computed for the subsets of a set is computed for those of a subset.
LEMMA SumsRestrict ==
  ASSUME NEW g, NEW S, NEW a, Sums(g, S, a), NEW T \in SUBSET S
  PROVE  Sums(g, T, [s \in SUBSET T |-> a[s]])
<1> DEFINE b == [s \in SUBSET T |-> a[s]]
<1>1. \A s \in SUBSET T : b[s] = IF s = {} THEN 0 ELSE g[First(s)] + b[s \ {First(s)}]
  <2> TAKE s \in SUBSET T
  <2>1. s \in SUBSET S /\ s \ {First(s)} \in SUBSET T
    OBVIOUS
  <2>2. a[s] = IF s = {} THEN 0 ELSE g[First(s)] + a[s \ {First(s)}]
    BY <2>1, SumsAt
  <2>3. b[s] = a[s] /\ b[s \ {First(s)}] = a[s \ {First(s)}]
    BY <2>1
  <2>4. QED
    BY <2>2, <2>3
<1>2. b = [s \in SUBSET T |-> b[s]]
  OBVIOUS
<1> HIDE DEF b
<1>3. b = [s \in SUBSET T |-> IF s = {} THEN 0 ELSE g[First(s)] + b[s \ {First(s)}]]
  BY <1>1, <1>2
<1>4. Sums(g, T, b)
  BY <1>3 DEF Sums
<1>5. QED
  BY <1>4 DEF b

LEMMA SumIs ==
  ASSUME NEW g, NEW S, IsFiniteSet(S), NEW a, Sums(g, S, a), NEW T \in SUBSET S
  PROVE  Sum(g, T) = a[T]
<1>1. PICK b : b = [s \in SUBSET T |-> a[s]]
  OBVIOUS
<1>2. Sums(g, T, b) /\ b[T] = a[T]
  BY <1>1, SumsRestrict
<1>3. PICK c : c = CHOOSE sum : Sums(g, T, sum)
  OBVIOUS
<1>4. Sums(g, T, c)
  BY <1>2, <1>3
<1>5. b = c
  BY <1>2, <1>4, SumsUnique, FS_Subset
<1>6. QED
  BY <1>2, <1>3, <1>5 DEF Sum

\* MapThenSumSet's function is there for every finite set, and unfolds.
LEMMA SumsExist ==
  ASSUME NEW g, NEW S, IsFiniteSet(S)
  PROVE  \E a : Sums(g, S, a)
<1> SUFFICES ASSUME ~ \E a : Sums(g, S, a) PROVE FALSE
  OBVIOUS
<1>1. PICK Bad : Bad = {t \in SUBSET S : ~ \E a : Sums(g, t, a)}
  OBVIOUS
<1>2. Bad \in SUBSET SUBSET S /\ Bad # {}
  BY <1>1
<1>3. PICK T \in Bad : IsFiniteSet(T) /\ \A U \in SUBSET T : U # T => U \notin Bad
  BY <1>2, Smallest
<1>4. T \in SUBSET S /\ ~ \E a : Sums(g, T, a)
  BY <1>1
<1>5. PICK a : a = [s \in SUBSET T |-> IF s = {} THEN 0 ELSE g[First(s)] + Sum(g, s \ {First(s)})]
  OBVIOUS
<1>6. \A s \in SUBSET T : a[s] = IF s = {} THEN 0 ELSE g[First(s)] + Sum(g, s \ {First(s)})
  BY <1>5
<1>7. ASSUME NEW U \in SUBSET T, U # T PROVE a[U] = Sum(g, U)
  <2>1. PICK b : Sums(g, U, b)
    BY <1>1, <1>3, <1>4, <1>7
  <2>2. IsFiniteSet(U)
    BY <1>3, FS_Subset
  <2>3. Sum(g, U) = b[U]
    BY <2>1, <2>2, SumIs
  <2>4. b[U] = IF U = {} THEN 0 ELSE g[First(U)] + b[U \ {First(U)}]
    BY <2>1, SumsAt
  <2>5. b[U \ {First(U)}] = Sum(g, U \ {First(U)})
    <3>1. U \ {First(U)} \in SUBSET U
      OBVIOUS
    <3>2. QED
      BY <2>1, <2>2, <3>1, SumIs
  <2>6. QED
    BY <1>6, <2>3, <2>4, <2>5
<1>8. \A s \in SUBSET T : s # {} => a[s \ {First(s)}] = Sum(g, s \ {First(s)})
  <2> SUFFICES ASSUME NEW s \in SUBSET T, s # {} PROVE a[s \ {First(s)}] = Sum(g, s \ {First(s)})
    OBVIOUS
  <2>1. s \ {First(s)} \in SUBSET T /\ s \ {First(s)} # T
    BY FirstIn
  <2>2. QED
    BY <1>7, <2>1
<1>9. \A s \in SUBSET T : a[s] = IF s = {} THEN 0 ELSE g[First(s)] + a[s \ {First(s)}]
  BY <1>6, <1>8
<1>10. a = [s \in SUBSET T |-> a[s]]
  BY <1>5
<1>11. a = [s \in SUBSET T |-> IF s = {} THEN 0 ELSE g[First(s)] + a[s \ {First(s)}]]
  BY <1>9, <1>10
<1>12. QED
  BY <1>4, <1>11 DEF Sums

LEMMA SumUnfolds ==
  ASSUME NEW g, NEW s, IsFiniteSet(s)
  PROVE  Sum(g, s) = IF s = {} THEN 0 ELSE g[First(s)] + Sum(g, s \ {First(s)})
<1>1. PICK a : Sums(g, s, a)
  BY SumsExist
<1>2. s \in SUBSET s /\ s \ {First(s)} \in SUBSET s
  OBVIOUS
<1>3. Sum(g, s) = a[s]
  BY <1>1, <1>2, SumIs
<1>4. Sum(g, s \ {First(s)}) = a[s \ {First(s)}]
  BY <1>1, <1>2, SumIs
<1>5. a[s] = IF s = {} THEN 0 ELSE g[First(s)] + a[s \ {First(s)}]
  BY <1>1, <1>2, SumsAt
<1>6. QED
  BY <1>3, <1>4, <1>5

\* MapThenSumSet of what g is on S.
LEMMA MapThenSumIs ==
  ASSUME NEW g, NEW S, IsFiniteSet(S)
  PROVE  MapThenSumSet(LAMBDA x : g[x], S) = Sum(g, S)
<1>1. PICK a : Sums(g, S, a)
  BY SumsExist
<1>2. \A b : Sums(g, S, b) => b = a
  BY <1>1, SumsUnique
<1>3. a = CHOOSE b : Sums(g, S, b)
  BY <1>1, <1>2
<1>4. Sum(g, S) = a[S]
  BY <1>3 DEF Sum
<1>5. MapThenSumSet(LAMBDA x : g[x], S) = a[S]
  BY <1>3 DEF MapThenSumSet, MapThenFoldSet, Sums, First
<1>6. QED
  BY <1>4, <1>5

LEMMA SumTyped ==
  ASSUME NEW g, NEW S, IsFiniteSet(S), \A x \in S : g[x] \in Int
  PROVE  Sum(g, S) \in Int
<1> SUFFICES ASSUME Sum(g, S) \notin Int PROVE FALSE
  OBVIOUS
<1>1. PICK Bad : Bad = {t \in SUBSET S : Sum(g, t) \notin Int}
  OBVIOUS
<1>2. Bad \in SUBSET SUBSET S /\ Bad # {}
  BY <1>1
<1>3. PICK T \in Bad : IsFiniteSet(T) /\ \A U \in SUBSET T : U # T => U \notin Bad
  BY <1>2, Smallest
<1>4. T \in SUBSET S /\ Sum(g, T) \notin Int
  BY <1>1
<1>5. Sum(g, T) = IF T = {} THEN 0 ELSE g[First(T)] + Sum(g, T \ {First(T)})
  BY <1>3, SumUnfolds
<1>6. CASE T = {}
  BY <1>4, <1>5, <1>6
<1>7. CASE T # {}
  <2>1. First(T) \in T
    BY <1>7, FirstIn
  <2>2. T \ {First(T)} \notin Bad /\ T \ {First(T)} \in SUBSET S
    BY <1>3, <1>4, <2>1
  <2>3. Sum(g, T \ {First(T)}) \in Int
    BY <1>1, <2>2
  <2>4. QED
    BY <1>4, <1>5, <1>7, <2>1, <2>3
<1>8. QED
  BY <1>6, <1>7

\* Any member may be taken first.
LEMMA SumTakes ==
  ASSUME NEW g, NEW S, IsFiniteSet(S), \A y \in S : g[y] \in Int, NEW x \in S
  PROVE  Sum(g, S) = g[x] + Sum(g, S \ {x})
<1> DEFINE Wrong(t) == \E y \in t : Sum(g, t) # g[y] + Sum(g, t \ {y})
<1> SUFFICES ASSUME Wrong(S) PROVE FALSE
  OBVIOUS
<1>1. PICK Bad : Bad = {t \in SUBSET S : Wrong(t)}
  OBVIOUS
<1>2. Bad \in SUBSET SUBSET S /\ Bad # {}
  BY <1>1
<1>3. PICK T \in Bad : IsFiniteSet(T) /\ \A U \in SUBSET T : U # T => U \notin Bad
  BY <1>2, Smallest
<1>4. T \in SUBSET S /\ Wrong(T)
  BY <1>1
<1>5. PICK y \in T : Sum(g, T) # g[y] + Sum(g, T \ {y})
  BY <1>4
<1>6. PICK z : z = First(T)
  OBVIOUS
<1>7. z \in T /\ Sum(g, T) = g[z] + Sum(g, T \ {z})
  BY <1>3, <1>5, <1>6, FirstIn, SumUnfolds
<1>8. y # z
  BY <1>5, <1>7
<1>9. \A U \in SUBSET T : U # T => \A u \in U : Sum(g, U) = g[u] + Sum(g, U \ {u})
  BY <1>1, <1>3, <1>4
<1>10. Sum(g, T \ {z}) = g[y] + Sum(g, (T \ {z}) \ {y})
  BY <1>7, <1>8, <1>9
<1>11. Sum(g, T \ {y}) = g[z] + Sum(g, (T \ {y}) \ {z})
  BY <1>5, <1>7, <1>8, <1>9
<1>12. (T \ {z}) \ {y} = (T \ {y}) \ {z}
  OBVIOUS
<1>13. g[y] \in Int /\ g[z] \in Int /\ Sum(g, (T \ {y}) \ {z}) \in Int
  <2>1. IsFiniteSet((T \ {y}) \ {z})
    BY <1>3, FS_Subset
  <2>2. \A u \in (T \ {y}) \ {z} : g[u] \in Int
    BY <1>4
  <2>3. QED
    BY <1>4, <1>5, <1>7, <2>1, <2>2, SumTyped
<1>14. PICK n \in Int : n = Sum(g, (T \ {y}) \ {z})
  BY <1>13
<1>15. Sum(g, (T \ {z}) \ {y}) = n
  BY <1>12, <1>14
<1>16. Sum(g, T) = g[z] + (g[y] + n)
  BY <1>7, <1>10, <1>15
<1>17. g[y] + Sum(g, T \ {y}) = g[y] + (g[z] + n)
  BY <1>11, <1>14
<1>18. g[z] + (g[y] + n) = g[y] + (g[z] + n)
  BY <1>13
<1>19. QED
  BY <1>5, <1>16, <1>17, <1>18

\* Only what a function is on the set counts.
LEMMA SumAgrees ==
  ASSUME NEW g, NEW h, NEW S, IsFiniteSet(S), \A x \in S : g[x] = h[x]
  PROVE  Sum(g, S) = Sum(h, S)
<1> SUFFICES ASSUME Sum(g, S) # Sum(h, S) PROVE FALSE
  OBVIOUS
<1>1. PICK Bad : Bad = {t \in SUBSET S : Sum(g, t) # Sum(h, t)}
  OBVIOUS
<1>2. Bad \in SUBSET SUBSET S /\ Bad # {}
  BY <1>1
<1>3. PICK T \in Bad : IsFiniteSet(T) /\ \A U \in SUBSET T : U # T => U \notin Bad
  BY <1>2, Smallest
<1>4. T \in SUBSET S /\ Sum(g, T) # Sum(h, T)
  BY <1>1
<1>5. Sum(g, T) = IF T = {} THEN 0 ELSE g[First(T)] + Sum(g, T \ {First(T)})
  BY <1>3, SumUnfolds
<1>6. Sum(h, T) = IF T = {} THEN 0 ELSE h[First(T)] + Sum(h, T \ {First(T)})
  BY <1>3, SumUnfolds
<1>7. T # {}
  BY <1>4, <1>5, <1>6
<1>8. First(T) \in T
  BY <1>7, FirstIn
<1>9. Sum(g, T \ {First(T)}) = Sum(h, T \ {First(T)})
  BY <1>1, <1>3, <1>4, <1>8
<1>10. g[First(T)] = h[First(T)]
  BY <1>4, <1>8
<1>11. QED
  BY <1>4, <1>5, <1>6, <1>7, <1>9, <1>10

\* One summand changes.
LEMMA SumChanges ==
  ASSUME NEW g, NEW h, NEW S, IsFiniteSet(S), \A y \in S : g[y] \in Int /\ h[y] \in Int,
         NEW x \in S, \A y \in S \ {x} : g[y] = h[y]
  PROVE  Sum(h, S) = Sum(g, S) - g[x] + h[x]
<1>1. IsFiniteSet(S \ {x}) /\ \A y \in S \ {x} : g[y] \in Int
  BY FS_Subset
<1>2. Sum(g, S \ {x}) = Sum(h, S \ {x})
  BY <1>1, SumAgrees
<1>3. Sum(g, S \ {x}) \in Int
  BY <1>1, SumTyped
<1>4. Sum(g, S) = g[x] + Sum(g, S \ {x})
  BY SumTakes
<1>5. Sum(h, S) = h[x] + Sum(h, S \ {x})
  BY SumTakes
<1>6. QED
  BY <1>2, <1>3, <1>4, <1>5

\* Fewer summands, and smaller ones, make less, when the others are not negative.
LEMMA SumBounds ==
  ASSUME NEW g, NEW h, NEW S, IsFiniteSet(S), NEW T \in SUBSET S,
         \A x \in S : h[x] \in Nat, \A x \in T : g[x] \in Int /\ g[x] <= h[x]
  PROVE  Sum(g, T) <= Sum(h, S)
<1> DEFINE Wrong(s) == ~(Sum(g, T \cap s) <= Sum(h, s))
<1> SUFFICES ASSUME Wrong(S) PROVE FALSE
  <2>1. T \cap S = T
    OBVIOUS
  <2>2. QED
    BY <2>1
<1>1. PICK Bad : Bad = {s \in SUBSET S : Wrong(s)}
  OBVIOUS
<1>2. Bad \in SUBSET SUBSET S /\ Bad # {}
  BY <1>1
<1>3. PICK s \in Bad : IsFiniteSet(s) /\ \A u \in SUBSET s : u # s => u \notin Bad
  BY <1>2, Smallest
<1>4. s \in SUBSET S /\ Wrong(s)
  BY <1>1
<1>5. IsFiniteSet(T \cap s) /\ \A x \in T \cap s : g[x] \in Int
  BY <1>3, FS_Subset
<1>6. \A x \in s : h[x] \in Int
  BY <1>4
<1>7. s # {}
  <2>1. Sum(g, {}) = 0 /\ Sum(h, {}) = 0
    BY SumUnfolds, FS_EmptySet
  <2>2. SUFFICES ASSUME s = {} PROVE FALSE
    OBVIOUS
  <2>3. T \cap s = {}
    BY <2>2
  <2>4. QED
    BY <1>4, <2>1, <2>2, <2>3
<1>8. PICK x \in s : TRUE
  BY <1>7
<1>9. PICK u \in SUBSET s : u = s \ {x} /\ IsFiniteSet(u)
  <2>1. s \ {x} \in SUBSET s
    OBVIOUS
  <2>2. IsFiniteSet(s \ {x})
    BY <1>3, <2>1, FS_Subset
  <2>3. QED
    BY <2>1, <2>2
<1>10. ~Wrong(u)
  BY <1>1, <1>3, <1>4, <1>9
<1>11. Sum(h, s) = h[x] + Sum(h, u) /\ h[x] \in Nat
  BY <1>3, <1>4, <1>6, <1>9, SumTakes
<1>12. Sum(h, u) \in Int /\ Sum(g, T \cap u) \in Int
  <2>1. IsFiniteSet(T \cap u) /\ \A y \in T \cap u : g[y] \in Int
    BY <1>9, FS_Subset
  <2>2. \A y \in u : h[y] \in Int
    BY <1>6, <1>9
  <2>3. QED
    BY <1>9, <2>1, <2>2, SumTyped
<1>13. CASE x \in T
  <2>1. x \in T \cap s /\ (T \cap s) \ {x} = T \cap u
    BY <1>9, <1>13
  <2>2. Sum(g, T \cap s) = g[x] + Sum(g, T \cap u)
    BY <1>5, <2>1, SumTakes
  <2>3. g[x] \in Int /\ g[x] <= h[x]
    BY <1>13
  <2>4. Sum(g, T \cap u) <= Sum(h, u)
    BY <1>10
  <2>5. Sum(g, T \cap s) <= Sum(h, s)
    BY <1>11, <1>12, <2>2, <2>3, <2>4
  <2>6. QED
    BY <1>4, <2>5
<1>14. CASE x \notin T
  <2>1. T \cap s = T \cap u
    BY <1>9, <1>14
  <2>2. Sum(g, T \cap u) <= Sum(h, u)
    BY <1>10
  <2>3. Sum(g, T \cap u) <= Sum(h, s)
    BY <1>11, <1>12, <2>2
  <2>4. QED
    BY <1>4, <2>1, <2>3
<1>15. QED
  BY <1>13, <1>14

\* Members that count for nothing may be left out.
LEMMA SumZeros ==
  ASSUME NEW g, NEW S, IsFiniteSet(S), NEW T \in SUBSET S,
         \A x \in S : g[x] \in Int, \A x \in S \ T : g[x] = 0
  PROVE  Sum(g, S) = Sum(g, T)
<1> DEFINE Wrong(s) == Sum(g, s) # Sum(g, T \cap s)
<1> SUFFICES ASSUME Wrong(S) PROVE FALSE
  <2>1. T \cap S = T
    OBVIOUS
  <2>2. QED
    BY <2>1
<1>1. PICK Bad : Bad = {s \in SUBSET S : Wrong(s)}
  OBVIOUS
<1>2. Bad \in SUBSET SUBSET S /\ Bad # {}
  BY <1>1
<1>3. PICK s \in Bad : IsFiniteSet(s) /\ \A u \in SUBSET s : u # s => u \notin Bad
  BY <1>2, Smallest
<1>4. s \in SUBSET S /\ Wrong(s)
  BY <1>1
<1>5. PICK x \in s : x \notin T
  <2> SUFFICES ASSUME s \subseteq T PROVE FALSE
    OBVIOUS
  <2>1. T \cap s = s
    OBVIOUS
  <2>2. QED
    BY <1>4, <2>1
<1>6. PICK u \in SUBSET s : u = s \ {x}
  OBVIOUS
<1>7. Sum(g, u) = Sum(g, T \cap u)
  BY <1>1, <1>3, <1>4, <1>6
<1>8. T \cap u = T \cap s
  BY <1>5, <1>6
<1>9. g[x] = 0 /\ \A y \in s : g[y] \in Int
  BY <1>4, <1>5
<1>10. Sum(g, s) = g[x] + Sum(g, u)
  BY <1>3, <1>6, <1>9, SumTakes
<1>11. Sum(g, u) \in Int
  <2>1. IsFiniteSet(u) /\ \A y \in u : g[y] \in Int
    BY <1>3, <1>9, FS_Subset
  <2>2. QED
    BY <2>1, SumTyped
<1>12. Sum(g, s) = Sum(g, u)
  BY <1>9, <1>10, <1>11
<1>13. QED
  BY <1>4, <1>7, <1>8, <1>12

-----------------------------------------------------------------------------
(* What a quota covers.                                                    *)

(***************************************************************************)
(* Why QuotaCoversCompleted holds.  Every id belongs to one subject: that  *)
(* of the owner of its row, and of every request for it, which has seen    *)
(* that owner.  So the bytes of a file are added to and taken from one     *)
(* quota, and that quota is at least the sum of what is left of the files  *)
(* of its subject, gone or not; it is more only where GREATEST(0, ..) cut a*)
(* refund short.                                                           *)
(***************************************************************************)
Balance == [f \in FileIds |-> charged[f] - TotalRefunded(f)]
FilesOf(own, s) == {f \in issued \cap FileIds : own[f] = s}

OwnersKnown(own) ==
    /\ own \in [FileIds -> Subjects \cup {None}]
    /\ \A f \in FileIds : HasRow(f) => own[f] = QuotaSubject(files[f].owner)
    /\ \A h \in Handlers : req[h].pc \notin {"idle", "p_create"} =>
          own[req[h].file] = QuotaSubject(req[h].who)

SpentInv ==
    /\ IsFiniteSet(issued)
    /\ \A f \in FileIds \ issued : charged[f] = 0
    /\ \E own : /\ OwnersKnown(own)
                /\ \A s \in Subjects : Sum(Balance, FilesOf(own, s)) <= quota[s]

LEMMA InitSpent == UploadsInit => SpentInv
<1> SUFFICES ASSUME UploadsInit PROVE SpentInv
  OBVIOUS
<1>1. PICK own : own = [f \in FileIds |-> None]
  OBVIOUS
<1>2. OwnersKnown(own)
  BY <1>1 DEF UploadsInit, BaseInit, OwnersKnown, HasRow, IdleReq
<1>3. ASSUME NEW s \in Subjects PROVE Sum(Balance, FilesOf(own, s)) <= quota[s]
  <2>1. FilesOf(own, s) = {}
    BY DEF UploadsInit, BaseInit, FilesOf
  <2>2. Sum(Balance, {}) = 0
    BY SumUnfolds, FS_EmptySet
  <2>3. quota[s] = 0
    BY DEF UploadsInit, BaseInit
  <2>4. QED
    BY <2>1, <2>2, <2>3
<1>4. IsFiniteSet(issued) /\ \A f \in FileIds \ issued : charged[f] = 0
  BY FS_EmptySet DEF UploadsInit, BaseInit
<1>5. QED
  BY <1>2, <1>3, <1>4 DEF SpentInv

\* A request that goes on keeps its caller; one that arrives brings its own.
LEMMA RequestKeepsCaller ==
  ASSUME req \in [Handlers -> Request], NEW g \in Handlers, NEW h \in Handlers,
         req'[h].pc \notin {"idle", "p_create"}
  PROVE  /\ \A pc : Goto(g, pc) /\ req[g].pc \notin {"idle", "p_create"} =>
              /\ req[h].pc \notin {"idle", "p_create"}
              /\ req'[h].file = req[h].file /\ req'[h].who = req[h].who
         /\ Return(g) =>
              /\ req[h].pc \notin {"idle", "p_create"}
              /\ req'[h].file = req[h].file /\ req'[h].who = req[h].who
         /\ \A pc, p, f, j, kind, size : Accept(g, pc, p, f, j, kind, size) =>
              \/ /\ req[h].pc \notin {"idle", "p_create"}
                 /\ req'[h].file = req[h].file /\ req'[h].who = req[h].who
              \/ pc # "p_create" /\ req'[h].file = f /\ req'[h].who = p
  BY DEF Goto, Return, Accept, IdleReq, Request

(* Every request for a file acts for a caller whose file it is, or was     *)
(* when the request looked.                                                *)
LEMMA RequestsKnowOwner ==
  ASSUME TypeOK, LedgerInv, [UploadsNext]_uploadsVars,
         NEW h \in Handlers, req'[h].pc \notin {"idle", "p_create"}
  PROVE  \/ /\ req[h].pc \notin {"idle", "p_create"}
            /\ req'[h].file = req[h].file /\ req'[h].who = req[h].who
         \/ req'[h].file \in FileIds /\ OwnedBy(req'[h].file, req'[h].who)
<1> DEFINE Stays == /\ req[h].pc \notin {"idle", "p_create"}
                    /\ req'[h].file = req[h].file /\ req'[h].who = req[h].who
           Comes == req'[h].file \in FileIds /\ OwnedBy(req'[h].file, req'[h].who)
<1>1. req \in [Handlers -> Request]
  BY DEF TypeOK, BaseTypeOK, ReqTypeOK
<1>2. ASSUME UNCHANGED req PROVE Stays
  BY <1>2
<1>3. ASSUME NEW g \in Handlers, PresignCheck(g) PROVE Stays
  BY <1>1, <1>3, RequestKeepsCaller DEF PresignCheck
<1>4. ASSUME NEW g \in Handlers, CompleteStart(g) \/ DeleteStart(g) PROVE Stays \/ Comes
  BY <1>1, <1>4, RequestKeepsCaller DEF CompleteStart, DeleteStart
<1>5. ASSUME NEW g \in Handlers, RetryStart(g) PROVE Stays \/ Comes
  <2>1. PICK p \in Principals, j \in JobIds :
          /\ jobs[j] # None /\ OwnedBy(jobs[j].file, p)
          /\ Accept(g, "r_queued", p, jobs[j].file, j, "image", 0)
    BY <1>5 DEF RetryStart
  <2>2. jobs[j].file \in FileIds
    BY <2>1 DEF TypeOK, BaseTypeOK, JobsTypeOK, JobRow
  <2>3. QED
    BY <1>1, <2>1, <2>2, RequestKeepsCaller
<1>6. ASSUME NEW g \in Handlers, CompleteStat(g) PROVE Stays
  <2>1. CASE Return(g) \/ Goto(g, "c_drop")
    BY <1>1, <1>6, <2>1, RequestKeepsCaller DEF CompleteStat
  <2>2. ASSUME NEW size, NEW etag,
               req' = [req EXCEPT ![g] = [@ EXCEPT !.pc = "c_head", !.size = size, !.etag = etag]]
        PROVE  Stays
    <3> DEFINE new == [req[g] EXCEPT !.pc = "c_head", !.size = size, !.etag = etag]
    <3>1. new.file = req[g].file /\ new.who = req[g].who
      BY <1>1 DEF Request
    <3>2. req' = [req EXCEPT ![g] = new]
      BY <2>2
    <3> HIDE DEF new
    <3>3. req[g].pc = "c_stat"
      BY <1>6 DEF CompleteStat
    <3>4. QED
      BY <1>1, <3>1, <3>2, <3>3
  <2> HIDE DEF Stays
  <2>3. QED
    BY <1>6, <2>1, <2>2 DEF CompleteStat
<1>7. ASSUME NEW g \in Handlers, CompleteJob(g) PROVE Stays
  <2>1. CASE Return(g)
    BY <1>1, <2>1, RequestKeepsCaller
  <2>2. ASSUME NEW j, req' = [req EXCEPT ![g] = [@ EXCEPT !.pc = "pend", !.job = j]]
        PROVE  Stays
    <3> DEFINE new == [req[g] EXCEPT !.pc = "pend", !.job = j]
    <3>1. new.file = req[g].file /\ new.who = req[g].who
      BY <1>1 DEF Request
    <3>2. req' = [req EXCEPT ![g] = new]
      BY <2>2
    <3> HIDE DEF new
    <3>3. req[g].pc = "c_job"
      BY <1>7 DEF CompleteJob
    <3>4. QED
      BY <1>1, <3>1, <3>2, <3>3
  <2> HIDE DEF Stays
  <2>3. QED
    BY <1>7, <2>1, <2>2 DEF CompleteJob
<1>8. ASSUME NEW g \in Handlers, MarkPending(g) \/ RetryQueued(g) \/ CompleteReady(g) \/ DeleteRow(g)
             \/ CompleteHead(g)
      PROVE  Stays
  BY <1>1, <1>8, RequestKeepsCaller
     DEF MarkPending, RetryQueued, CompleteReady, DeleteRow, CompleteHead, GotoIf
<1>9. ASSUME NEW g \in Handlers,
             EnqueueFails(g) \/ UndoJob(g) \/ RejectObject(g) \/ CompleteCharge(g) \/ DeleteObjects(g)
      PROVE  Stays
  BY <1>1, <1>9, RequestKeepsCaller
     DEF EnqueueFails, UndoJob, RejectObject, CompleteCharge, DeleteObjects
<1>10. ASSUME NEW g \in Handlers,
              EnqueueOK(g) \/ UndoFile(g) \/ Abort(g) \/ PresignCreate(g) \/ CompleteDrop(g)
              \/ RejectRow(g) \/ DeleteRefund(g)
       PROVE  Stays
  BY <1>1, <1>10, RequestKeepsCaller
     DEF EnqueueOK, UndoFile, Abort, PresignCreate, CompleteDrop, RejectRow, DeleteRefund
<1>11. ASSUME NEW f \in FileIds, Put(f) PROVE UNCHANGED req
  BY <1>11 DEF Put
<1>12. ASSUME UNCHANGED uploadsVars PROVE Stays
  BY <1>2, <1>12 DEF uploadsVars, baseVars
<1> HIDE DEF Stays, Comes
<1>13. Stays \/ Comes
  BY <1>2, <1>3, <1>4, <1>5, <1>6, <1>7, <1>8, <1>9, <1>10, <1>11, <1>12
     DEF UploadsNext, PresignStep, CompleteStep, DeleteStep, JobsStep
<1>14. QED
  BY <1>13 DEF Stays, Comes

\* No UPDATE changes the owner or the kind of a row; only the INSERT of a new id sets them.
LEMMA RowsKeepOwner ==
  ASSUME TypeOK, RefundInv, [UploadsNext]_uploadsVars, NEW f \in FileIds, HasRow(f)'
  PROVE  \/ HasRow(f) /\ files'[f].owner = files[f].owner /\ files'[f].kind = files[f].kind
         \/ f \notin issued
<1> DEFINE Same == HasRow(f) /\ files'[f].owner = files[f].owner /\ files'[f].kind = files[f].kind
<1>1. FilesTypeOK
  BY DEF TypeOK, BaseTypeOK
<1>2. ASSUME NEW g, NEW row, HasRow(g) => row.owner = files[g].owner /\ row.kind = files[g].kind,
             UpdateRow(g, row)
      PROVE  Same
  BY <1>1, <1>2 DEF UpdateRow, FilesTypeOK, HasRow
<1>3. \A g : DeleteFileRow(g) => Same
  BY <1>1 DEF DeleteFileRow, FilesTypeOK, HasRow
<1>4. UNCHANGED files => Same
  BY DEF HasRow
<1>5. ASSUME NEW h \in Handlers, PresignCreate(h) PROVE Same \/ f \notin issued
  BY <1>1, <1>5 DEF PresignCreate, CreatePendingFile, FilesTypeOK, HasRow
<1>6. ASSUME NEW h \in Handlers, MarkPending(h) \/ UndoFile(h) \/ CompleteReady(h) PROVE Same
  <2>1. req[h].file \in FileIds
    BY <1>6 DEF TypeOK, BaseTypeOK, ReqTypeOK, MarkPending, UndoFile, CompleteReady
  <2>2. ASSUME NEW status, SetFileStatus(req[h].file, status) PROVE Same
    <3> DEFINE row == [files[req[h].file] EXCEPT !.status = status]
    <3>1. HasRow(req[h].file) => row.owner = files[req[h].file].owner /\ row.kind = files[req[h].file].kind
      BY <1>1, <2>1 DEF FilesTypeOK, FileRow, HasRow
    <3>2. UpdateRow(req[h].file, row)
      BY <2>2 DEF SetFileStatus
    <3> HIDE DEF row
    <3>3. QED
      BY <1>2, <3>1, <3>2
  <2>3. ASSUME NEW size, MarkFileReady(req[h].file, size) PROVE Same
    <3> DEFINE row == [files[req[h].file] EXCEPT !.status = "ready", !.size = size]
    <3>1. HasRow(req[h].file) => row.owner = files[req[h].file].owner /\ row.kind = files[req[h].file].kind
      BY <1>1, <2>1 DEF FilesTypeOK, FileRow, HasRow
    <3>2. UpdateRow(req[h].file, row)
      BY <2>3 DEF MarkFileReady
    <3> HIDE DEF row
    <3>3. QED
      BY <1>2, <3>1, <3>2
  <2> HIDE DEF Same
  <2>4. QED
    BY <1>4, <1>6, <2>2, <2>3 DEF MarkPending, UndoFile, CompleteReady
<1>7. ASSUME NEW h \in Handlers, RejectRow(h) \/ DeleteRow(h) PROVE Same
  BY <1>3, <1>4, <1>7 DEF RejectRow, DeleteRow
<1>8. ASSUME NEW h \in Handlers,
             \/ RetryStart(h) \/ RetryQueued(h) \/ EnqueueOK(h) \/ EnqueueFails(h) \/ UndoJob(h) \/ Abort(h)
             \/ PresignCheck(h) \/ CompleteStart(h) \/ CompleteStat(h) \/ CompleteDrop(h)
             \/ CompleteHead(h) \/ RejectObject(h) \/ CompleteCharge(h) \/ CompleteJob(h)
             \/ DeleteStart(h) \/ DeleteObjects(h) \/ DeleteRefund(h)
      PROVE  Same
  <2>1. UNCHANGED files
    BY <1>8 DEF storeVars, RetryStart, RetryQueued, EnqueueOK, EnqueueFails, UndoJob, Abort,
                PresignCheck, CompleteStart, CompleteStat, CompleteDrop, CompleteHead, RejectObject,
                CompleteCharge, CompleteJob, DeleteStart, DeleteObjects, DeleteRefund
  <2>2. QED
    BY <1>4, <2>1
<1>9. ASSUME NEW g \in FileIds, Put(g) PROVE Same
  BY <1>4, <1>9 DEF Put, storeVars
<1>10. ASSUME UNCHANGED uploadsVars PROVE Same
  BY <1>4, <1>10 DEF uploadsVars, baseVars, storeVars
<1> HIDE DEF Same
<1>11. Same \/ f \notin issued
  BY <1>5, <1>6, <1>7, <1>8, <1>9, <1>10
     DEF UploadsNext, PresignStep, CompleteStep, DeleteStep, JobsStep
<1>12. QED
  BY <1>11 DEF Same

\* A balance is an integer, and nothing is due for an id that is not handed out.
LEMMA BalanceTyped ==
  ASSUME TypeOK, RefundInv, \A f \in FileIds \ issued : charged[f] = 0
  PROVE  \A f \in FileIds : Balance[f] \in Int /\ (f \notin issued => Balance[f] = 0)
<1> SUFFICES ASSUME NEW f \in FileIds
             PROVE  Balance[f] \in Int /\ (f \notin issued => Balance[f] = 0)
  OBVIOUS
<1>1. Balance[f] = charged[f] - TotalRefunded(f)
  BY DEF Balance
<1>2. charged[f] \in Nat /\ refunds[f] \in Seq(Nat)
  BY DEF TypeOK
<1>3. TotalRefunded(f) \in Nat
  BY <1>2 DEF TotalRefunded
<1>4. f \notin issued => charged[f] = 0 /\ TotalRefunded(f) = 0
  BY DEF RefundInv, TotalRefunded
<1>5. QED
  BY <1>1, <1>2, <1>3, <1>4

(* One amount moves between a quota and the balance of one file of its     *)
(* subject; the quota may keep more of it.                                 *)
Moves(h, d) ==
    LET s == QuotaSubject(req[h].who) IN
    /\ req[h].pc \notin {"idle", "p_create"}
    /\ Balance'[req[h].file] = Balance[req[h].file] + d
    /\ \A f \in FileIds : f # req[h].file => Balance'[f] = Balance[f]
    /\ quota'[s] >= quota[s] + d
    /\ \A t \in Subjects : t # s => quota'[t] = quota[t]

LEMMA SpentMoves ==
  ASSUME TypeOK, TypeOK', RefundInv, LedgerInv, SpentInv,
         issued \subseteq issued', IsFiniteSet(issued'),
         \A f \in FileIds \ issued : charged'[f] = 0,
         \A f \in FileIds : HasRow(f)' =>
            \/ HasRow(f) /\ files'[f].owner = files[f].owner
            \/ f \notin issued,
         \A h \in Handlers : req'[h].pc \notin {"idle", "p_create"} =>
            \/ /\ req[h].pc \notin {"idle", "p_create"}
               /\ req'[h].file = req[h].file /\ req'[h].who = req[h].who
            \/ req'[h].file \in FileIds /\ OwnedBy(req'[h].file, req'[h].who),
         UNCHANGED <<quota, Balance>> \/ \E h \in Handlers, d \in Int : Moves(h, d)
  PROVE  SpentInv'
<1>1. PICK own : /\ OwnersKnown(own)
                 /\ \A s \in Subjects : Sum(Balance, FilesOf(own, s)) <= quota[s]
  BY DEF SpentInv
<1>2. PICK new : new = [f \in FileIds |-> IF f \in issued THEN own[f]
                                          ELSE IF HasRow(f)' THEN QuotaSubject(files'[f].owner)
                                          ELSE None]
  OBVIOUS
<1>3. \A f \in FileIds \cap issued : new[f] = own[f]
  BY <1>2
<1>4. \A h \in Handlers : req[h].pc \notin {"idle", "p_create"} =>
        req[h].file \in FileIds \cap issued /\ own[req[h].file] = QuotaSubject(req[h].who)
        /\ QuotaSubject(req[h].who) \in Subjects
  BY <1>1, SubjectOfPrincipal DEF OwnersKnown, LedgerInv, TypeOK, BaseTypeOK, ReqTypeOK
<1>5. OwnersKnown(new)'
  <2>1. \A f \in FileIds : HasRow(f)' => QuotaSubject(files'[f].owner) \in Subjects
    BY SubjectOfPrincipal DEF TypeOK, BaseTypeOK, FilesTypeOK, FileRow, HasRow
  <2>2. own \in [FileIds -> Subjects \cup {None}]
    BY <1>1 DEF OwnersKnown
  <2>3. new \in [FileIds -> Subjects \cup {None}]
    BY <1>2, <2>1, <2>2
  <2>4. ASSUME NEW f \in FileIds, HasRow(f)' PROVE new[f] = QuotaSubject(files'[f].owner)
    <3>1. CASE f \in issued
      BY <1>1, <1>3, <2>4, <3>1 DEF OwnersKnown
    <3>2. CASE f \notin issued
      BY <1>2, <2>4, <3>2
    <3>3. QED
      BY <3>1, <3>2
  <2>5. ASSUME NEW h \in Handlers, req'[h].pc \notin {"idle", "p_create"}
        PROVE  new[req'[h].file] = QuotaSubject(req'[h].who)
    <3>1. CASE /\ req[h].pc \notin {"idle", "p_create"}
               /\ req'[h].file = req[h].file /\ req'[h].who = req[h].who
      BY <1>3, <1>4, <3>1
    <3>2. CASE req'[h].file \in FileIds /\ OwnedBy(req'[h].file, req'[h].who)
      <4>1. req'[h].file \in issued
        BY <3>2 DEF OwnedBy, RefundInv
      <4>2. own[req'[h].file] = QuotaSubject(req'[h].who)
        BY <1>1, <3>2 DEF OwnedBy, OwnersKnown
      <4>3. QED
        BY <1>3, <3>2, <4>1, <4>2
    <3>3. QED
      BY <2>5, <3>1, <3>2
  <2>6. QED
    BY <2>3, <2>4, <2>5 DEF OwnersKnown
<1>6. PICK a : a = Balance
  OBVIOUS
<1>7. PICK b : b = Balance'
  OBVIOUS
<1>8. \A f \in FileIds : a[f] \in Int /\ b[f] \in Int
  <2>1. \A f \in FileIds : a[f] \in Int
    BY <1>6, BalanceTyped DEF SpentInv
  <2>2. \A f \in FileIds : charged'[f] \in Int /\ TotalRefunded(f)' \in Int
    BY DEF TypeOK, TotalRefunded
  <2>3. \A f \in FileIds : b[f] = charged'[f] - TotalRefunded(f)'
    BY <1>7 DEF Balance
  <2>4. QED
    BY <2>1, <2>2, <2>3
<1>9. \A f \in FileIds \ issued : b[f] = 0
  <2> SUFFICES ASSUME NEW f \in FileIds \ issued PROVE b[f] = 0
    OBVIOUS
  <2>1. a[f] = 0
    BY <1>6, BalanceTyped DEF SpentInv
  <2>2. b[f] = a[f]
    BY <1>4, <1>6, <1>7 DEF Moves
  <2>3. QED
    BY <2>1, <2>2
<1>10. ASSUME NEW s \in Subjects PROVE Sum(b, FilesOf(new, s)') <= quota'[s]
  <2>1. PICK S : S = FilesOf(own, s)
    OBVIOUS
  <2>2. PICK T : T = FilesOf(new, s)'
    OBVIOUS
  <2>3. S \in SUBSET T /\ T \in SUBSET FileIds /\ IsFiniteSet(T) /\ IsFiniteSet(S)
    <3>1. S \in SUBSET T /\ T \in SUBSET FileIds
      BY <1>3, <2>1, <2>2 DEF FilesOf
    <3>2. T \subseteq issued'
      BY <2>2 DEF FilesOf
    <3>3. QED
      BY <3>1, <3>2, FS_Subset
  <2>4. \A f \in T \ S : b[f] = 0
    BY <1>3, <1>9, <2>1, <2>2 DEF FilesOf
  <2>5. Sum(b, T) = Sum(b, S)
    BY <1>8, <2>3, <2>4, SumZeros
  <2>6. Sum(a, S) \in Int /\ Sum(a, S) <= quota[s] /\ quota[s] \in Int /\ quota'[s] \in Int
    <3>1. Sum(a, S) \in Int
      BY <1>8, <2>3, SumTyped
    <3>2. Sum(a, S) <= quota[s]
      BY <1>1, <1>6, <2>1
    <3>3. quota[s] \in Int /\ quota'[s] \in Int
      BY DEF TypeOK, BaseTypeOK, QuotaTypeOK
    <3>4. QED
      BY <3>1, <3>2, <3>3
  <2>7. Sum(b, S) <= quota'[s]
    <3>1. CASE UNCHANGED <<quota, Balance>>
      BY <1>6, <1>7, <2>6, <3>1
    <3>2. ASSUME NEW h \in Handlers, NEW d \in Int, Moves(h, d) PROVE Sum(b, S) <= quota'[s]
      <4>1. PICK f \in FileIds : f = req[h].file
        BY <1>4, <3>2 DEF Moves
      <4>2. f \in issued /\ own[f] = QuotaSubject(req[h].who)
        BY <1>4, <3>2, <4>1 DEF Moves
      <4>3. b[f] = a[f] + d /\ \A g \in FileIds : g # f => b[g] = a[g]
        BY <1>6, <1>7, <3>2, <4>1 DEF Moves
      <4>4. /\ s = own[f] => quota'[s] >= quota[s] + d
            /\ s # own[f] => quota'[s] = quota[s]
        BY <3>2, <4>2 DEF Moves
      <4>5. CASE s = own[f]
        <5>1. f \in S
          BY <2>1, <4>2, <4>5 DEF FilesOf
        <5>2. Sum(b, S) = Sum(a, S) - a[f] + b[f]
          <6>1. /\ \A g \in S : a[g] \in Int /\ b[g] \in Int
                /\ \A g \in S \ {f} : a[g] = b[g]
            BY <1>8, <2>3, <4>3
          <6>2. QED
            BY <2>3, <5>1, <6>1, SumChanges
        <5>3. PICK n \in Int : n = Sum(a, S)
          BY <2>6
        <5>4. n <= quota[s] /\ Sum(b, S) = n - a[f] + b[f]
          BY <2>6, <5>2, <5>3
        <5>5. a[f] \in Int /\ b[f] = a[f] + d
          BY <1>8, <4>3
        <5>6. Sum(b, S) = n + d
          BY <5>4, <5>5
        <5>7. quota'[s] >= quota[s] + d /\ quota[s] \in Int /\ quota'[s] \in Int
          BY <2>6, <4>4, <4>5
        <5>8. n + d <= quota'[s]
          BY <5>4, <5>7
        <5>9. QED
          BY <5>6, <5>8
      <4>6. CASE s # own[f]
        <5>1. f \notin S
          BY <2>1, <4>6 DEF FilesOf
        <5>2. \A g \in S : b[g] = a[g]
          BY <2>3, <4>3, <5>1
        <5>3. Sum(b, S) = Sum(a, S)
          BY <2>3, <5>2, SumAgrees
        <5>4. QED
          BY <2>6, <4>4, <4>6, <5>3
      <4>7. QED
        BY <4>5, <4>6
    <3>3. QED
      BY <3>1, <3>2
  <2>8. QED
    BY <2>2, <2>5, <2>7
<1>11. \A s \in Subjects : (Sum(Balance, FilesOf(new, s)) <= quota[s])'
  BY <1>7, <1>10
<1>12. \A f \in FileIds \ issued' : charged'[f] = 0
  OBVIOUS
<1>13. QED
  BY <1>5, <1>11, <1>12 DEF SpentInv

\* AddQuota adds at least what it is told to, and to one subject alone.
LEMMA AddQuotaMoves ==
  ASSUME QuotaTypeOK, NEW s \in Subjects, NEW d \in Int, AddQuota(s, d)
  PROVE  /\ quota'[s] >= quota[s] + d
         /\ \A t \in Subjects : t # s => quota'[t] = quota[t]
<1> DEFINE new == IF quota[s] + d < 0 THEN 0 ELSE quota[s] + d
<1>1. quota[s] \in Int
  BY DEF QuotaTypeOK
<1>2. new >= quota[s] + d
  BY <1>1
<1>3. quota' = [quota EXCEPT ![s] = new]
  BY DEF AddQuota
<1> HIDE DEF new
<1>4. QED
  BY <1>2, <1>3 DEF QuotaTypeOK

\* At most one id is handed out at a time.
LEMMA IssuedGrows ==
  ASSUME [UploadsNext]_uploadsVars
  PROVE  issued' = issued \/ \E x : issued' = issued \cup {x}
<1>1. ASSUME NEW h \in Handlers, PresignCreate(h) \/ CompleteJob(h)
      PROVE  issued' = issued \/ \E x : issued' = issued \cup {x}
  BY <1>1 DEF PresignCreate, CompleteJob
<1>2. QED
  BY <1>1
     DEF UploadsNext, uploadsVars, baseVars, storeVars, Put, PresignStep, CompleteStep, DeleteStep, JobsStep,
         PresignCheck, CompleteStart, CompleteStat, CompleteDrop, CompleteHead,
         RejectObject, RejectRow, CompleteCharge, CompleteReady,
         DeleteStart, DeleteObjects, DeleteRow, DeleteRefund,
         RetryStart, RetryQueued, MarkPending, EnqueueOK, EnqueueFails, UndoJob, UndoFile, Abort

\* What a charge and a refund do to quota and balance.
LEMMA ChargeMoves ==
  ASSUME TypeOK, LedgerInv, NEW h \in Handlers, CompleteCharge(h), ~UNCHANGED <<quota, Balance>>
  PROVE  Moves(h, req[h].size)
<1>1. PICK f \in FileIds : f = req[h].file
  BY DEF CompleteCharge, TypeOK, BaseTypeOK, ReqTypeOK
<1>2. PICK n \in Int : n = req[h].size
  BY DEF TypeOK, BaseTypeOK, ReqTypeOK, Request
<1>3. UNCHANGED refunds /\ req[h].pc = "c_charge" /\ QuotaSubject(req[h].who) \in Subjects
  BY SubjectOfPrincipal DEF CompleteCharge, TypeOK, BaseTypeOK, ReqTypeOK
<1>4. ~UNCHANGED <<quota, charged>>
  BY <1>3 DEF Balance, TotalRefunded
<1>5. AddQuota(QuotaSubject(req[h].who), n) /\ charged' = [charged EXCEPT ![f] = @ + n]
  BY <1>1, <1>2, <1>4 DEF CompleteCharge
<1>6. charged'[f] = charged[f] + n /\ \A g \in FileIds : g # f => charged'[g] = charged[g]
  BY <1>5 DEF TypeOK
<1>7. \A g \in FileIds : TotalRefunded(g)' = TotalRefunded(g) /\ TotalRefunded(g) \in Int
  BY <1>3 DEF TotalRefunded, TypeOK
<1>8. Balance'[f] = Balance[f] + n
  <2>1. charged[f] \in Int
    BY DEF TypeOK
  <2>2. Balance'[f] = charged'[f] - TotalRefunded(f)' /\ Balance[f] = charged[f] - TotalRefunded(f)
    BY DEF Balance
  <2>3. QED
    BY <1>6, <1>7, <2>1, <2>2
<1>9. \A g \in FileIds : g # f => Balance'[g] = Balance[g]
  BY <1>6, <1>7 DEF Balance
<1>10. QED
  BY <1>1, <1>2, <1>3, <1>5, <1>8, <1>9, AddQuotaMoves DEF Moves, TypeOK, BaseTypeOK

LEMMA RefundMoves ==
  ASSUME TypeOK, RefundInv, NEW h \in Handlers, DeleteRefund(h)
  PROVE  Moves(h, -req[h].size)
<1>1. PICK f \in FileIds : f = req[h].file
  BY DEF DeleteRefund, TypeOK, BaseTypeOK, ReqTypeOK
<1>2. PICK n \in Nat : n = req[h].size
  BY DEF TypeOK, BaseTypeOK, ReqTypeOK, Request
<1>3. /\ UNCHANGED charged /\ req[h].pc = "d_refund"
      /\ QuotaSubject(req[h].who) \in Subjects
      /\ AddQuota(QuotaSubject(req[h].who), -n)
      /\ refunds' = [refunds EXCEPT ![f] = Append(@, n)]
  BY <1>1, <1>2, SubjectOfPrincipal DEF DeleteRefund, TypeOK, BaseTypeOK, ReqTypeOK
<1>4. refunds[f] = <<>>
  BY <1>1, <1>3 DEF RefundInv, Refunding
<1>5. refunds'[f] = <<n>> /\ \A g \in FileIds : g # f => refunds'[g] = refunds[g]
  BY <1>3, <1>4 DEF TypeOK
<1>6. TotalRefunded(f) = 0 /\ TotalRefunded(f)' = n
  BY <1>4, <1>5 DEF TotalRefunded
<1>7. \A g \in FileIds : g # f => TotalRefunded(g)' = TotalRefunded(g)
  BY <1>5 DEF TotalRefunded
<1>8. Balance'[f] = Balance[f] + (-n)
  <2>1. charged[f] \in Int
    BY DEF TypeOK
  <2>2. Balance'[f] = charged'[f] - TotalRefunded(f)' /\ Balance[f] = charged[f] - TotalRefunded(f)
    BY DEF Balance
  <2>3. QED
    BY <1>3, <1>6, <2>1, <2>2
<1>9. \A g \in FileIds : g # f => Balance'[g] = Balance[g]
  BY <1>3, <1>7 DEF Balance
<1>10. -n \in Int /\ -req[h].size = -n
  BY <1>2
<1>11. QED
  BY <1>1, <1>3, <1>8, <1>9, <1>10, AddQuotaMoves DEF Moves, TypeOK, BaseTypeOK

LEMMA NextSpent ==
  TypeOK /\ TypeOK' /\ RefundInv /\ LedgerInv /\ SpentInv /\ [UploadsNext]_uploadsVars => SpentInv'
<1> SUFFICES ASSUME TypeOK, TypeOK', RefundInv, LedgerInv, SpentInv, [UploadsNext]_uploadsVars
             PROVE  SpentInv'
  OBVIOUS
<1>1. issued \subseteq issued' /\ IsFiniteSet(issued')
  BY IssuedGrows, FS_AddElement DEF SpentInv
<1>2. UNCHANGED <<quota, charged, refunds>>
      \/ \E h \in Handlers : CompleteCharge(h) \/ DeleteRefund(h)
  BY DEF UploadsNext, uploadsVars, baseVars, storeVars, ghostVars, Put,
         PresignStep, CompleteStep, DeleteStep, JobsStep,
         PresignCheck, PresignCreate, CompleteStart, CompleteStat, CompleteDrop, CompleteHead,
         RejectObject, RejectRow, CompleteReady, CompleteJob, DeleteStart, DeleteObjects, DeleteRow,
         RetryStart, RetryQueued, MarkPending, EnqueueOK, EnqueueFails, UndoJob, UndoFile, Abort
<1>3. UNCHANGED <<quota, Balance>> \/ \E h \in Handlers, d \in Int : Moves(h, d)
  <2>1. CASE UNCHANGED <<quota, charged, refunds>>
    BY <2>1 DEF Balance, TotalRefunded
  <2>2. ASSUME NEW h \in Handlers, CompleteCharge(h)
        PROVE  UNCHANGED <<quota, Balance>> \/ \E d \in Int : Moves(h, d)
    <3>1. req[h].size \in Int
      BY DEF TypeOK, BaseTypeOK, ReqTypeOK, Request
    <3>2. QED
      BY <2>2, <3>1, ChargeMoves
  <2>3. ASSUME NEW h \in Handlers, DeleteRefund(h) PROVE \E d \in Int : Moves(h, d)
    <3>1. -req[h].size \in Int
      BY DEF TypeOK, BaseTypeOK, ReqTypeOK, Request
    <3>2. QED
      BY <2>3, <3>1, RefundMoves
  <2>4. QED
    BY <1>2, <2>1, <2>2, <2>3
<1>4. \A f \in FileIds \ issued : charged'[f] = 0
  <2>1. CASE UNCHANGED charged
    BY <2>1 DEF SpentInv
  <2>2. ASSUME NEW h \in Handlers, CompleteCharge(h), ~UNCHANGED charged
        PROVE  \A f \in FileIds \ issued : charged'[f] = 0
    <3>1. req[h].file \in issued
      BY <2>2 DEF CompleteCharge, LedgerInv
    <3>2. charged' = [charged EXCEPT ![req[h].file] = @ + req[h].size]
      BY <2>2 DEF CompleteCharge
    <3>3. QED
      BY <3>1, <3>2 DEF SpentInv, TypeOK
  <2>3. QED
    BY <1>2, <2>1, <2>2 DEF DeleteRefund
<1>5. QED
  BY <1>1, <1>3, <1>4, RowsKeepOwner, RequestsKnowOwner, SpentMoves

(* Under its condition the balances are not negative, and that of a        *)
(* completed file is the bytes it was charged for: there are at least as   *)
(* many as its size.                                                       *)
LEMMA SpentCovers ==
  ASSUME TypeOK, RefundInv, LedgerInv, SpentInv PROVE QuotaCoversCompleted
<1> SUFFICES ASSUME \A f \in FileIds : TotalRefunded(f) <= charged[f], NEW s \in Subjects
             PROVE  quota[s] >= CompletedBytes(s)
  BY DEF QuotaCoversCompleted
<1>1. PICK own : /\ OwnersKnown(own)
                 /\ \A t \in Subjects : Sum(Balance, FilesOf(own, t)) <= quota[t]
  BY DEF SpentInv
<1>2. PICK S : S = FilesOf(own, s)
  OBVIOUS
<1>3. PICK T : T = {f \in FileIds : Completed(f) /\ QuotaSubject(files[f].owner) = s}
  OBVIOUS
<1>4. PICK g : g = [f \in FileIds |-> files[f].size]
  OBVIOUS
<1>5. T \in SUBSET S /\ S \in SUBSET FileIds /\ IsFiniteSet(S) /\ IsFiniteSet(T)
  <2>1. \A f \in T : HasRow(f) /\ f \in FileIds /\ f \in issued /\ own[f] = s
    BY <1>1, <1>3 DEF Completed, RefundInv, OwnersKnown
  <2>2. T \in SUBSET S /\ S \in SUBSET FileIds
    BY <1>2, <2>1 DEF FilesOf
  <2>3. S \subseteq issued
    BY <1>2 DEF FilesOf
  <2>4. QED
    BY <2>2, <2>3, FS_Subset DEF SpentInv
<1>6. \A f \in S : Balance[f] \in Nat
  <2>1. ASSUME NEW f \in FileIds PROVE Balance[f] \in Nat
    <3>1. Balance[f] = charged[f] - TotalRefunded(f) /\ Balance[f] \in Int
      BY BalanceTyped DEF Balance, SpentInv
    <3>2. TotalRefunded(f) <= charged[f] /\ charged[f] \in Int /\ TotalRefunded(f) \in Int
      BY DEF TypeOK, TotalRefunded
    <3>3. QED
      BY <3>1, <3>2
  <2>2. QED
    BY <1>5, <2>1
<1>7. \A f \in T : g[f] \in Int /\ g[f] <= Balance[f]
  <2> SUFFICES ASSUME NEW f \in T PROVE g[f] \in Int /\ g[f] <= Balance[f]
    OBVIOUS
  <2>1. f \in FileIds /\ Completed(f) /\ HasRow(f)
    BY <1>3 DEF Completed
  <2>2. files[f].size \in Nat /\ charged[f] \in Nat
    BY <2>1 DEF TypeOK, BaseTypeOK, FilesTypeOK, FileRow, HasRow
  <2>3. Balance[f] = charged[f] - 0
    BY <2>1 DEF Balance, TotalRefunded, RefundInv
  <2>4. charged[f] >= files[f].size /\ g[f] = files[f].size
    BY <1>4, <2>1 DEF LedgerInv, Paid
  <2>5. QED
    BY <2>2, <2>3, <2>4
<1>8. Sum(g, T) <= Sum(Balance, S)
  BY <1>5, <1>6, <1>7, SumBounds
<1>9. CompletedBytes(s) = Sum(g, T)
  <2>1. PICK a : Sums(g, T, a)
    BY <1>5, SumsExist
  <2>2. \A b : Sums(g, T, b) => b = a
    BY <1>5, <2>1, SumsUnique
  <2>3. \A b : Sums(g, T, b) <=>
          b = [t \in SUBSET T |-> IF t = {} THEN 0 ELSE files[First(t)].size + b[t \ {First(t)}]]
    <3> TAKE b
    <3> DEFINE lhs == [t \in SUBSET T |-> IF t = {} THEN 0 ELSE g[First(t)] + b[t \ {First(t)}]]
               rhs == [t \in SUBSET T |-> IF t = {} THEN 0
                                          ELSE files[First(t)].size + b[t \ {First(t)}]]
    <3>1. \A t \in SUBSET T : t # {} => g[First(t)] = files[First(t)].size
      BY <1>4, <1>5, FirstIn
    <3>2. lhs = rhs
      BY <3>1
    <3>3. Sums(g, T, b) <=> b = lhs
      BY DEF Sums
    <3> HIDE DEF lhs, rhs
    <3>4. Sums(g, T, b) <=> b = rhs
      BY <3>2, <3>3
    <3>5. QED
      BY <3>4 DEF rhs
  <2>4. a = CHOOSE b :
          b = [t \in SUBSET T |-> IF t = {} THEN 0 ELSE files[First(t)].size + b[t \ {First(t)}]]
    BY <2>1, <2>2, <2>3
  <2>5. CompletedBytes(s) = a[T]
    BY <1>3, <2>4 DEF CompletedBytes, MapThenSumSet, MapThenFoldSet, First
  <2>6. QED
    BY <1>5, <2>1, <2>5, SumIs
<1>10. Sum(g, T) \in Int /\ Sum(Balance, S) \in Int /\ quota[s] \in Int
  <2>1. \A f \in S : Balance[f] \in Int
    BY <1>6
  <2>2. QED
    BY <1>5, <1>7, <2>1, SumTyped DEF TypeOK, BaseTypeOK, QuotaTypeOK
<1>11. Sum(Balance, S) <= quota[s]
  BY <1>1, <1>2
<1>12. QED
  BY <1>8, <1>9, <1>10, <1>11

(* The quota of a subject covers the completed files of its members,       *)
(* whatever members and requests do at once and whatever fails: the clamp  *)
(* at zero, stale sizes and answers that get lost can only leave too much  *)
(* charged, unless a refund exceeded what was charged for its file.        *)
THEOREM QuotaCovers == UploadsSpec => []QuotaCoversCompleted
<1>1. UploadsInit => SpentInv
  BY InitSpent
<1>2. TypeOK /\ TypeOK' /\ RefundInv /\ LedgerInv /\ SpentInv /\ [UploadsNext]_uploadsVars
        => SpentInv'
  BY NextSpent
<1>3. TypeOK /\ RefundInv /\ LedgerInv /\ SpentInv => QuotaCoversCompleted
  BY SpentCovers
<1>4. QED
  BY <1>1, <1>2, <1>3, Ledger, PTL DEF UploadsSpec
=============================================================================
