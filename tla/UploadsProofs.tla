---------------------------- MODULE UploadsProofs ----------------------------
(***************************************************************************)
(* Uploads for any number of principals, files, requests and bytes, and    *)
(* whatever faults occur: types, the quota limit and the single refund.    *)
(***************************************************************************)
EXTENDS Uploads, TLAPS

-----------------------------------------------------------------------------
(* What the calls of MediaBase preserve.                                   *)

JobPCs == {"r_queued", "pend", "enq", "undo_job", "undo_file"}

\* A request that goes on, with the fields its next pc relies on in place.
LEMMA GotoTyped ==
  ASSUME ReqTypeOK, NEW h \in Handlers, NEW pc \in ReqPCs, Goto(h, pc),
         req[h].pc \notin {"idle", "p_create"}, pc \in JobPCs => req[h].job \in JobIds
  PROVE  ReqTypeOK'
<1>1. req' = [req EXCEPT ![h].pc = pc]
  BY DEF Goto
<1>2. req' \in [Handlers -> Request]
  BY <1>1 DEF ReqTypeOK, Request
<1>3. \A g \in Handlers : g # h => req'[g] = req[g]
  BY <1>1 DEF ReqTypeOK
<1>4. /\ req'[h].pc = pc /\ req'[h].who = req[h].who
      /\ req'[h].file = req[h].file /\ req'[h].job = req[h].job
  BY <1>1 DEF ReqTypeOK, Request
<1>5. req[h].who \in Principals /\ req[h].file \in FileIds
  BY DEF ReqTypeOK
<1>6. QED
  BY <1>2, <1>3, <1>4, <1>5 DEF ReqTypeOK, JobPCs

\* A request that is answered.
LEMMA ReturnTyped ==
  ASSUME ReqTypeOK, NEW h \in Handlers, Return(h) PROVE ReqTypeOK'
  BY DEF ReqTypeOK, Return, IdleReq, Request, ReqPCs, Kinds

\* A request that goes on when a row was found and is answered otherwise.
LEMMA GotoIfTyped ==
  ASSUME ReqTypeOK, NEW h \in Handlers, NEW pc \in ReqPCs, NEW found, GotoIf(h, found, pc),
         req[h].pc \notin {"idle", "p_create"}, pc \in JobPCs => req[h].job \in JobIds
  PROVE  ReqTypeOK'
<1>1. CASE found
  BY <1>1, GotoTyped DEF GotoIf
<1>2. CASE ~found
  BY <1>2, ReturnTyped DEF GotoIf
<1>3. QED
  BY <1>1, <1>2

\* An UPDATE of files.
LEMMA UpdateRowTyped ==
  ASSUME FilesTypeOK, NEW f \in FileIds, NEW row, UpdateRow(f, row),
         files[f] \in FileRow => row \in FileRow
  PROVE  FilesTypeOK'
  BY DEF FilesTypeOK, UpdateRow

LEMMA SetFileStatusTyped ==
  ASSUME FilesTypeOK, NEW f \in FileIds, NEW status \in FileStatus, SetFileStatus(f, status)
  PROVE  FilesTypeOK'
<1>1. files[f] \in FileRow => [files[f] EXCEPT !.status = status] \in FileRow
  BY DEF FileRow
<1>2. QED
  BY <1>1, UpdateRowTyped DEF SetFileStatus

LEMMA MarkFileReadyTyped ==
  ASSUME FilesTypeOK, NEW f \in FileIds, NEW size \in Nat, MarkFileReady(f, size)
  PROVE  FilesTypeOK'
<1>1. files[f] \in FileRow => [files[f] EXCEPT !.status = "ready", !.size = size] \in FileRow
  BY DEF FileRow, FileStatus
<1>2. QED
  BY <1>1, UpdateRowTyped DEF MarkFileReady

\* An UPDATE of jobs.
LEMMA UpdateJobTyped ==
  ASSUME JobsTypeOK, NEW j \in JobIds, NEW status \in JobStatus, UpdateJob(j, status)
  PROVE  JobsTypeOK'
<1>1. jobs[j] \in JobRow => [jobs[j] EXCEPT !.status = status] \in JobRow
  BY DEF JobRow
<1>2. CASE jobs[j] = None
  BY <1>2 DEF UpdateJob, JobsTypeOK
<1>3. CASE jobs[j] # None
  BY <1>1, <1>3 DEF UpdateJob, JobsTypeOK
<1>4. QED
  BY <1>2, <1>3

\* A DELETE FROM files and its cascade.
LEMMA DeleteFileRowTyped ==
  ASSUME FilesTypeOK, JobsTypeOK, NEW f \in FileIds, DeleteFileRow(f)
  PROVE  FilesTypeOK' /\ JobsTypeOK'
  BY DEF FilesTypeOK, JobsTypeOK, DeleteFileRow

\* AddQuota.
LEMMA AddQuotaTyped ==
  ASSUME QuotaTypeOK, NEW s \in Subjects, NEW delta \in Int, AddQuota(s, delta)
  PROVE  QuotaTypeOK'
<1> DEFINE sum == quota[s] + delta
           new == IF sum < 0 THEN 0 ELSE sum
<1>1. new \in Nat
  BY DEF QuotaTypeOK
<1>2. quota' = [quota EXCEPT ![s] = new]
  BY DEF AddQuota
<1> HIDE DEF new
<1>3. QED
  BY <1>1, <1>2 DEF QuotaTypeOK

\* The subject a caller is charged to.
LEMMA SubjectOfPrincipal == \A p \in Principals : QuotaSubject(p) \in Subjects
  BY DEF Subjects

-----------------------------------------------------------------------------
(* Types.                                                                  *)

LEMMA InitTyped == UploadsInit => TypeOK
  BY MediaAssumption DEF UploadsInit, BaseInit, TypeOK, BaseTypeOK, IdleReq, Request, ReqPCs, Kinds,
     FilesTypeOK, JobsTypeOK, QuotaTypeOK, ObjectsTypeOK, StreamTypeOK, ReqTypeOK

LEMMA NextTyped == TypeOK /\ [UploadsNext]_uploadsVars => TypeOK'
<1> SUFFICES ASSUME TypeOK, [UploadsNext]_uploadsVars PROVE TypeOK'
  OBVIOUS
<1> USE MediaAssumption DEF TypeOK, BaseTypeOK, storeVars, objectVars, ghostVars
<1>0. ASSUME NEW f \in FileIds, Put(f) PROVE TypeOK'
  BY <1>0 DEF Put, FilesTypeOK, JobsTypeOK, QuotaTypeOK, ObjectsTypeOK, StreamTypeOK, ReqTypeOK
<1>1. ASSUME NEW h \in Handlers, RetryStart(h), UNCHANGED ghostVars PROVE TypeOK'
  <2>1. ReqTypeOK'
    BY <1>1 DEF RetryStart, Accept, ReqTypeOK, Request, ReqPCs, Kinds, OwnedBy, HasRow, JobsTypeOK, JobRow
  <2>2. QED
    BY <1>1, <2>1 DEF RetryStart, FilesTypeOK, JobsTypeOK, QuotaTypeOK, ObjectsTypeOK, StreamTypeOK
<1>2. ASSUME NEW h \in Handlers, RetryQueued(h), UNCHANGED ghostVars PROVE TypeOK'
  <2>1. req[h].file \in FileIds /\ req[h].job \in JobIds
    BY <1>2 DEF RetryQueued, ReqTypeOK
  <2>2. JobsTypeOK'
    BY <1>2, <2>1, UpdateJobTyped DEF RetryQueued, JobStatus
  <2>3. ReqTypeOK'
    BY <1>2, <2>1, GotoIfTyped DEF RetryQueued, ReqPCs, JobPCs
  <2>4. QED
    BY <1>2, <2>1, <2>2, <2>3 DEF RetryQueued, FilesTypeOK, QuotaTypeOK, ObjectsTypeOK, StreamTypeOK
<1>3. ASSUME NEW h \in Handlers, MarkPending(h), UNCHANGED ghostVars PROVE TypeOK'
  <2>1. req[h].file \in FileIds /\ req[h].job \in JobIds
    BY <1>3 DEF MarkPending, ReqTypeOK
  <2>2. FilesTypeOK'
    BY <1>3, <2>1, SetFileStatusTyped DEF MarkPending, FileStatus
  <2>3. ReqTypeOK'
    BY <1>3, <2>1, GotoIfTyped DEF MarkPending, ReqPCs, JobPCs
  <2>4. QED
    BY <1>3, <2>1, <2>2, <2>3 DEF MarkPending, JobsTypeOK, QuotaTypeOK, ObjectsTypeOK, StreamTypeOK
<1>4. ASSUME NEW h \in Handlers, EnqueueOK(h), UNCHANGED ghostVars PROVE TypeOK'
  <2>1. req[h].file \in FileIds /\ req[h].job \in JobIds
    BY <1>4 DEF EnqueueOK, ReqTypeOK
  <2>2. StreamTypeOK'
    BY <1>4, <2>1 DEF EnqueueOK, Enqueue, Message, StreamTypeOK
  <2>3. ReqTypeOK'
    BY <1>4, ReturnTyped DEF EnqueueOK
  <2>4. QED
    BY <1>4, <2>1, <2>2, <2>3 DEF EnqueueOK, FilesTypeOK, JobsTypeOK, QuotaTypeOK, ObjectsTypeOK
<1>5. ASSUME NEW h \in Handlers, EnqueueFails(h), UNCHANGED ghostVars PROVE TypeOK'
  <2>1. req[h].file \in FileIds /\ req[h].job \in JobIds
    BY <1>5 DEF EnqueueFails, ReqTypeOK
  <2>2. StreamTypeOK'
    <3>1. [job |-> req[h].job, file |-> req[h].file] \in Message
      BY <2>1 DEF Message
    <3>2. CASE UNCHANGED stream
      BY <3>2 DEF StreamTypeOK
    <3>3. CASE Enqueue(req[h].job, req[h].file)
      BY <3>1, <3>3 DEF Enqueue, StreamTypeOK
    <3>4. QED
      BY <1>5, <3>2, <3>3 DEF EnqueueFails
  <2>3. ReqTypeOK'
    BY <1>5, <2>1, GotoTyped DEF EnqueueFails, ReqPCs, JobPCs
  <2>4. QED
    BY <1>5, <2>1, <2>2, <2>3 DEF EnqueueFails, FilesTypeOK, JobsTypeOK, QuotaTypeOK, ObjectsTypeOK
<1>6. ASSUME NEW h \in Handlers, UndoJob(h), UNCHANGED ghostVars PROVE TypeOK'
  <2>1. req[h].file \in FileIds /\ req[h].job \in JobIds
    BY <1>6 DEF UndoJob, ReqTypeOK
  <2>2. JobsTypeOK'
    BY <1>6, <2>1, UpdateJobTyped DEF UndoJob, JobStatus, JobsTypeOK
  <2>3. ReqTypeOK'
    BY <1>6, <2>1, GotoTyped DEF UndoJob, ReqPCs, JobPCs
  <2>4. QED
    BY <1>6, <2>1, <2>2, <2>3 DEF UndoJob, FilesTypeOK, QuotaTypeOK, ObjectsTypeOK, StreamTypeOK
<1>7. ASSUME NEW h \in Handlers, UndoFile(h), UNCHANGED ghostVars PROVE TypeOK'
  <2>1. req[h].file \in FileIds /\ req[h].job \in JobIds
    BY <1>7 DEF UndoFile, ReqTypeOK
  <2>2. FilesTypeOK'
    BY <1>7, <2>1, SetFileStatusTyped DEF UndoFile, FileStatus, FilesTypeOK
  <2>3. ReqTypeOK'
    BY <1>7, ReturnTyped DEF UndoFile
  <2>4. QED
    BY <1>7, <2>1, <2>2, <2>3 DEF UndoFile, JobsTypeOK, QuotaTypeOK, ObjectsTypeOK, StreamTypeOK
<1>8. ASSUME NEW h \in Handlers, Abort(h), UNCHANGED ghostVars PROVE TypeOK'
  <2>1. ReqTypeOK'
    BY <1>8, ReturnTyped DEF Abort
  <2>2. QED
    BY <1>8, <2>1 DEF Abort, FilesTypeOK, JobsTypeOK, QuotaTypeOK, ObjectsTypeOK, StreamTypeOK
<1>9. ASSUME NEW h \in Handlers, PresignCheck(h) PROVE TypeOK'
  <2>1. ReqTypeOK'
    BY <1>9 DEF PresignCheck, Accept, ReqTypeOK, Request, ReqPCs, Kinds, OwnedBy, HasRow, Content
  <2>2. QED
    BY <1>9, <2>1 DEF PresignCheck, FilesTypeOK, JobsTypeOK, QuotaTypeOK, ObjectsTypeOK, StreamTypeOK
<1>10. ASSUME NEW h \in Handlers, PresignCreate(h) PROVE TypeOK'
  <2>1. req[h].who \in Principals /\ req[h].kind \in Kinds /\ req[h].size \in Nat
    BY <1>10 DEF PresignCreate, ReqTypeOK, Request
  <2>2. FilesTypeOK'
    BY <1>10, <2>1 DEF PresignCreate, CreatePendingFile, FilesTypeOK, FileRow, FileStatus
  <2>3. ReqTypeOK'
    BY <1>10, ReturnTyped DEF PresignCreate
  <2>4. QED
    BY <1>10, <2>1, <2>2, <2>3 DEF PresignCreate, JobsTypeOK, QuotaTypeOK, ObjectsTypeOK, StreamTypeOK
<1>11. ASSUME NEW h \in Handlers, CompleteStart(h) PROVE TypeOK'
  <2>1. ReqTypeOK'
    BY <1>11 DEF CompleteStart, Accept, ReqTypeOK, Request, ReqPCs, Kinds, OwnedBy, HasRow, FilesTypeOK, FileRow
  <2>2. QED
    BY <1>11, <2>1 DEF CompleteStart, FilesTypeOK, JobsTypeOK, QuotaTypeOK, ObjectsTypeOK, StreamTypeOK
<1>12. ASSUME NEW h \in Handlers, CompleteStat(h) PROVE TypeOK'
  <2> DEFINE got == orig[req[h].file]
  <2>1. req[h].file \in FileIds /\ req[h].who \in Principals /\ req[h] \in Request
    BY <1>12 DEF CompleteStat, ReqTypeOK
  <2>2. ASSUME got # None,
               NEW etag \in {"match", "differ"},
               req' = [req EXCEPT ![h] = [@ EXCEPT !.pc = "c_head", !.size = got.size,
                                                   !.etag = etag]]
        PROVE  ReqTypeOK'
    <3>1. got.size \in Nat
      BY <2>1, <2>2 DEF ObjectsTypeOK, Content
    <3> DEFINE new == [req[h] EXCEPT !.pc = "c_head", !.size = got.size, !.etag = etag]
    <3>2. new \in Request /\ new.pc = "c_head" /\ new.who = req[h].who /\ new.file = req[h].file
      BY <2>1, <3>1 DEF Request, ReqPCs
    <3>3. req' = [req EXCEPT ![h] = new]
      BY <2>2
    <3> HIDE DEF new, got
    <3>4. QED
      BY <2>1, <3>2, <3>3 DEF ReqTypeOK
  <2>3. ReqTypeOK'
    BY <1>12, <2>1, <2>2, GotoTyped, ReturnTyped DEF CompleteStat, ReqPCs, JobPCs
  <2>4. QED
    BY <1>12, <2>3 DEF CompleteStat, FilesTypeOK, JobsTypeOK, QuotaTypeOK, ObjectsTypeOK, StreamTypeOK
<1>13. ASSUME NEW h \in Handlers, CompleteDrop(h) PROVE TypeOK'
  <2>1. req[h].file \in FileIds /\ req[h].who \in Principals
    BY <1>13 DEF CompleteDrop, ReqTypeOK
  <2>2. ObjectsTypeOK'
    BY <1>13, <2>1 DEF CompleteDrop, DeleteObject, ObjectsTypeOK
  <2>3. ReqTypeOK'
    BY <1>13, ReturnTyped DEF CompleteDrop
  <2>4. QED
    BY <1>13, <2>1, <2>2, <2>3 DEF CompleteDrop, FilesTypeOK, JobsTypeOK, QuotaTypeOK, StreamTypeOK
<1>14. ASSUME NEW h \in Handlers, CompleteHead(h) PROVE TypeOK'
  <2>1. ReqTypeOK'
    BY <1>14, GotoTyped, GotoIfTyped DEF CompleteHead, ReqPCs, JobPCs
  <2>2. QED
    BY <1>14, <2>1 DEF CompleteHead, FilesTypeOK, JobsTypeOK, QuotaTypeOK, ObjectsTypeOK, StreamTypeOK
<1>15. ASSUME NEW h \in Handlers, RejectObject(h) PROVE TypeOK'
  <2>1. req[h].file \in FileIds /\ req[h].who \in Principals
    BY <1>15 DEF RejectObject, ReqTypeOK
  <2>2. ObjectsTypeOK'
    BY <1>15, <2>1 DEF RejectObject, DeleteObject, ObjectsTypeOK
  <2>3. ReqTypeOK'
    BY <1>15, <2>1, GotoTyped DEF RejectObject, ReqPCs, JobPCs
  <2>4. QED
    BY <1>15, <2>1, <2>2, <2>3 DEF RejectObject, FilesTypeOK, JobsTypeOK, QuotaTypeOK, StreamTypeOK
<1>16. ASSUME NEW h \in Handlers, RejectRow(h) PROVE TypeOK'
  <2>1. req[h].file \in FileIds /\ req[h].who \in Principals
    BY <1>16 DEF RejectRow, ReqTypeOK
  <2>2. FilesTypeOK' /\ JobsTypeOK'
    BY <1>16, <2>1, DeleteFileRowTyped DEF RejectRow, FilesTypeOK, JobsTypeOK
  <2>3. ReqTypeOK'
    BY <1>16, ReturnTyped DEF RejectRow
  <2>4. QED
    BY <1>16, <2>1, <2>2, <2>3 DEF RejectRow, QuotaTypeOK, ObjectsTypeOK, StreamTypeOK
<1>17. ASSUME NEW h \in Handlers, CompleteCharge(h) PROVE TypeOK'
  <2>1. req[h].file \in FileIds /\ req[h].who \in Principals
    BY <1>17 DEF CompleteCharge, ReqTypeOK
  <2>2. req[h].size \in Nat
    BY <1>17 DEF CompleteCharge, ReqTypeOK, Request
  <2>3. QuotaTypeOK'
    BY <1>17, <2>1, <2>2, AddQuotaTyped, SubjectOfPrincipal DEF CompleteCharge, QuotaTypeOK
  <2>4. charged' \in [FileIds -> Nat]
    BY <1>17, <2>2 DEF CompleteCharge
  <2>5. ReqTypeOK'
    BY <1>17, <2>1, GotoTyped DEF CompleteCharge, ReqPCs, JobPCs
  <2>6. QED
    BY <1>17, <2>1, <2>2, <2>3, <2>4, <2>5 DEF CompleteCharge, FilesTypeOK, JobsTypeOK, ObjectsTypeOK, StreamTypeOK
<1>18. ASSUME NEW h \in Handlers, CompleteReady(h) PROVE TypeOK'
  <2>1. req[h].file \in FileIds /\ req[h].who \in Principals
    BY <1>18 DEF CompleteReady, ReqTypeOK
  <2>2. req[h].size \in Nat
    BY <1>18 DEF CompleteReady, ReqTypeOK, Request
  <2>3. FilesTypeOK'
    BY <1>18, <2>1, <2>2, MarkFileReadyTyped DEF CompleteReady
  <2>4. ReqTypeOK'
    BY <1>18, <2>1, GotoIfTyped DEF CompleteReady, ReqPCs, JobPCs
  <2>5. QED
    BY <1>18, <2>1, <2>2, <2>3, <2>4 DEF CompleteReady, JobsTypeOK, QuotaTypeOK, ObjectsTypeOK, StreamTypeOK
<1>19. ASSUME NEW h \in Handlers, CompleteJob(h) PROVE TypeOK'
  <2>1. req[h].file \in FileIds /\ req[h].who \in Principals /\ req[h] \in Request
    BY <1>19 DEF CompleteJob, ReqTypeOK
  <2>2. JobsTypeOK'
    <3>1. CASE UNCHANGED jobs
      BY <3>1 DEF JobsTypeOK
    <3>2. ASSUME NEW j \in JobIds, CreateJob(j, req[h].file) PROVE JobsTypeOK'
      <4>1. [file |-> req[h].file, status |-> "queued"] \in JobRow
        BY <2>1 DEF JobRow, JobStatus
      <4>2. QED
        BY <3>2, <4>1 DEF CreateJob, JobsTypeOK
    <3>3. QED
      BY <1>19, <3>1, <3>2 DEF CompleteJob
  <2>3. ASSUME NEW j \in JobIds,
               req' = [req EXCEPT ![h] = [@ EXCEPT !.pc = "pend", !.job = j]]
        PROVE  ReqTypeOK'
    <3> DEFINE new == [req[h] EXCEPT !.pc = "pend", !.job = j]
    <3>1. /\ new \in Request /\ new.pc = "pend" /\ new.who = req[h].who
          /\ new.file = req[h].file /\ new.job = j
      BY <2>1 DEF Request, ReqPCs
    <3>2. req' = [req EXCEPT ![h] = new]
      BY <2>3
    <3> HIDE DEF new
    <3>3. QED
      BY <2>1, <3>1, <3>2 DEF ReqTypeOK
  <2>4. ReqTypeOK'
    BY <1>19, <2>3, ReturnTyped DEF CompleteJob
  <2>5. QED
    BY <1>19, <2>2, <2>4 DEF CompleteJob, FilesTypeOK, QuotaTypeOK, ObjectsTypeOK, StreamTypeOK
<1>20. ASSUME NEW h \in Handlers, DeleteStart(h) PROVE TypeOK'
  <2>1. ReqTypeOK'
    BY <1>20 DEF DeleteStart, Accept, ReqTypeOK, Request, ReqPCs, Kinds, OwnedBy, HasRow, FilesTypeOK, FileRow
  <2>2. QED
    BY <1>20, <2>1 DEF DeleteStart, FilesTypeOK, JobsTypeOK, QuotaTypeOK, ObjectsTypeOK, StreamTypeOK
<1>21. ASSUME NEW h \in Handlers, DeleteObjects(h) PROVE TypeOK'
  <2>1. req[h].file \in FileIds /\ req[h].who \in Principals
    BY <1>21 DEF DeleteObjects, ReqTypeOK
  <2>2. ObjectsTypeOK'
    <3>1. \A kept \in SUBSET derived[req[h].file] :
            [derived EXCEPT ![req[h].file] = kept] \in [FileIds -> SUBSET DerivedNames]
      BY <2>1 DEF ObjectsTypeOK
    <3>2. [orig EXCEPT ![req[h].file] = None] \in [FileIds -> Content \cup {None}]
      BY <2>1 DEF ObjectsTypeOK
    <3>3. orig' \in [FileIds -> Content \cup {None}]
      BY <1>21, <3>2 DEF DeleteObjects, DeletePrefix, ObjectsTypeOK
    <3>4. derived' \in [FileIds -> SUBSET DerivedNames]
      <4>1. {} \in SUBSET derived[req[h].file]
        OBVIOUS
      <4>2. [derived EXCEPT ![req[h].file] = {}] \in [FileIds -> SUBSET DerivedNames]
        BY <3>1, <4>1
      <4>3. CASE DeletePrefix(req[h].file)
        BY <4>2, <4>3 DEF DeletePrefix
      <4>4. CASE \E kept \in SUBSET derived[req[h].file] :
                    derived' = [derived EXCEPT ![req[h].file] = kept]
        <5>1. PICK kept \in SUBSET derived[req[h].file] :
                    derived' = [derived EXCEPT ![req[h].file] = kept]
          BY <4>4
        <5>2. [derived EXCEPT ![req[h].file] = kept] \in [FileIds -> SUBSET DerivedNames]
          BY <3>1
        <5>3. QED
          BY <5>1, <5>2, Zenon
      <4>5. QED
        BY <1>21, <4>3, <4>4 DEF DeleteObjects
    <3>5. QED
      BY <3>3, <3>4 DEF ObjectsTypeOK
  <2>3. ReqTypeOK'
    BY <1>21, GotoTyped, ReturnTyped DEF DeleteObjects, ReqPCs, JobPCs
  <2>4. QED
    BY <1>21, <2>1, <2>2, <2>3 DEF DeleteObjects, FilesTypeOK, JobsTypeOK, QuotaTypeOK, StreamTypeOK
<1>22. ASSUME NEW h \in Handlers, DeleteRow(h) PROVE TypeOK'
  <2>1. req[h].file \in FileIds /\ req[h].who \in Principals
    BY <1>22 DEF DeleteRow, ReqTypeOK
  <2>2. FilesTypeOK' /\ JobsTypeOK'
    BY <1>22, <2>1, DeleteFileRowTyped DEF DeleteRow
  <2>3. ReqTypeOK'
    BY <1>22, <2>1, GotoIfTyped DEF DeleteRow, ReqPCs, JobPCs
  <2>4. QED
    BY <1>22, <2>1, <2>2, <2>3 DEF DeleteRow, QuotaTypeOK, ObjectsTypeOK, StreamTypeOK
<1>23. ASSUME NEW h \in Handlers, DeleteRefund(h) PROVE TypeOK'
  <2>1. req[h].file \in FileIds /\ req[h].who \in Principals
    BY <1>23 DEF DeleteRefund, ReqTypeOK
  <2>2. req[h].size \in Nat /\ -req[h].size \in Int
    BY <1>23 DEF DeleteRefund, ReqTypeOK, Request
  <2>3. QuotaTypeOK'
    BY <1>23, <2>1, <2>2, AddQuotaTyped, SubjectOfPrincipal DEF DeleteRefund
  <2>4. refunds' \in [FileIds -> Seq(Nat)]
    <3>1. Append(refunds[req[h].file], req[h].size) \in Seq(Nat)
      BY <2>1, <2>2
    <3>2. QED
      BY <1>23, <3>1 DEF DeleteRefund
  <2>5. ReqTypeOK'
    BY <1>23, ReturnTyped DEF DeleteRefund
  <2>6. QED
    BY <1>23, <2>1, <2>2, <2>3, <2>4, <2>5 DEF DeleteRefund, FilesTypeOK, JobsTypeOK, ObjectsTypeOK, StreamTypeOK
<1>24. CASE UNCHANGED uploadsVars
  BY <1>24 DEF uploadsVars, baseVars, FilesTypeOK, JobsTypeOK, QuotaTypeOK, ObjectsTypeOK,
     StreamTypeOK, ReqTypeOK
<1>25. QED
  BY <1>0, <1>1, <1>2, <1>3, <1>4, <1>5, <1>6, <1>7, <1>8, <1>9, <1>10, <1>11, <1>12, <1>13, <1>14, <1>15, <1>16, <1>17, <1>18, <1>19, <1>20, <1>21, <1>22, <1>23, <1>24
     DEF UploadsNext, PresignStep, CompleteStep, DeleteStep, JobsStep

\* Every reachable state is well typed, whatever the constants and the faults.
THEOREM Typing == UploadsSpec => []TypeOK
<1>1. UploadsInit => TypeOK
  BY InitTyped
<1>2. TypeOK /\ [UploadsNext]_uploadsVars => TypeOK'
  BY NextTyped
<1>3. QED
  BY <1>1, <1>2, PTL DEF UploadsSpec

-----------------------------------------------------------------------------
(* The quota limit.                                                        *)

\* No step of the API takes a subject over the limit.
LEMMA NextWithinLimit ==
  ASSUME TypeOK, UsedWithinLimit, [UploadsNext]_uploadsVars
  PROVE  UsedWithinLimit'
<1>1. CASE UNCHANGED quota
  BY <1>1 DEF UsedWithinLimit
<1>2. ASSUME NEW s \in Subjects, NEW delta \in Int, AddQuota(s, delta), QuotaAllows(s, delta)
      PROVE  UsedWithinLimit'
  <2> DEFINE new == IF quota[s] + delta < 0 THEN 0 ELSE quota[s] + delta
  <2>1. quota[s] \in Nat /\ quota[s] <= QuotaLimit /\ QuotaLimit \in Nat
    BY MediaAssumption DEF TypeOK, BaseTypeOK, QuotaTypeOK, UsedWithinLimit
  <2>2. new <= QuotaLimit
    BY <1>2, <2>1 DEF QuotaAllows
  <2>3. quota' = [quota EXCEPT ![s] = new]
    BY <1>2 DEF AddQuota
  <2> HIDE DEF new
  <2>4. QED
    BY <2>2, <2>3 DEF UsedWithinLimit, TypeOK, BaseTypeOK, QuotaTypeOK
<1>3. ASSUME NEW h \in Handlers, CompleteCharge(h) PROVE UsedWithinLimit'
  <2>1. req[h].who \in Principals /\ req[h].size \in Int
    BY <1>3 DEF CompleteCharge, TypeOK, BaseTypeOK, ReqTypeOK, Request
  <2>2. QED
    BY <1>1, <1>2, <1>3, <2>1, SubjectOfPrincipal DEF CompleteCharge
<1>4. ASSUME NEW h \in Handlers, DeleteRefund(h) PROVE UsedWithinLimit'
  <2>1. req[h].who \in Principals /\ -req[h].size \in Int /\ ~(-req[h].size > 0)
    BY <1>4 DEF DeleteRefund, TypeOK, BaseTypeOK, ReqTypeOK, Request
  <2>2. QuotaAllows(QuotaSubject(req[h].who), -req[h].size)
    BY <2>1 DEF QuotaAllows
  <2>3. QED
    BY <1>2, <1>4, <2>1, <2>2, SubjectOfPrincipal DEF DeleteRefund
<1>5. QED
  BY <1>1, <1>3, <1>4
     DEF UploadsNext, uploadsVars, baseVars, storeVars, Put, PresignStep, CompleteStep, DeleteStep, JobsStep,
         PresignCheck, PresignCreate, CompleteStart, CompleteStat, CompleteDrop, CompleteHead,
         RejectObject, RejectRow, CompleteReady, CompleteJob, DeleteStart, DeleteObjects, DeleteRow,
         RetryStart, RetryQueued, MarkPending, EnqueueOK, EnqueueFails, UndoJob, UndoFile, Abort

(* Presign reads a quota that may be stale by the time the bytes arrive;   *)
(* the limit holds because AddQuota alone decides, and only CompleteCharge *)
(* and DeleteRefund call it.                                               *)
THEOREM QuotaLimitHolds == UploadsSpec => []UsedWithinLimit
<1>1. UploadsInit => UsedWithinLimit
  BY MediaAssumption DEF UploadsInit, BaseInit, UsedWithinLimit
<1>2. TypeOK /\ UsedWithinLimit /\ [UploadsNext]_uploadsVars => UsedWithinLimit'
  BY NextWithinLimit
<1>3. QED
  BY <1>1, <1>2, Typing, PTL DEF UploadsSpec

-----------------------------------------------------------------------------
(* The single refund.                                                      *)

\* Before the first request nothing has been refunded.
LEMMA InitRefund == UploadsInit => RefundInv
  BY DEF UploadsInit, BaseInit, RefundInv, HasRow, Refunding, IdleReq

(* What RefundInv asks of a request survives any step that neither makes a *)
(* row nor refunds, and moves no request to d_refund.                      *)
LEMMA RefundKept ==
  ASSUME RefundInv, NEW h \in Handlers, req \in [Handlers -> Request], req' \in [Handlers -> Request],
         UNCHANGED refunds,
         issued \subseteq issued',
         issued' \cap FileIds = issued \cap FileIds,
         \A f \in FileIds : HasRow(f)' => HasRow(f),
         \A g \in Handlers : g # h => req'[g] = req[g],
         req'[h].pc # "d_refund",
         req'[h].pc \in {"d_objs", "d_row"} => req'[h].file \in FileIds
  PROVE  RefundInv'
  BY DEF RefundInv, Refunding, HasRow

\* A request that moves, and one that ends or starts.
LEMMA RequestMoves ==
  ASSUME req \in [Handlers -> Request], NEW h \in Handlers
  PROVE  /\ \A pc : Goto(h, pc) =>
              /\ \A g \in Handlers : g # h => req'[g] = req[g]
              /\ req'[h].pc = pc /\ req'[h].file = req[h].file
         /\ Return(h) =>
              /\ \A g \in Handlers : g # h => req'[g] = req[g]
              /\ req'[h].pc = "idle"
         /\ \A pc, p, f, j, kind, size : Accept(h, pc, p, f, j, kind, size) =>
              /\ \A g \in Handlers : g # h => req'[g] = req[g]
              /\ req'[h].pc = pc /\ req'[h].file = f
  BY DEF Goto, Return, Accept, IdleReq, Request

LEMMA NextRefund == TypeOK /\ TypeOK' /\ RefundInv /\ [UploadsNext]_uploadsVars => RefundInv'
<1> SUFFICES ASSUME TypeOK, TypeOK', RefundInv, [UploadsNext]_uploadsVars PROVE RefundInv'
  OBVIOUS
<1> USE DEF storeVars, objectVars, ghostVars
<1>0. req \in [Handlers -> Request] /\ req' \in [Handlers -> Request]
  BY DEF TypeOK, BaseTypeOK, ReqTypeOK
<1>1. ASSUME NEW f \in FileIds, Put(f) PROVE RefundInv'
  BY <1>1 DEF Put, RefundInv, HasRow, Refunding
<1>2. ASSUME NEW h \in Handlers, RetryStart(h), UNCHANGED ghostVars PROVE RefundInv'
  <2>1. /\ \A g \in Handlers : g # h => req'[g] = req[g]
        /\ req'[h].pc # "d_refund"
        /\ req'[h].pc \in {"d_objs", "d_row"} => req'[h].file \in FileIds
    BY <1>0, <1>2, RequestMoves DEF RetryStart
  <2>2. /\ \A f \in FileIds : HasRow(f)' => HasRow(f)
        /\ issued \subseteq issued' /\ issued' \cap FileIds = issued \cap FileIds /\ UNCHANGED refunds
    BY <1>2 DEF RetryStart, HasRow
  <2>3. QED
    BY <1>0, <2>1, <2>2, RefundKept
<1>3. ASSUME NEW h \in Handlers, RetryQueued(h), UNCHANGED ghostVars PROVE RefundInv'
  <2>1. /\ \A g \in Handlers : g # h => req'[g] = req[g]
        /\ req'[h].pc # "d_refund"
        /\ req'[h].pc \in {"d_objs", "d_row"} => req'[h].file \in FileIds
    BY <1>0, <1>3, RequestMoves DEF RetryQueued, GotoIf
  <2>2. /\ \A f \in FileIds : HasRow(f)' => HasRow(f)
        /\ issued \subseteq issued' /\ issued' \cap FileIds = issued \cap FileIds /\ UNCHANGED refunds
    BY <1>3 DEF RetryQueued, HasRow
  <2>3. QED
    BY <1>0, <2>1, <2>2, RefundKept
<1>4. ASSUME NEW h \in Handlers, MarkPending(h), UNCHANGED ghostVars PROVE RefundInv'
  <2>1. /\ \A g \in Handlers : g # h => req'[g] = req[g]
        /\ req'[h].pc # "d_refund"
        /\ req'[h].pc \in {"d_objs", "d_row"} => req'[h].file \in FileIds
    BY <1>0, <1>4, RequestMoves DEF MarkPending, GotoIf
  <2>2. /\ \A f \in FileIds : HasRow(f)' => HasRow(f)
        /\ issued \subseteq issued' /\ issued' \cap FileIds = issued \cap FileIds /\ UNCHANGED refunds
    BY <1>4 DEF MarkPending, HasRow, SetFileStatus, UpdateRow
  <2>3. QED
    BY <1>0, <2>1, <2>2, RefundKept
<1>5. ASSUME NEW h \in Handlers, EnqueueOK(h), UNCHANGED ghostVars PROVE RefundInv'
  <2>1. /\ \A g \in Handlers : g # h => req'[g] = req[g]
        /\ req'[h].pc # "d_refund"
        /\ req'[h].pc \in {"d_objs", "d_row"} => req'[h].file \in FileIds
    BY <1>0, <1>5, RequestMoves DEF EnqueueOK
  <2>2. /\ \A f \in FileIds : HasRow(f)' => HasRow(f)
        /\ issued \subseteq issued' /\ issued' \cap FileIds = issued \cap FileIds /\ UNCHANGED refunds
    BY <1>5 DEF EnqueueOK, HasRow
  <2>3. QED
    BY <1>0, <2>1, <2>2, RefundKept
<1>6. ASSUME NEW h \in Handlers, EnqueueFails(h), UNCHANGED ghostVars PROVE RefundInv'
  <2>1. /\ \A g \in Handlers : g # h => req'[g] = req[g]
        /\ req'[h].pc # "d_refund"
        /\ req'[h].pc \in {"d_objs", "d_row"} => req'[h].file \in FileIds
    BY <1>0, <1>6, RequestMoves DEF EnqueueFails
  <2>2. /\ \A f \in FileIds : HasRow(f)' => HasRow(f)
        /\ issued \subseteq issued' /\ issued' \cap FileIds = issued \cap FileIds /\ UNCHANGED refunds
    BY <1>6 DEF EnqueueFails, HasRow
  <2>3. QED
    BY <1>0, <2>1, <2>2, RefundKept
<1>7. ASSUME NEW h \in Handlers, UndoJob(h), UNCHANGED ghostVars PROVE RefundInv'
  <2>1. /\ \A g \in Handlers : g # h => req'[g] = req[g]
        /\ req'[h].pc # "d_refund"
        /\ req'[h].pc \in {"d_objs", "d_row"} => req'[h].file \in FileIds
    BY <1>0, <1>7, RequestMoves DEF UndoJob
  <2>2. /\ \A f \in FileIds : HasRow(f)' => HasRow(f)
        /\ issued \subseteq issued' /\ issued' \cap FileIds = issued \cap FileIds /\ UNCHANGED refunds
    BY <1>7 DEF UndoJob, HasRow
  <2>3. QED
    BY <1>0, <2>1, <2>2, RefundKept
<1>8. ASSUME NEW h \in Handlers, UndoFile(h), UNCHANGED ghostVars PROVE RefundInv'
  <2>1. /\ \A g \in Handlers : g # h => req'[g] = req[g]
        /\ req'[h].pc # "d_refund"
        /\ req'[h].pc \in {"d_objs", "d_row"} => req'[h].file \in FileIds
    BY <1>0, <1>8, RequestMoves DEF UndoFile
  <2>2. /\ \A f \in FileIds : HasRow(f)' => HasRow(f)
        /\ issued \subseteq issued' /\ issued' \cap FileIds = issued \cap FileIds /\ UNCHANGED refunds
    BY <1>8 DEF UndoFile, HasRow, SetFileStatus, UpdateRow, TypeOK, BaseTypeOK, FilesTypeOK
  <2>3. QED
    BY <1>0, <2>1, <2>2, RefundKept
<1>9. ASSUME NEW h \in Handlers, Abort(h), UNCHANGED ghostVars PROVE RefundInv'
  <2>1. /\ \A g \in Handlers : g # h => req'[g] = req[g]
        /\ req'[h].pc # "d_refund"
        /\ req'[h].pc \in {"d_objs", "d_row"} => req'[h].file \in FileIds
    BY <1>0, <1>9, RequestMoves DEF Abort
  <2>2. /\ \A f \in FileIds : HasRow(f)' => HasRow(f)
        /\ issued \subseteq issued' /\ issued' \cap FileIds = issued \cap FileIds /\ UNCHANGED refunds
    BY <1>9 DEF Abort, HasRow
  <2>3. QED
    BY <1>0, <2>1, <2>2, RefundKept
<1>10. ASSUME NEW h \in Handlers, PresignCheck(h) PROVE RefundInv'
  <2>1. /\ \A g \in Handlers : g # h => req'[g] = req[g]
        /\ req'[h].pc # "d_refund"
        /\ req'[h].pc \in {"d_objs", "d_row"} => req'[h].file \in FileIds
    BY <1>0, <1>10, RequestMoves DEF PresignCheck
  <2>2. /\ \A f \in FileIds : HasRow(f)' => HasRow(f)
        /\ issued \subseteq issued' /\ issued' \cap FileIds = issued \cap FileIds /\ UNCHANGED refunds
    BY <1>10 DEF PresignCheck, HasRow
  <2>3. QED
    BY <1>0, <2>1, <2>2, RefundKept
<1>11. ASSUME NEW h \in Handlers, CompleteStart(h) PROVE RefundInv'
  <2>1. /\ \A g \in Handlers : g # h => req'[g] = req[g]
        /\ req'[h].pc # "d_refund"
        /\ req'[h].pc \in {"d_objs", "d_row"} => req'[h].file \in FileIds
    BY <1>0, <1>11, RequestMoves DEF CompleteStart
  <2>2. /\ \A f \in FileIds : HasRow(f)' => HasRow(f)
        /\ issued \subseteq issued' /\ issued' \cap FileIds = issued \cap FileIds /\ UNCHANGED refunds
    BY <1>11 DEF CompleteStart, HasRow
  <2>3. QED
    BY <1>0, <2>1, <2>2, RefundKept
<1>12. ASSUME NEW h \in Handlers, CompleteStat(h) PROVE RefundInv'
  <2>1. /\ \A g \in Handlers : g # h => req'[g] = req[g]
        /\ req'[h].pc # "d_refund"
        /\ req'[h].pc \in {"d_objs", "d_row"} => req'[h].file \in FileIds
    <3>1. ASSUME NEW new, new.pc = "c_head", req' = [req EXCEPT ![h] = new]
          PROVE  /\ \A g \in Handlers : g # h => req'[g] = req[g]
                 /\ req'[h].pc = "c_head"
      BY <1>0, <3>1
    <3>2. \A n, e : [req[h] EXCEPT !.pc = "c_head", !.size = n, !.etag = e].pc = "c_head"
      BY <1>0 DEF Request
    <3>3. CASE Return(h) \/ Goto(h, "c_drop")
      BY <1>0, <3>3, RequestMoves
    <3>4. ASSUME NEW quoted, NEW n,
                 req' = [req EXCEPT ![h] = [@ EXCEPT !.pc = "c_head", !.size = n,
                            !.etag = IF quoted = orig[req[h].file] THEN "match" ELSE "differ"]]
          PROVE  /\ \A g \in Handlers : g # h => req'[g] = req[g]
                 /\ req'[h].pc = "c_head"
      <4>1. PICK new : new = [req[h] EXCEPT !.pc = "c_head", !.size = n,
                            !.etag = IF quoted = orig[req[h].file] THEN "match" ELSE "differ"]
        OBVIOUS
      <4>2. new.pc = "c_head"
        BY <4>1, <3>2
      <4>3. req' = [req EXCEPT ![h] = new]
        BY <3>4, <4>1
      <4>4. QED
        BY <3>1, <4>2, <4>3
    <3>5. QED
      BY <1>12, <3>3, <3>4 DEF CompleteStat
  <2>2. /\ \A f \in FileIds : HasRow(f)' => HasRow(f)
        /\ issued \subseteq issued' /\ issued' \cap FileIds = issued \cap FileIds /\ UNCHANGED refunds
    BY <1>12 DEF CompleteStat, HasRow
  <2>3. QED
    BY <1>0, <2>1, <2>2, RefundKept
<1>13. ASSUME NEW h \in Handlers, CompleteDrop(h) PROVE RefundInv'
  <2>1. /\ \A g \in Handlers : g # h => req'[g] = req[g]
        /\ req'[h].pc # "d_refund"
        /\ req'[h].pc \in {"d_objs", "d_row"} => req'[h].file \in FileIds
    BY <1>0, <1>13, RequestMoves DEF CompleteDrop
  <2>2. /\ \A f \in FileIds : HasRow(f)' => HasRow(f)
        /\ issued \subseteq issued' /\ issued' \cap FileIds = issued \cap FileIds /\ UNCHANGED refunds
    BY <1>13 DEF CompleteDrop, HasRow
  <2>3. QED
    BY <1>0, <2>1, <2>2, RefundKept
<1>14. ASSUME NEW h \in Handlers, CompleteHead(h) PROVE RefundInv'
  <2>1. /\ \A g \in Handlers : g # h => req'[g] = req[g]
        /\ req'[h].pc # "d_refund"
        /\ req'[h].pc \in {"d_objs", "d_row"} => req'[h].file \in FileIds
    BY <1>0, <1>14, RequestMoves DEF CompleteHead, GotoIf
  <2>2. /\ \A f \in FileIds : HasRow(f)' => HasRow(f)
        /\ issued \subseteq issued' /\ issued' \cap FileIds = issued \cap FileIds /\ UNCHANGED refunds
    BY <1>14 DEF CompleteHead, HasRow
  <2>3. QED
    BY <1>0, <2>1, <2>2, RefundKept
<1>15. ASSUME NEW h \in Handlers, RejectObject(h) PROVE RefundInv'
  <2>1. /\ \A g \in Handlers : g # h => req'[g] = req[g]
        /\ req'[h].pc # "d_refund"
        /\ req'[h].pc \in {"d_objs", "d_row"} => req'[h].file \in FileIds
    BY <1>0, <1>15, RequestMoves DEF RejectObject
  <2>2. /\ \A f \in FileIds : HasRow(f)' => HasRow(f)
        /\ issued \subseteq issued' /\ issued' \cap FileIds = issued \cap FileIds /\ UNCHANGED refunds
    BY <1>15 DEF RejectObject, HasRow
  <2>3. QED
    BY <1>0, <2>1, <2>2, RefundKept
<1>16. ASSUME NEW h \in Handlers, RejectRow(h) PROVE RefundInv'
  <2>1. /\ \A g \in Handlers : g # h => req'[g] = req[g]
        /\ req'[h].pc # "d_refund"
        /\ req'[h].pc \in {"d_objs", "d_row"} => req'[h].file \in FileIds
    BY <1>0, <1>16, RequestMoves DEF RejectRow
  <2>2. /\ \A f \in FileIds : HasRow(f)' => HasRow(f)
        /\ issued \subseteq issued' /\ issued' \cap FileIds = issued \cap FileIds /\ UNCHANGED refunds
    BY <1>16 DEF RejectRow, HasRow, DeleteFileRow, TypeOK, BaseTypeOK, FilesTypeOK
  <2>3. QED
    BY <1>0, <2>1, <2>2, RefundKept
<1>17. ASSUME NEW h \in Handlers, CompleteCharge(h) PROVE RefundInv'
  <2>1. /\ \A g \in Handlers : g # h => req'[g] = req[g]
        /\ req'[h].pc # "d_refund"
        /\ req'[h].pc \in {"d_objs", "d_row"} => req'[h].file \in FileIds
    BY <1>0, <1>17, RequestMoves DEF CompleteCharge
  <2>2. /\ \A f \in FileIds : HasRow(f)' => HasRow(f)
        /\ issued \subseteq issued' /\ issued' \cap FileIds = issued \cap FileIds /\ UNCHANGED refunds
    BY <1>17 DEF CompleteCharge, HasRow
  <2>3. QED
    BY <1>0, <2>1, <2>2, RefundKept
<1>18. ASSUME NEW h \in Handlers, CompleteReady(h) PROVE RefundInv'
  <2>1. /\ \A g \in Handlers : g # h => req'[g] = req[g]
        /\ req'[h].pc # "d_refund"
        /\ req'[h].pc \in {"d_objs", "d_row"} => req'[h].file \in FileIds
    BY <1>0, <1>18, RequestMoves DEF CompleteReady, GotoIf
  <2>2. /\ \A f \in FileIds : HasRow(f)' => HasRow(f)
        /\ issued \subseteq issued' /\ issued' \cap FileIds = issued \cap FileIds /\ UNCHANGED refunds
    BY <1>18 DEF CompleteReady, HasRow, MarkFileReady, UpdateRow
  <2>3. QED
    BY <1>0, <2>1, <2>2, RefundKept
<1>19. ASSUME NEW h \in Handlers, CompleteJob(h) PROVE RefundInv'
  <2>1. /\ \A g \in Handlers : g # h => req'[g] = req[g]
        /\ req'[h].pc # "d_refund"
        /\ req'[h].pc \in {"d_objs", "d_row"} => req'[h].file \in FileIds
    BY <1>0, <1>19, RequestMoves DEF CompleteJob, Request
  <2>2. /\ \A f \in FileIds : HasRow(f)' => HasRow(f)
        /\ issued \subseteq issued' /\ issued' \cap FileIds = issued \cap FileIds /\ UNCHANGED refunds
    BY <1>19, MediaAssumption DEF CompleteJob, HasRow
  <2>3. QED
    BY <1>0, <2>1, <2>2, RefundKept
<1>20. ASSUME NEW h \in Handlers, DeleteStart(h) PROVE RefundInv'
  <2>1. /\ \A g \in Handlers : g # h => req'[g] = req[g]
        /\ req'[h].pc # "d_refund"
        /\ req'[h].pc \in {"d_objs", "d_row"} => req'[h].file \in FileIds
    BY <1>0, <1>20, RequestMoves DEF DeleteStart
  <2>2. /\ \A f \in FileIds : HasRow(f)' => HasRow(f)
        /\ issued \subseteq issued' /\ issued' \cap FileIds = issued \cap FileIds /\ UNCHANGED refunds
    BY <1>20 DEF DeleteStart, HasRow
  <2>3. QED
    BY <1>0, <2>1, <2>2, RefundKept
<1>21. ASSUME NEW h \in Handlers, DeleteObjects(h) PROVE RefundInv'
  <2>1. /\ \A g \in Handlers : g # h => req'[g] = req[g]
        /\ req'[h].pc # "d_refund"
        /\ req'[h].pc \in {"d_objs", "d_row"} => req'[h].file \in FileIds
    BY <1>0, <1>21, RequestMoves DEF DeleteObjects, RefundInv
  <2>2. /\ \A f \in FileIds : HasRow(f)' => HasRow(f)
        /\ issued \subseteq issued' /\ issued' \cap FileIds = issued \cap FileIds /\ UNCHANGED refunds
    BY <1>21 DEF DeleteObjects, HasRow
  <2>3. QED
    BY <1>0, <2>1, <2>2, RefundKept
<1>22. ASSUME NEW h \in Handlers, PresignCreate(h) PROVE RefundInv'
  <2>1. PICK f \in FileIds \ issued :
          /\ CreatePendingFile(f, req[h].who, req[h].kind, req[h].size)
          /\ issued' = issued \cup {f}
    BY <1>22 DEF PresignCreate
  <2>2. /\ \A g \in Handlers : g # h => req'[g] = req[g]
        /\ req'[h].pc = "idle"
        /\ UNCHANGED refunds
    BY <1>0, <1>22, RequestMoves DEF PresignCreate
  <2>3. /\ \A g \in FileIds : g # f => (HasRow(g)' <=> HasRow(g))
        /\ refunds[f] = <<>>
    BY <2>1 DEF CreatePendingFile, HasRow, RefundInv, TypeOK, BaseTypeOK, FilesTypeOK
  <2>4. QED
    BY <2>1, <2>2, <2>3 DEF RefundInv, Refunding
<1>23. ASSUME NEW h \in Handlers, DeleteRow(h) PROVE RefundInv'
  <2>0. PICK f \in FileIds : f = req[h].file
    BY <1>23 DEF DeleteRow, RefundInv
  <2>1. /\ UNCHANGED <<issued, refunds>>
        /\ files' = [files EXCEPT ![f] = None]
    BY <1>23, <2>0 DEF DeleteRow, DeleteFileRow
  <2>2. ~HasRow(f)' /\ \A g \in FileIds : HasRow(g)' => HasRow(g)
    BY <2>1 DEF HasRow, TypeOK, BaseTypeOK, FilesTypeOK
  <2>3. \A g \in Handlers : g # h => req'[g] = req[g]
    BY <1>0, <1>23, RequestMoves DEF DeleteRow, GotoIf
  <2>4. CASE Return(h)
    <3>1. req'[h].pc = "idle"
      BY <1>0, <2>4, RequestMoves
    <3>2. QED
      BY <1>0, <2>1, <2>2, <2>3, <3>1, RefundKept
  <2>5. CASE HasRow(f) /\ Goto(h, "d_refund")
    <3>1. req'[h].pc = "d_refund" /\ req'[h].file = f
      BY <1>0, <2>0, <2>5, RequestMoves
    <3>2. f \in issued /\ refunds[f] = <<>>
      BY <2>1, <2>5 DEF RefundInv
    <3>3. \A g \in Handlers : Refunding(g) => req[g].file # f
      BY <2>5 DEF RefundInv
    <3>4. QED
      BY <2>1, <2>2, <2>3, <3>1, <3>2, <3>3 DEF RefundInv, Refunding
  <2>6. QED
    BY <1>23, <2>0, <2>4, <2>5 DEF DeleteRow, GotoIf
<1>24. ASSUME NEW h \in Handlers, DeleteRefund(h) PROVE RefundInv'
  <2> DEFINE f == req[h].file
  <2>1. /\ f \in FileIds /\ f \in issued /\ ~HasRow(f) /\ refunds[f] = <<>>
        /\ UNCHANGED <<files, issued>>
        /\ refunds' = [refunds EXCEPT ![f] = Append(@, req[h].size)]
        /\ req[h].size \in Nat
    BY <1>0, <1>24 DEF DeleteRefund, RefundInv, Refunding, Request
  <2>2. /\ \A g \in Handlers : g # h => req'[g] = req[g]
        /\ req'[h].pc = "idle"
    BY <1>0, <1>24, RequestMoves DEF DeleteRefund
  <2>3. \A g \in Handlers : g # h /\ Refunding(g) => req[g].file # f
    BY <1>24 DEF DeleteRefund, RefundInv, Refunding
  <2>4. /\ \A g \in FileIds : g # f => refunds'[g] = refunds[g]
        /\ refunds'[f] = Append(<<>>, req[h].size)
    BY <2>1 DEF TypeOK
  <2>5. Len(refunds'[f]) <= 1
    BY <2>1, <2>4
  <2>6. QED
    BY <2>1, <2>2, <2>3, <2>4, <2>5 DEF RefundInv, Refunding, HasRow
<1>25. CASE UNCHANGED uploadsVars
  BY <1>25 DEF uploadsVars, baseVars, RefundInv, Refunding, HasRow
<1>26. QED
  BY <1>1, <1>2, <1>3, <1>4, <1>5, <1>6, <1>7, <1>8, <1>9, <1>10, <1>11, <1>12, <1>13, <1>14, <1>15, <1>16, <1>17, <1>18, <1>19, <1>20, <1>21, <1>22, <1>23, <1>24, <1>25
     DEF UploadsNext, PresignStep, CompleteStep, DeleteStep, JobsStep

(* At any time at most one request is past the DELETE that hit the row of  *)
(* a file, the row is gone for good, and nothing was given back before.    *)
THEOREM OneRefunder == UploadsSpec => []RefundInv
<1>1. UploadsInit => RefundInv
  BY InitRefund
<1>2. TypeOK /\ TypeOK' /\ RefundInv /\ [UploadsNext]_uploadsVars => RefundInv'
  BY NextRefund
<1>3. QED
  BY <1>1, <1>2, Typing, PTL DEF UploadsSpec

(* So there is at most one refund per file, however many deletes race.     *)
THEOREM SingleRefund == UploadsSpec => []RefundOnce
<1>1. RefundInv => RefundOnce
  BY DEF RefundInv, RefundOnce
<1>2. QED
  BY <1>1, OneRefunder, PTL
=============================================================================
