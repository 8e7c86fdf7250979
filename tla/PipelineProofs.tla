---------------------------- MODULE PipelineProofs ----------------------------
(***************************************************************************)
(* No job is lost between the row that is queued and the stream, and what  *)
(* a file publishes is in the bucket, whatever workers crash, claim each   *)
(* other's entries and report late.                                        *)
(*                                                                         *)
(* The second half is about one worker that loses no reply: at rest its    *)
(* failures are in the dead-letter stream, and each file shows what one of *)
(* its jobs came to.                                                       *)
(***************************************************************************)
EXTENDS SystemProofs

(***************************************************************************)
(* Why NoLostJob holds.  A worker acknowledges an entry only after it has  *)
(* seen a report of that entry succeed, and the report has then updated    *)
(* the job: as long as the job is queued, none of the workers that may     *)
(* still acknowledge its entry has got that far.  An entry that a worker   *)
(* is through with may belong to a job that was queued again, but then the *)
(* request that did so adds another.                                       *)
(***************************************************************************)
Reported(w) ==
    \/ worker[w].pc \in {"ack_ok", "dlq", "ack_err"}
    \/ worker[w].pc \in Waiting /\ finish[w].pc \in {"file_failed", "ok"}
Open(e) == Unsettled(e) /\ \A w \in Workers : Reported(w) => EntryOf(w) # e

SettledInv ==
    \A j \in JobIds : jobs[j] # None /\ jobs[j].status = "queued" =>
        Enqueueing(j) \/ \E e \in Entries : stream[e].job = j /\ Open(e)

-----------------------------------------------------------------------------
(* Steps of the API.                                                       *)

\* A step of the API leaves every entry as open as it was.
LEMMA RequestsKeepOpen ==
  ASSUME SystemInv, [UploadsNext]_uploadsVars, UNCHANGED processorVars, NEW e \in Entries, Open(e)
  PROVE  e \in Entries' /\ stream'[e] = stream[e] /\ Open(e)'
<1>1. e \in Entries' /\ stream'[e] = stream[e]
  BY StreamGrows DEF SystemInv, SystemTypeOK, TypeOK, BaseTypeOK
<1>2. QED
  BY <1>1 DEF Open, Unsettled, Reported, EntryOf, processorVars, groupVars

\* An entry that was just added is open.
LEMMA NewEntryIsOpen ==
  ASSUME SystemInv, UNCHANGED processorVars, NEW j \in JobIds, NEW f \in FileIds, Enqueue(j, f)
  PROVE  \E e \in Entries' : stream'[e].job = j /\ Open(e)'
<1>1. stream \in Seq(Message) /\ cursor \in 0 .. Len(stream)
  BY DEF SystemInv, SystemTypeOK, TypeOK, BaseTypeOK, StreamTypeOK
<1>2. PICK e \in Nat : e > cursor /\ e \in Entries' /\ stream'[e].job = j
  <2>1. /\ Len(stream) + 1 \in Nat /\ Len(stream) + 1 > cursor /\ Len(stream) + 1 \in Entries'
        /\ stream'[Len(stream) + 1] = [job |-> j, file |-> f]
    BY <1>1 DEF Enqueue, Entries
  <2>2. QED
    BY <2>1
<1>3. \A w \in Workers : Reported(w) => EntryOf(w) \in 1 .. cursor
  BY EntryTyped DEF SystemInv, GroupInv, Reported, Waiting
<1>4. \A w \in Workers : Reported(w)' => EntryOf(w)' \in 1 .. cursor
  BY <1>3 DEF Reported, EntryOf, processorVars, groupVars
<1>5. Open(e)'
  BY <1>1, <1>2, <1>4 DEF Open, Unsettled, processorVars, groupVars
<1>6. QED
  BY <1>2, <1>5

\* A step of one request leaves the others where they are.
LEMMA OneRequestMoves ==
  ASSUME req \in [Handlers -> Request], NEW g \in Handlers,
         PresignStep(g) \/ CompleteStep(g) \/ DeleteStep(g) \/ JobsStep(g)
  PROVE  \A h \in Handlers : h # g => req'[h] = req[h]
<1> DEFINE Others == \A h \in Handlers : h # g => req'[h] = req[h]
<1>1. /\ \A pc : Goto(g, pc) => Others
      /\ Return(g) => Others
      /\ \A pc, p, f, j, kind, size : Accept(g, pc, p, f, j, kind, size) => Others
  BY RequestMoves
<1>2. \A found, pc : GotoIf(g, found, pc) => Others
  BY <1>1 DEF GotoIf
<1>3. CompleteStat(g) \/ CompleteJob(g) => Others
  <2>1. \A new : req' = [req EXCEPT ![g] = new] => Others
    OBVIOUS
  <2>2. QED
    BY <1>1, <2>1 DEF CompleteStat, CompleteJob
<1> HIDE DEF Others
<1>4. PresignStep(g) \/ DeleteStep(g) \/ JobsStep(g) => Others
  BY <1>1, <1>2 DEF PresignStep, DeleteStep, JobsStep, PresignCheck, PresignCreate, DeleteStart,
     DeleteObjects, DeleteRow, DeleteRefund, RetryStart, RetryQueued, MarkPending, EnqueueOK,
     EnqueueFails, UndoJob, UndoFile, Abort
<1>5. CompleteStep(g) => Others
  BY <1>1, <1>2, <1>3 DEF CompleteStep, CompleteStart, CompleteDrop, CompleteHead, RejectObject,
     RejectRow, CompleteCharge, CompleteReady
<1>6. QED
  BY <1>4, <1>5 DEF Others

\* A job that a step of the API queues, or leaves queued, still has its request or its entry.
LEMMA RequestsSettle ==
  ASSUME Faults \cap {"abort", "store"} = {}, SystemInv, SystemInv', RowsKept, SettledInv,
         [UploadsNext]_uploadsVars, UNCHANGED processorVars
  PROVE  SettledInv'
<1> SUFFICES ASSUME NEW j \in JobIds, jobs'[j] # None, jobs'[j].status = "queued"
             PROVE  Enqueueing(j)' \/ \E e \in Entries' : stream'[e].job = j /\ Open(e)'
  BY DEF SettledInv
<1> USE DEF storeVars
<1>0. /\ TypeOK /\ JobsTypeOK /\ FilesTypeOK /\ JobsTypeOK'
      /\ req \in [Handlers -> Request] /\ req' \in [Handlers -> Request]
      /\ \A h \in Handlers : req[h].pc \in JobPCs => req[h].job \in JobIds /\ req[h].file \in FileIds
  BY DEF SystemInv, SystemTypeOK, TypeOK, BaseTypeOK, ReqTypeOK, JobPCs
<1>1. ASSUME NEW e \in Entries, stream[e].job = j, Open(e)
      PROVE  \E d \in Entries' : stream'[d].job = j /\ Open(d)'
  BY <1>1, RequestsKeepOpen
<1>2. ASSUME NEW h \in Handlers, req[h].pc \in {"pend", "enq", "undo_job"}, req[h].job = j,
             jobs[j] # None
      PROVE  Enqueueing(j)' \/ \E e \in Entries' : stream'[e].job = j /\ Open(e)'
  <2>1. HasRow(req[h].file)
    BY <1>2 DEF SystemInv, MessageInv, LedgerInv, JobPCs
  <2>2. req'[h] = req[h] => Enqueueing(j)'
    BY <1>2 DEF Enqueueing
  <2>3. \A pc \in {"enq", "undo_job"} : Goto(h, pc) => Enqueueing(j)'
    BY <1>0, <1>2, RequestKeeps DEF Enqueueing
  <2>4. CASE MarkPending(h)
    BY <2>1, <2>3, <2>4 DEF MarkPending, GotoIf
  <2>5. Enqueue(req[h].job, req[h].file) => \E e \in Entries' : stream'[e].job = j /\ Open(e)'
    BY <1>0, <1>2, NewEntryIsOpen DEF JobPCs
  <2>6. CASE EnqueueOK(h)
    BY <2>5, <2>6 DEF EnqueueOK
  <2>7. CASE EnqueueFails(h)
    BY <2>3, <2>7 DEF EnqueueFails
  <2>8. ~UndoJob(h)
    <3> SUFFICES ASSUME UpdateJob(j, "failed") PROVE FALSE
      BY <1>2 DEF UndoJob
    <3>1. jobs'[j].status = "failed"
      BY <1>0, UpdateJobSets DEF JobStatus
    <3>2. QED
      BY <3>1
  <2>9. ASSUME NEW g \in Handlers, g # h,
               PresignStep(g) \/ CompleteStep(g) \/ DeleteStep(g) \/ JobsStep(g)
        PROVE  Enqueueing(j)'
    BY <1>0, <2>2, <2>9, OneRequestMoves
  <2>10. ~(PresignStep(h) \/ CompleteStep(h) \/ DeleteStep(h))
    BY <1>2 DEF PresignStep, CompleteStep, DeleteStep, PresignCheck, PresignCreate, CompleteStart,
       CompleteStat, CompleteDrop, CompleteHead, RejectObject, RejectRow, CompleteCharge,
       CompleteReady, CompleteJob, DeleteStart, DeleteObjects, DeleteRow, DeleteRefund, Accept
  <2>11. JobsStep(h) => MarkPending(h) \/ EnqueueOK(h) \/ EnqueueFails(h)
    BY <1>2, <2>8 DEF JobsStep, RetryStart, RetryQueued, UndoFile, Abort, Accept
  <2>12. (\E f \in FileIds : Put(f)) \/ UNCHANGED uploadsVars => Enqueueing(j)'
    BY <2>2 DEF Put, uploadsVars, baseVars
  <2>13. QED
    BY <2>4, <2>6, <2>7, <2>9, <2>10, <2>11, <2>12 DEF UploadsNext
<1>3. CASE jobs[j] # None /\ jobs[j].status = "queued"
  BY <1>1, <1>2, <1>3 DEF SettledInv, Enqueueing
<1>4. CASE ~(jobs[j] # None /\ jobs[j].status = "queued")
  <2>1. PICK h \in Handlers : RetryQueued(h) \/ CompleteJob(h)
    <3>1. jobs' # jobs
      BY <1>4
    <3>2. \A g : ~DeleteFileRow(g)
      BY <1>0, <1>4 DEF DeleteFileRow, JobsTypeOK
    <3>3. \A h \in Handlers : ~UndoJob(h)
      <4> SUFFICES ASSUME NEW h \in Handlers, UndoJob(h) PROVE FALSE
        OBVIOUS
      <4>1. req[h].job \in JobIds /\ UpdateJob(req[h].job, "failed")
        BY <1>0, <3>1 DEF UndoJob, JobPCs
      <4>2. \A i \in JobIds : jobs'[i] # None => jobs[i] # None /\ (jobs'[i] = jobs[i] \/ jobs'[i].status = "failed")
        BY <1>0, <4>1, UpdateJobSets DEF JobStatus
      <4>3. QED
        BY <1>4, <4>2
    <3>4. QED
      BY <3>1, <3>2, <3>3
         DEF UploadsNext, uploadsVars, baseVars, Put, PresignStep, CompleteStep, DeleteStep, JobsStep,
             PresignCheck, PresignCreate, CompleteStart, CompleteStat, CompleteDrop, CompleteHead,
             RejectObject, RejectRow, CompleteCharge, CompleteReady, DeleteStart, DeleteObjects, DeleteRow,
             DeleteRefund, RetryStart, MarkPending, EnqueueOK, EnqueueFails, UndoFile, Abort
  <2>2. CASE RetryQueued(h)
    <3>1. req[h].job = j /\ jobs[j] # None
      <4>1. req[h].job \in JobIds /\ UpdateJob(req[h].job, "queued")
        BY <1>0, <2>2 DEF RetryQueued, JobPCs
      <4>2. jobs[j] # None /\ (j # req[h].job => jobs'[j] = jobs[j])
        BY <1>0, <4>1, UpdateJobSets DEF JobStatus
      <4>3. QED
        BY <1>4, <4>2
    <3>2. Goto(h, "pend")
      BY <2>2, <3>1 DEF RetryQueued, GotoIf
    <3>3. QED
      BY <1>0, <3>1, <3>2, RequestKeeps DEF Enqueueing
  <2>3. CASE CompleteJob(h)
    <3>1. PICK i \in JobIds \ issued :
            /\ CreateJob(i, req[h].file)
            /\ req' = [req EXCEPT ![h] = [@ EXCEPT !.pc = "pend", !.job = i]]
      BY <1>4, <2>3 DEF CompleteJob
    <3>2. i = j
      BY <1>0, <1>4, <3>1 DEF CreateJob, JobsTypeOK
    <3> DEFINE new == [req[h] EXCEPT !.pc = "pend", !.job = i]
    <3>3. new.pc = "pend" /\ new.job = i
      BY <1>0 DEF Request
    <3>4. req' = [req EXCEPT ![h] = new]
      BY <3>1
    <3> HIDE DEF new
    <3>5. req'[h].pc = "pend" /\ req'[h].job = j
      BY <1>0, <3>2, <3>3, <3>4
    <3>6. QED
      BY <3>5 DEF Enqueueing
  <2>4. QED
    BY <2>1, <2>2, <2>3
<1>5. QED
  BY <1>3, <1>4

-----------------------------------------------------------------------------
(* Steps of the workers and of their reports.                              *)

\* A step of one worker, or of its report, leaves the others where they are.
LEMMA OneWorkerMoves ==
  ASSUME SystemTypeOK, NEW w \in Workers, NEW v \in Workers, v # w,
         QueueStep(v) \/ ImageStep(v) \/ FinishStep(v) \/ Crash(v) \/ LoseReply(v)
  PROVE  worker'[w] = worker[w] /\ finish'[w] = finish[w]
<1>0. WorkersTypeOK /\ FinishTypeOK
  BY DEF SystemTypeOK, WorkersTypeOK, FinishTypeOK
<1>1. \A batch, then : Handle(v, batch, then) => worker'[w] = worker[w]
  BY <1>0 DEF Handle, WorkersTypeOK
<1>2. Handled(v) => worker'[w] = worker[w]
  BY <1>1 DEF Handled
<1>3. \A pc : ToWorker(v, pc) => worker'[w] = worker[w]
  BY <1>0 DEF ToWorker, WorkersTypeOK
<1>4. \A pc : ToFinish(v, pc) => finish'[w] = finish[w]
  BY <1>0 DEF ToFinish, FinishTypeOK
<1>5. CASE ClaimIdle(v) \/ ReadGroup(v) \/ AckProcessed(v) \/ AddToDlq(v) \/ AckFailed(v)
  BY <1>1, <1>2, <1>3, <1>5 DEF ClaimIdle, ReadGroup, AckProcessed, AddToDlq, AckFailed
<1>6. CASE SendFinish(v)
  <2>1. \E report : finish' = [finish EXCEPT ![v] =
                       [pc |-> "get_job", msg |-> stream[EntryOf(v)], report |-> report]]
    BY <1>6 DEF SendFinish
  <2>2. finish'[w] = finish[w]
    BY <1>0, <2>1 DEF FinishTypeOK
  <2>3. QED
    BY <1>3, <1>6, <2>2 DEF SendFinish
<1>7. CASE GetReply(v)
  <2>1. finish'[w] = finish[w]
    BY <1>0, <1>7 DEF GetReply, FinishTypeOK
  <2>2. QED
    BY <1>2, <1>3, <1>7, <2>1 DEF GetReply
<1>8. CASE ImageStep(v)
  <2>1. CASE PutVariants(v)
    BY <1>3, <2>1 DEF PutVariants, PutVariant
  <2>2. CASE GetImage(v)
    <3>1. \A got : worker' = [worker EXCEPT ![v].pc = "put_orig", ![v].image = got]
                      => worker'[w] = worker[w]
      BY <1>0 DEF WorkersTypeOK
    <3>2. QED
      BY <1>3, <2>2, <3>1 DEF GetImage
  <2>3. QED
    BY <1>8, <2>1, <2>2 DEF ImageStep
<1>9. CASE FinishStep(v)
  BY <1>4, <1>9 DEF FinishStep, FinishGetJob, FinishVariants, FinishSucceeded, FinishJobFailed,
                    FinishFileFailed, FinishAborts
<1>10. CASE Crash(v) \/ LoseReply(v)
  BY <1>0, <1>2, <1>10 DEF Crash, LoseReply, WorkersTypeOK
<1>11. QED
  BY <1>5, <1>6, <1>7, <1>8, <1>9, <1>10 DEF QueueStep

(* A worker gets past the report of an entry only where the report updates *)
(* the job: its other steps leave it no further than it was.               *)
Updates(w) == worker[w].pc \in Waiting /\ (FinishSucceeded(w) \/ FinishJobFailed(w))

LEMMA WorkersReport ==
  ASSUME SystemTypeOK, GroupInv, ProcessorNext, NEW w \in Workers, Reported(w)'
  PROVE  worker'[w].batch = worker[w].batch /\ (Reported(w) \/ Updates(w))
<1>0. WorkersTypeOK /\ FinishTypeOK
  BY DEF SystemTypeOK, WorkersTypeOK, FinishTypeOK
<1>1. worker'[w] = worker[w] /\ finish'[w] = finish[w] => Reported(w)
  BY DEF Reported
<1>2. ASSUME NEW v \in Workers, v # w, QueueStep(v) \/ ImageStep(v) \/ FinishStep(v) \/ Crash(v) \/ LoseReply(v)
      PROVE  worker'[w] = worker[w] /\ finish'[w] = finish[w]
  BY <1>2, OneWorkerMoves
<1>3. ASSUME NEW batch, NEW then \in {"claim", "read"}, Handle(w, batch, then) PROVE FALSE
  <2> DEFINE new == [StartWorker EXCEPT !.pc = IF batch = <<>> THEN then ELSE "get",
                                        !.batch = batch, !.then = then]
  <2>1. new.pc \in {"claim", "read", "get"}
    BY DEF StartWorker
  <2>2. worker' = [worker EXCEPT ![w] = new]
    BY <1>3 DEF Handle
  <2> HIDE DEF new
  <2>3. worker'[w].pc \in {"claim", "read", "get"}
    BY <1>0, <2>1, <2>2 DEF WorkersTypeOK
  <2>4. QED
    BY <2>3 DEF Reported, Waiting
<1>4. ~Handled(w)
  BY <1>0, <1>3 DEF Handled, WorkersTypeOK, Worker
<1>5. ASSUME NEW pc \in WorkerPCs, ToWorker(w, pc)
      PROVE  worker'[w].pc = pc /\ worker'[w].batch = worker[w].batch
  BY <1>0, <1>5, ToWorkerTyped
<1>6. ~ClaimIdle(w) /\ ~ReadGroup(w)
  BY <1>3 DEF ClaimIdle, ReadGroup
<1>7. ~AckProcessed(w) /\ ~AckFailed(w) /\ ~LoseReply(w)
  BY <1>4 DEF AckProcessed, AckFailed, LoseReply
<1>8. ~Crash(w)
  BY <1>0 DEF Crash, WorkersTypeOK, StartWorker, Reported, Waiting
<1>9. ~SendFinish(w)
  <2> SUFFICES ASSUME SendFinish(w) PROVE FALSE
    OBVIOUS
  <2>1. worker'[w].pc \in Waiting
    BY <1>5 DEF SendFinish, WorkerPCs, Waiting
  <2>2. \E report : finish' = [finish EXCEPT ![w] =
                       [pc |-> "get_job", msg |-> stream[EntryOf(w)], report |-> report]]
    BY DEF SendFinish
  <2>3. finish'[w].pc = "get_job"
    BY <1>0, <2>2 DEF FinishTypeOK
  <2>4. QED
    BY <2>1, <2>3 DEF Reported, Waiting
<1>10. CASE GetReply(w)
  <2>1. finish[w].pc = "ok" /\ (ToWorker(w, "ack_ok") \/ ToWorker(w, "dlq"))
    BY <1>4, <1>10 DEF GetReply
  <2>2. worker'[w].batch = worker[w].batch
    BY <1>5, <2>1 DEF WorkerPCs
  <2>3. QED
    BY <1>10, <2>1, <2>2 DEF GetReply, Reported, Waiting
<1>11. CASE AddToDlq(w)
  BY <1>5, <1>11 DEF AddToDlq, Reported, WorkerPCs
<1>12. ~PutVariants(w)
  <2> SUFFICES ASSUME PutVariants(w) PROVE FALSE
    OBVIOUS
  <2>1. worker'[w].pc \in {"put_detail", "put_thumb", "report_ok", "report_err"}
    BY <1>5 DEF PutVariants, PutVariant, WorkerPCs
  <2>2. QED
    BY <2>1 DEF Reported, Waiting
<1>13. ~GetImage(w)
  <2> SUFFICES ASSUME GetImage(w) PROVE FALSE
    OBVIOUS
  <2>1. ~ToWorker(w, "report_err")
    BY <1>5 DEF WorkerPCs, Reported, Waiting
  <2>2. PICK got : worker' = [worker EXCEPT ![w].pc = "put_orig", ![w].image = got]
    BY <2>1 DEF GetImage
  <2> DEFINE new == [worker[w] EXCEPT !.pc = "put_orig", !.image = got]
  <2>3. new.pc = "put_orig"
    BY <1>0 DEF WorkersTypeOK, Worker
  <2>4. worker' = [worker EXCEPT ![w] = new]
    BY <1>0, <2>2 DEF WorkersTypeOK
  <2> HIDE DEF new
  <2>5. worker'[w].pc = "put_orig"
    BY <1>0, <2>3, <2>4 DEF WorkersTypeOK
  <2>6. QED
    BY <2>5 DEF Reported, Waiting
<1>14. CASE FinishStep(w)
  <2>1. UNCHANGED worker
    BY <1>14 DEF FinishStep
  <2>2. CASE worker[w].pc \notin Waiting
    BY <2>1, <2>2 DEF Reported
  <2>3. CASE worker[w].pc \in Waiting
    <3>1. finish'[w].pc \in {"file_failed", "ok"}
      BY <2>1, <2>3 DEF Reported, Waiting
    <3>2. \A pc \in FinishPCs : ToFinish(w, pc) => finish'[w].pc = pc
      BY <1>0, ToFinishTyped
    <3>3. ~FinishGetJob(w) /\ ~FinishVariants(w) /\ ~FinishAborts(w)
      BY <3>1, <3>2 DEF FinishGetJob, FinishVariants, FinishAborts, FinishPCs
    <3>4. FinishFileFailed(w) => Reported(w)
      BY <2>3 DEF FinishFileFailed, Reported
    <3>5. QED
      BY <1>14, <2>1, <2>3, <3>3, <3>4 DEF FinishStep, Updates
  <2>4. QED
    BY <2>2, <2>3
<1>15. CASE IdleStep
  BY <1>1, <1>15 DEF IdleStep, Elapse
<1>16. QED
  BY <1>1, <1>2, <1>6, <1>7, <1>8, <1>9, <1>10, <1>11, <1>12, <1>13, <1>14, <1>15
     DEF ProcessorNext, QueueStep, ImageStep, FailStep

\* An entry leaves the group only through a worker that was done with it.
LEMMA WorkersKeepUnsettled ==
  ASSUME SystemTypeOK, GroupInv, ProcessorNext, NEW e \in Entries, Open(e)
  PROVE  Unsettled(e)'
<1>0. cursor \in Nat /\ e \in Nat /\ UNCHANGED stream
  BY WorkersLeaveRows DEF SystemTypeOK, TypeOK, BaseTypeOK, StreamTypeOK, Entries
<1>1. UNCHANGED <<cursor, pending>> => Unsettled(e)'
  BY <1>0 DEF Open, Unsettled, Entries
<1>2. ASSUME NEW w \in Workers, ReadGroup(w) PROVE Unsettled(e)'
  BY <1>0, <1>1, <1>2 DEF ReadGroup, Open, Unsettled, Entries
<1>3. ASSUME NEW w \in Workers, AckProcessed(w) \/ AckFailed(w) PROVE Unsettled(e)'
  <2>1. EntryOf(w) # e
    BY <1>3 DEF AckProcessed, AckFailed, Open, Reported
  <2>2. QED
    BY <1>0, <1>1, <1>3, <2>1 DEF AckProcessed, AckFailed, Open, Unsettled, Entries
<1>4. QED
  BY <1>1, <1>2, <1>3 DEF ProcessorNext, QueueStep, ImageStep, FinishStep, FailStep, IdleStep,
     ClaimIdle, SendFinish, GetReply, AddToDlq, GetImage, PutVariants, PutVariant, Crash, LoseReply,
     Elapse, groupVars

\* While a job stays queued, its entry stays open.
LEMMA WorkersSettle ==
  ASSUME Faults \cap {"abort", "store"} = {}, SystemInv, SettledInv, ProcessorNext
  PROVE  SettledInv'
<1> SUFFICES ASSUME NEW j \in JobIds, jobs'[j] # None, jobs'[j].status = "queued"
             PROVE  Enqueueing(j)' \/ \E e \in Entries' : stream'[e].job = j /\ Open(e)'
  BY DEF SettledInv
<1>0. SystemTypeOK /\ GroupInv /\ JobsTypeOK /\ UNCHANGED <<stream, req>>
  BY WorkersLeaveRows DEF SystemInv, SystemTypeOK, TypeOK, BaseTypeOK
<1>1. jobs[j] # None /\ jobs[j].status = "queued"
  <2>1. ASSUME NEW w \in Workers, FinishStep(w) PROVE jobs[j] # None /\ jobs[j].status = "queued"
    <3>1. PICK f \in FileIds, i \in JobIds : finish[w].msg.file = f /\ finish[w].msg.job = i
      BY <1>0, <2>1, ReportFinds
    <3>2. QED
      BY <1>0, <2>1, <3>1, ReportsKeepRows
  <2>2. QED
    BY <2>1, WorkersLeaveRows
<1>2. Enqueueing(j) => Enqueueing(j)'
  BY <1>0 DEF Enqueueing
<1>3. ASSUME NEW e \in Entries, stream[e].job = j, Open(e)
      PROVE  Open(e)'
  <2>1. Unsettled(e)'
    BY <1>0, <1>3, WorkersKeepUnsettled
  <2>2. ASSUME NEW w \in Workers, Reported(w)' PROVE EntryOf(w)' # e
    <3>1. EntryOf(w)' = EntryOf(w) /\ (Reported(w) \/ Updates(w))
      BY <1>0, <2>2, WorkersReport DEF EntryOf
    <3>2. CASE Reported(w)
      BY <1>3, <3>1, <3>2 DEF Open
    <3>3. CASE Updates(w)
      <4> SUFFICES ASSUME EntryOf(w) = e PROVE FALSE
        BY <3>1
      <4>1. finish[w].msg.job = j
        BY <1>0, <1>3, <3>3 DEF Updates, GroupInv
      <4>2. UpdateJob(j, "succeeded") \/ UpdateJob(j, "failed")
        BY <3>3, <4>1 DEF Updates, FinishSucceeded, FinishJobFailed
      <4>3. jobs'[j].status \in {"succeeded", "failed"}
        BY <1>0, <4>2, UpdateJobSets DEF JobStatus
      <4>4. QED
        BY <4>3
    <3>4. QED
      BY <3>1, <3>2, <3>3
  <2>3. QED
    BY <2>1, <2>2 DEF Open
<1>4. QED
  BY <1>0, <1>1, <1>2, <1>3 DEF SettledInv, Entries

-----------------------------------------------------------------------------
LEMMA NextSettled ==
  ASSUME Faults \cap {"abort", "store"} = {}, SystemInv, SettledInv, [SystemNext]_systemVars
  PROVE  SettledInv'
<1>1. RowsKept /\ SystemInv'
  BY NextSystemInv
<1>2. CASE [UploadsNext]_uploadsVars /\ UNCHANGED processorVars
  BY <1>1, <1>2, RequestsSettle
<1>3. CASE ProcessorNext
  BY <1>3, WorkersSettle
<1>4. QED
  BY <1>2, <1>3 DEF SystemNext, systemVars

LEMMA Settled ==
  ASSUME Faults \cap {"abort", "store"} = {}
  PROVE  SystemSpec => [](SystemInv /\ SettledInv)
<1>1. SystemInit => SettledInv
  BY DEF SystemInit, UploadsInit, BaseInit, SettledInv
<1>2. SystemInv /\ SettledInv /\ [SystemNext]_systemVars => SettledInv'
  BY NextSettled
<1>3. QED
  BY <1>1, <1>2, SystemInvariant, PTL DEF SystemSpec

(* As long as no store call fails and no API request is cut short, every   *)
(* queued job has an unacknowledged entry or a request about to add one,   *)
(* for any number of workers that crash, lose replies, hold on to entries  *)
(* others have claimed, and fail to reach Redis or the bucket.             *)
THEOREM NothingLost ==
  ASSUME Faults \cap {"abort", "store"} = {}
  PROVE  SystemSpec => []NoLostJob
<1>1. SettledInv => NoLostJob
  BY DEF SettledInv, NoLostJob, HasEntry, Open
<1>2. QED
  BY <1>1, Settled, PTL

-----------------------------------------------------------------------------
(* The pipeline alone, from the state fault-free uploads leave.            *)

\* SetToSeq lists a finite set.
LEMMA SetToSeqLists ==
  ASSUME NEW S, IsFiniteSet(S)
  PROVE  /\ Cardinality(S) \in Nat
         /\ SetToSeq(S) \in [1 .. Cardinality(S) -> S]
         /\ \A x \in S : \E n \in 1 .. Cardinality(S) : SetToSeq(S)[n] = x
<1>1. PICK n \in Nat : n = Cardinality(S)
  BY FS_CardinalityType
<1>2. PICK f : f \in Bijection(1 .. n, S)
  BY <1>1, FS_CardinalityType DEF ExistsBijection
<1>3. f \in [1 .. n -> S] /\ IsInjective(f)
  BY <1>2 DEF Bijection, Injection
<1>4. PICK s : s = SetToSeq(S)
  OBVIOUS
<1>5. s \in [1 .. n -> S] /\ IsInjective(s)
  BY <1>1, <1>3, <1>4 DEF SetToSeq
<1>6. s \in Injection(1 .. n, S)
  BY <1>5 DEF Injection
<1>7. Cardinality(1 .. n) = n
  BY FS_Interval
<1>8. s \in Surjection(1 .. n, S)
  BY <1>1, <1>6, <1>7, FS_Injection
<1>9. QED
  BY <1>1, <1>4, <1>5, <1>8 DEF Surjection

LEMMA AntiFunctionIs ==
  ASSUME NEW S, NEW T, NEW f \in Bijection(S, T)
  PROVE  /\ \A x \in S : f[x] \in T /\ AntiFunction(f)[f[x]] = x
         /\ \A y \in T : AntiFunction(f)[y] \in S /\ f[AntiFunction(f)[y]] = y
<1>1. f \in [S -> T] /\ IsInjective(f) /\ \A y \in T : \E x \in S : f[x] = y
  BY DEF Bijection, Injection, Surjection
<1>2. DOMAIN f = S /\ Range(f) = T
  BY <1>1 DEF Range
<1>3. AntiFunction(f) = [y \in T |-> CHOOSE x \in S : y \in T => f[x] = y]
  BY <1>2 DEF AntiFunction, Inverse
<1>4. \A y \in T : AntiFunction(f)[y] \in S /\ f[AntiFunction(f)[y]] = y
  BY <1>1, <1>3
<1>5. QED
  BY <1>1, <1>4 DEF IsInjective

\* What PipelineInit says of its files, jobs and entries.
LEMMA PipelineStarts ==
  ASSUME PipelineInit, IsFiniteSet(FileIds)
  PROVE  \E p \in Principals, jobOf \in Bijection(FileIds, JobIds),
            put \in [FileIds -> ClientContents] :
           /\ files = [f \in FileIds |-> [owner |-> p, kind |-> "image", size |-> put[f].size,
                                          status |-> "pending", variants |-> {}]]
           /\ jobs \in [JobIds -> JobRow]
           /\ \A j \in JobIds : jobs[j].status = "queued" /\ jobOf[jobs[j].file] = j
           /\ orig = put
           /\ charged = [f \in FileIds |-> put[f].size]
           /\ quota = [s \in Subjects |-> IF s = QuotaSubject(p) THEN Sum(charged, FileIds) ELSE 0]
           /\ stream \in Seq(Message)
           /\ \A e \in Entries : stream[e].job = jobOf[stream[e].file]
           /\ \A j \in JobIds : \E e \in Entries : stream[e].job = j
<1>1. PICK p \in Principals, jobOf \in Bijection(FileIds, JobIds),
           put \in [FileIds -> {c \in ClientContents : c.kind = "image"}] :
        /\ files = [f \in FileIds |-> [owner |-> p, kind |-> "image", size |-> put[f].size,
                                       status |-> "pending", variants |-> {}]]
        /\ jobs = [j \in JobIds |-> [file |-> AntiFunction(jobOf)[j], status |-> "queued"]]
        /\ orig = put
        /\ charged = [f \in FileIds |-> put[f].size]
        /\ quota = [s \in Subjects |->
                        IF s = QuotaSubject(p) THEN MapThenSumSet(LAMBDA f : put[f].size, FileIds)
                                               ELSE 0]
        /\ stream \in {[n \in DOMAIN order |-> [file |-> order[n], job |-> jobOf[order[n]]]] :
                          order \in {SetToSeq(FileIds)}}
  BY DEF PipelineInit
<1>2. put \in [FileIds -> ClientContents]
  BY <1>1
<1>3. /\ \A f \in FileIds : jobOf[f] \in JobIds
      /\ \A j \in JobIds : AntiFunction(jobOf)[j] \in FileIds /\ jobOf[AntiFunction(jobOf)[j]] = j
  BY AntiFunctionIs
<1>4. jobs \in [JobIds -> JobRow] /\ \A j \in JobIds : jobs[j].status = "queued" /\ jobOf[jobs[j].file] = j
  BY <1>1, <1>3 DEF JobRow, JobStatus
<1>5. PICK order \in {SetToSeq(FileIds)} :
         stream = [n \in DOMAIN order |-> [file |-> order[n], job |-> jobOf[order[n]]]]
  BY <1>1
<1>6. PICK n \in Nat : n = Cardinality(FileIds)
  BY SetToSeqLists
<1>7. order \in [1 .. n -> FileIds] /\ \A f \in FileIds : \E e \in 1 .. n : order[e] = f
  BY <1>5, <1>6, SetToSeqLists
<1>8. stream \in [1 .. n -> Message]
  BY <1>3, <1>5, <1>7 DEF Message
<1>9. stream \in Seq(Message) /\ Len(stream) = n /\ Entries = 1 .. n
  BY <1>8 DEF Entries
<1>10. \A e \in Entries : stream[e].job = jobOf[stream[e].file]
  BY <1>5, <1>7, <1>9
<1>11. \A j \in JobIds : \E e \in Entries : stream[e].job = j
  <2> TAKE j \in JobIds
  <2>1. PICK e \in 1 .. n : order[e] = AntiFunction(jobOf)[j]
    BY <1>3, <1>7
  <2>2. stream[e].job = j
    BY <1>3, <1>5, <1>7, <2>1
  <2>3. QED
    BY <1>9, <2>1, <2>2
<1>12. MapThenSumSet(LAMBDA f : put[f].size, FileIds) = Sum(charged, FileIds)
  <2>1. PICK a : Sums(charged, FileIds, a)
    BY SumsExist
  <2>2. \A b : Sums(charged, FileIds, b) => b = a
    BY <2>1, SumsUnique
  <2>3. \A b : Sums(charged, FileIds, b) <=>
          b = [t \in SUBSET FileIds |-> IF t = {} THEN 0 ELSE put[First(t)].size + b[t \ {First(t)}]]
    <3> TAKE b
    <3> DEFINE lhs == [t \in SUBSET FileIds |-> IF t = {} THEN 0
                                                ELSE charged[First(t)] + b[t \ {First(t)}]]
               rhs == [t \in SUBSET FileIds |-> IF t = {} THEN 0
                                                ELSE put[First(t)].size + b[t \ {First(t)}]]
    <3>1. \A t \in SUBSET FileIds : t # {} => charged[First(t)] = put[First(t)].size
      BY <1>1, FirstIn
    <3>2. lhs = rhs
      BY <3>1
    <3>3. Sums(charged, FileIds, b) <=> b = lhs
      BY DEF Sums
    <3> HIDE DEF lhs, rhs
    <3>4. Sums(charged, FileIds, b) <=> b = rhs
      BY <3>2, <3>3
    <3>5. QED
      BY <3>4 DEF rhs
  <2>4. a = CHOOSE b :
          b = [t \in SUBSET FileIds |-> IF t = {} THEN 0 ELSE put[First(t)].size + b[t \ {First(t)}]]
    BY <2>1, <2>2, <2>3
  <2>5. MapThenSumSet(LAMBDA f : put[f].size, FileIds) = a[FileIds]
    BY <2>4 DEF MapThenSumSet, MapThenFoldSet, First
  <2>6. QED
    BY <2>1, <2>5, SumIs
<1>13. quota = [s \in Subjects |-> IF s = QuotaSubject(p) THEN Sum(charged, FileIds) ELSE 0]
  BY <1>1, <1>12
<1>14. /\ files = [f \in FileIds |-> [owner |-> p, kind |-> "image", size |-> put[f].size,
                                      status |-> "pending", variants |-> {}]]
       /\ orig = put
       /\ charged = [f \in FileIds |-> put[f].size]
  BY <1>1
<1>15. WITNESS p \in Principals, jobOf \in Bijection(FileIds, JobIds), put \in [FileIds -> ClientContents]
<1>16. QED
  BY <1>4, <1>9, <1>10, <1>11, <1>13, <1>14

LEMMA InitPipelineInv ==
  ASSUME PipelineInit, IsFiniteSet(FileIds) PROVE SystemInv /\ SettledInv /\ SpentInv
<1>0. /\ GroupInit /\ issued = FileIds \cup JobIds /\ derived = [f \in FileIds |-> {}]
      /\ urls = FileIds /\ req = [h \in Handlers |-> IdleReq] /\ refunds = [f \in FileIds |-> <<>>]
  BY DEF PipelineInit
<1>1. PICK p \in Principals, jobOf \in Bijection(FileIds, JobIds), put \in [FileIds -> ClientContents] :
        /\ files = [f \in FileIds |-> [owner |-> p, kind |-> "image", size |-> put[f].size,
                                       status |-> "pending", variants |-> {}]]
        /\ jobs \in [JobIds -> JobRow]
        /\ \A j \in JobIds : jobs[j].status = "queued" /\ jobOf[jobs[j].file] = j
        /\ orig = put
        /\ charged = [f \in FileIds |-> put[f].size]
        /\ quota = [s \in Subjects |-> IF s = QuotaSubject(p) THEN Sum(charged, FileIds) ELSE 0]
        /\ stream \in Seq(Message)
        /\ \A e \in Entries : stream[e].job = jobOf[stream[e].file]
        /\ \A j \in JobIds : \E e \in Entries : stream[e].job = j
  BY PipelineStarts
<1>2. \A f \in FileIds : put[f] \in Content /\ put[f].size \in Nat
  BY <1>1, MediaAssumption DEF Content
<1>3. charged \in [FileIds -> Nat]
  BY <1>1, <1>2
<1>4. \A f \in FileIds : /\ files[f] \in FileRow /\ files[f] # None
                         /\ files[f].owner = p /\ files[f].size = charged[f]
                         /\ files[f].status = "pending" /\ files[f].variants = {}
  <2> TAKE f \in FileIds
  <2>1. PICK row : row = [owner |-> p, kind |-> "image", size |-> put[f].size,
                          status |-> "pending", variants |-> {}]
    OBVIOUS
  <2>2. files[f] = row /\ charged[f] = put[f].size
    BY <1>1, <2>1
  <2>3. row \in FileRow /\ row.owner = p /\ row.size = put[f].size
        /\ row.status = "pending" /\ row.variants = {}
    BY <1>2, <2>1 DEF FileRow, FileStatus, Kinds
  <2>4. row # None
    BY <2>3, NoneAssumption
  <2>5. QED
    BY <2>2, <2>3, <2>4
<1>5. Sum(charged, FileIds) \in Nat
  <2>1. Sum(charged, FileIds) \in Int
    BY <1>3, SumTyped
  <2>2. \A f \in FileIds : charged[f] \in Nat
    BY <1>3
  <2> DEFINE zeros == [f \in {} |-> 0]
  <2>3. Sum(zeros, {}) <= Sum(charged, FileIds) /\ Sum(zeros, {}) = 0
    BY <2>2, SumBounds, SumUnfolds, FS_EmptySet
  <2>4. QED
    BY <2>1, <2>3
<1>6. TypeOK
  <2>1. FilesTypeOK
    BY <1>1, <1>4 DEF FilesTypeOK
  <2>2. JobsTypeOK /\ StreamTypeOK
    BY <1>1 DEF JobsTypeOK, StreamTypeOK
  <2>3. QuotaTypeOK
    BY <1>1, <1>5 DEF QuotaTypeOK
  <2>4. ObjectsTypeOK
    BY <1>0, <1>1, <1>2 DEF ObjectsTypeOK
  <2>5. ReqTypeOK
    BY <1>0 DEF ReqTypeOK, IdleReq, Request, ReqPCs, Kinds
  <2>6. refunds \in [FileIds -> Seq(Nat)]
    BY <1>0
  <2>7. QED
    BY <1>0, <1>3, <2>1, <2>2, <2>3, <2>4, <2>5, <2>6 DEF TypeOK, BaseTypeOK
<1>7. SystemTypeOK
  <2>1. Len(stream) \in Nat
    BY <1>1
  <2>2. QED
    BY <1>0, <1>6, <2>1, ProcessorAssumption
       DEF SystemTypeOK, GroupInit, StartWorker, NoFinish, Worker, WorkerPCs, Finish, FinishPCs
<1>8. GroupInv
  BY <1>0 DEF GroupInit, GroupInv, StartWorker, NoFinish, Waiting
<1>9. \A f \in FileIds : refunds[f] = <<>> /\ Len(refunds[f]) = 0
  BY <1>0
<1>10. \A h \in Handlers : req[h].pc = "idle"
  BY <1>0 DEF IdleReq
<1>11. RefundInv
  BY <1>0, <1>9, <1>10 DEF RefundInv, Refunding
<1>12. \A j \in JobIds : jobs[j] \in JobRow /\ jobs[j] # None /\ jobs[j].file \in FileIds
  BY <1>1, NoneAssumption DEF JobRow
<1>13. \A f \in FileIds : HasRow(f) /\ Paid(f)
  BY <1>3, <1>4 DEF HasRow, Paid
<1>14. LedgerInv
  BY <1>10, <1>12, <1>13 DEF LedgerInv, PastCharge, JobPCs
<1>15. MessageInv
  <2>1. ASSUME NEW e \in Entries PROVE Vouched(stream[e])
    <3>1. stream[e] \in Message /\ stream[e].job \in JobIds /\ stream[e].file \in FileIds
      <4>1. stream \in Seq(Message) /\ e \in 1 .. Len(stream)
        BY <1>1 DEF Entries
      <4>2. stream[e] \in Message
        BY <4>1
      <4>3. QED
        BY <4>2 DEF Message
    <3>2. jobs[stream[e].job].file = stream[e].file
      <4>1. jobOf[jobs[stream[e].job].file] = jobOf[stream[e].file]
        BY <1>1, <3>1
      <4>2. QED
        BY <1>12, <3>1, <4>1 DEF Bijection, Injection, IsInjective
    <3>3. QED
      BY <1>0, <1>13, <3>1, <3>2 DEF Vouched
  <2>2. QED
    BY <1>0, <1>10, <2>1 DEF MessageInv, JobPCs
<1>16. PublishInv
  BY <1>0, <1>1 DEF PublishInv, SucceededIsPublished, GroupInit, NoFinish
<1>17. SettledInv
  <2>1. \A w \in Workers : ~Reported(w)
    BY <1>0 DEF GroupInit, StartWorker, Reported, Waiting
  <2>2. \A e \in Entries : e > cursor
    BY <1>0 DEF GroupInit, Entries
  <2>3. QED
    BY <1>1, <2>1, <2>2 DEF SettledInv, Open, Unsettled
<1>18. SpentInv
  <2>1. IsFiniteSet(issued)
    <3>1. IsFiniteSet(JobIds)
      BY <1>1, FS_Bijection DEF ExistsBijection
    <3>2. QED
      BY <1>0, <3>1, FS_Union
  <2>2. PICK own : own = [f \in FileIds |-> QuotaSubject(p)]
    OBVIOUS
  <2>3. OwnersKnown(own)
    BY <1>4, <1>10, <2>2, SubjectOfPrincipal DEF OwnersKnown, HasRow
  <2>4. Balance = charged
    <3>1. \A f \in FileIds : charged[f] - TotalRefunded(f) = charged[f]
      BY <1>3, <1>9 DEF TotalRefunded
    <3>2. charged = [f \in FileIds |-> charged[f]]
      BY <1>3
    <3>3. QED
      BY <3>1, <3>2 DEF Balance
  <2>5. ASSUME NEW s \in Subjects PROVE Sum(Balance, FilesOf(own, s)) <= quota[s]
    <3>1. CASE s = QuotaSubject(p)
      <4>1. FilesOf(own, s) = FileIds
        BY <1>0, <2>2, <3>1 DEF FilesOf
      <4>2. quota[s] = Sum(charged, FileIds)
        BY <1>1, <3>1
      <4>3. QED
        BY <1>5, <2>4, <4>1, <4>2
    <3>2. CASE s # QuotaSubject(p)
      <4>1. FilesOf(own, s) = {}
        BY <2>2, <3>2 DEF FilesOf
      <4>2. Sum(charged, {}) = 0 /\ quota[s] = 0
        BY <1>1, <3>2, SumUnfolds, FS_EmptySet
      <4>3. QED
        BY <2>4, <4>1, <4>2
    <3>3. QED
      BY <3>1, <3>2
  <2>6. \A f \in FileIds \ issued : charged[f] = 0
    BY <1>0
  <2>7. QED
    BY <2>1, <2>3, <2>5, <2>6 DEF SpentInv
<1>19. QED
  BY <1>7, <1>8, <1>11, <1>14, <1>15, <1>16, <1>17, <1>18 DEF SystemInv

\* What the pipeline does, the system may do.
LEMMA PipelineIsSystem == [PipelineNext]_systemVars => [SystemNext]_systemVars
<1>1. \A h \in Handlers : RequestStep(h) => UploadsNext
  BY DEF RequestStep, UploadsNext
<1>2. QED
  BY <1>1 DEF PipelineNext, SystemNext

LEMMA PipelineInvariant ==
  ASSUME IsFiniteSet(FileIds) PROVE PipelineSpec => [](SystemInv /\ SpentInv)
<1>1. PipelineInit => SystemInv /\ SpentInv
  BY InitPipelineInv
<1>2. SystemInv /\ SpentInv /\ [PipelineNext]_systemVars => SystemInv' /\ SpentInv'
  BY PipelineIsSystem, NextSystemInv, NextSystemSpent
<1>3. QED
  BY <1>1, <1>2, PTL DEF PipelineSpec

(* From the state that uploads leave, too: types are kept, and a job shown *)
(* as succeeded has a file that lists its variants, whatever fails.        *)
THEOREM PipelineIsSafe ==
  ASSUME IsFiniteSet(FileIds) PROVE PipelineSpec => [](SystemTypeOK /\ SucceededIsPublished)
<1>1. SystemInv => SystemTypeOK /\ SucceededIsPublished
  BY DEF SystemInv, PublishInv
<1>2. QED
  BY <1>1, PipelineInvariant, PTL

(* The queued jobs of completed uploads are not lost either: the retries,  *)
(* deletes and workers of the pipeline start with an entry for each.       *)
THEOREM PipelineLosesNothing ==
  ASSUME IsFiniteSet(FileIds), Faults \cap {"abort", "store"} = {}
  PROVE  PipelineSpec => []NoLostJob
<1>1. PipelineInit => SystemInv /\ SettledInv
  BY InitPipelineInv
<1>2. SystemInv /\ SettledInv /\ [PipelineNext]_systemVars => SystemInv' /\ SettledInv'
  BY PipelineIsSystem, NextSystemInv, NextSettled
<1>3. SettledInv => NoLostJob
  BY DEF SettledInv, NoLostJob, HasEntry, Open
<1>4. QED
  BY <1>1, <1>2, <1>3, PTL DEF PipelineSpec

-----------------------------------------------------------------------------
(* What a file publishes is in the bucket.                                 *)

(***************************************************************************)
(* Why PublishedExists holds.  A worker puts the objects of its entry one  *)
(* after the other before it reports them, and in the pipeline nothing     *)
(* takes an object away again but a delete, which then goes on to the row: *)
(* what is stored stays stored as long as the file is not going.           *)
(***************************************************************************)
Going(f) == ~HasRow(f) \/ Running(f, {"d_row"})
Stored(f, names) ==
    \/ orig[f] # None /\ orig[f].form = "stripped" /\ names \subseteq derived[f]
    \/ Going(f)

\* The report of w still to be acted on lists the variants.
Publishing(w) ==
    \/ finish[w].pc = "get_job" /\ finish[w].report = "variants"
    \/ finish[w].pc = "variants"

\* What w has put for f so far.
HasPut(w, f) ==
    /\ worker[w].pc = "put_detail" => Stored(f, {})
    /\ worker[w].pc = "put_thumb" => Stored(f, {"detail"})
    /\ worker[w].pc = "report_ok" => Stored(f, DerivedNames)

StoredInv ==
    /\ \A w \in Workers : HasPut(w, FileOf(w))
    /\ \A w \in Workers : Publishing(w) => Stored(finish[w].msg.file, DerivedNames)
    /\ \A f \in FileIds : HasRow(f) /\ files[f].variants # {} => Stored(f, DerivedNames)

\* A delete that has begun is not taken back.
LEMMA GoingLasts ==
  ASSUME "abort" \notin Faults, SystemInv, RowsKept, NEW f \in FileIds \cap issued, Going(f),
         (\E g \in Handlers : RequestStep(g)) \/ UNCHANGED req
  PROVE  Going(f)'
<1>0. FilesTypeOK /\ req \in [Handlers -> Request]
  BY DEF SystemInv, SystemTypeOK, TypeOK, BaseTypeOK, ReqTypeOK
<1>1. CASE ~HasRow(f)
  BY <1>1 DEF RowsKept, FileKept, Going
<1>2. ASSUME NEW h \in Handlers, req[h].pc = "d_row", req[h].file = f PROVE Going(f)'
  <2>1. req'[h] = req[h] => Going(f)'
    BY <1>2 DEF Going, Running
  <2>2. ASSUME NEW g \in Handlers, g # h, RequestStep(g) PROVE Going(f)'
    BY <1>0, <2>1, <2>2, OneRequestMoves DEF RequestStep
  <2>3. CASE RequestStep(h)
    <3>1. DeleteRow(h)
      BY <1>2, <2>3 DEF RequestStep, JobsStep, DeleteStep, RetryStart, RetryQueued, MarkPending,
         EnqueueOK, EnqueueFails, UndoJob, UndoFile, Abort, DeleteStart, DeleteObjects, DeleteRefund,
         Accept
    <3>2. DeleteFileRow(f)
      BY <1>2, <3>1 DEF DeleteRow
    <3>3. ~HasRow(f)'
      BY <1>0, <3>2, DeleteFileRowKeeps
    <3>4. QED
      BY <3>3 DEF Going
  <2>4. QED
    BY <2>1, <2>2, <2>3
<1>3. QED
  BY <1>1, <1>2 DEF Going, Running

\* A request takes no object away unless its delete goes on to the row.
LEMMA RequestsKeepStored ==
  ASSUME Faults \cap {"abort", "object"} = {}, SystemInv, RowsKept, NEW f \in FileIds \cap issued,
         NEW names, Stored(f, names), \E g \in Handlers : RequestStep(g)
  PROVE  Stored(f, names)'
<1>0. ObjectsTypeOK /\ req \in [Handlers -> Request]
  BY DEF SystemInv, SystemTypeOK, TypeOK, BaseTypeOK, ReqTypeOK
<1>1. CASE Going(f)
  BY <1>1, GoingLasts DEF Stored
<1>2. UNCHANGED objectVars /\ ~Going(f) => Stored(f, names)'
  BY DEF Stored, objectVars
<1>3. ASSUME NEW g \in Handlers, DeleteObjects(g) PROVE ~Going(f) => Stored(f, names)'
  <2>1. DeletePrefix(req[g].file) /\ Goto(g, "d_row")
    BY <1>3 DEF DeleteObjects
  <2>2. CASE req[g].file = f
    <3>1. req'[g].pc = "d_row" /\ req'[g].file = f
      BY <1>0, <2>1, <2>2, RequestMoves
    <3>2. QED
      BY <3>1 DEF Stored, Going, Running
  <2>3. CASE req[g].file # f
    <3>1. orig'[f] = orig[f] /\ derived'[f] = derived[f]
      BY <1>0, <2>1, <2>3 DEF DeletePrefix, ObjectsTypeOK
    <3>2. QED
      BY <3>1 DEF Stored
  <2>4. QED
    BY <2>2, <2>3
<1>4. \A g \in Handlers : RequestStep(g) => DeleteObjects(g) \/ UNCHANGED objectVars
  BY DEF RequestStep, JobsStep, DeleteStep, RetryStart, RetryQueued, MarkPending, EnqueueOK,
     EnqueueFails, UndoJob, UndoFile, Abort, DeleteStart, DeleteRow, DeleteRefund, objectVars
<1>5. QED
  BY <1>1, <1>2, <1>3, <1>4

\* A worker only adds objects, and its orig is the stripped one.
LEMMA WorkersKeepStored ==
  ASSUME Faults \cap {"abort", "object"} = {}, SystemInv, RowsKept, NEW f \in FileIds \cap issued,
         NEW names, Stored(f, names), ProcessorNext
  PROVE  Stored(f, names)'
<1>0. SystemTypeOK /\ GroupInv /\ ObjectsTypeOK /\ UNCHANGED req
  BY WorkersLeaveRows DEF SystemInv, SystemTypeOK, TypeOK, BaseTypeOK
<1>1. CASE Going(f)
  BY <1>0, <1>1, GoingLasts DEF Stored
<1>2. UNCHANGED objectVars /\ ~Going(f) => Stored(f, names)'
  BY DEF Stored, objectVars
<1>3. ASSUME NEW w \in Workers, PutVariants(w) PROVE ~Going(f) => Stored(f, names)'
  <2>0. \A size \in {c.size : c \in ClientContents} : size \in Nat
    BY MediaAssumption DEF Content
  <2>1. \/ UNCHANGED derived /\ \E size \in Nat : orig' = [orig EXCEPT ![FileOf(w)] =
                                      [size |-> size, kind |-> "image", form |-> "stripped"]]
        \/ UNCHANGED orig /\ \E name : derived' = [derived EXCEPT ![FileOf(w)] = @ \cup {name}]
    BY <1>3, <2>0 DEF PutVariants, PutVariant
  <2>2. CASE UNCHANGED derived /\ \E size \in Nat : orig' = [orig EXCEPT ![FileOf(w)] =
                                      [size |-> size, kind |-> "image", form |-> "stripped"]]
    <3>1. PICK size \in Nat : orig' = [orig EXCEPT ![FileOf(w)] =
                                 [size |-> size, kind |-> "image", form |-> "stripped"]]
      BY <2>2
    <3>2. PICK new : new = [size |-> size, kind |-> "image", form |-> "stripped"]
      OBVIOUS
    <3>3. new \in Content /\ new.form = "stripped" /\ orig' = [orig EXCEPT ![FileOf(w)] = new]
      BY <3>1, <3>2 DEF Content, Kinds, Forms
    <3>4. new # None
      BY <3>3, MediaAssumption
    <3>5. QED
      BY <1>0, <2>2, <3>3, <3>4 DEF Stored, ObjectsTypeOK
  <2>3. CASE UNCHANGED orig /\ \E name : derived' = [derived EXCEPT ![FileOf(w)] = @ \cup {name}]
    BY <1>0, <2>3 DEF Stored, ObjectsTypeOK
  <2>4. QED
    BY <2>1, <2>2, <2>3
<1>4. UNCHANGED objectVars \/ \E w \in Workers : PutVariants(w)
  BY DEF ProcessorNext, QueueStep, ImageStep, FinishStep, FailStep, IdleStep, GetImage
<1>5. QED
  BY <1>1, <1>2, <1>3, <1>4

-----------------------------------------------------------------------------
(* Who stores, reports and publishes.                                      *)

Storing == {"put_detail", "put_thumb", "report_ok"}

\* A worker that is storing has just put an object, or stays where it was.
LEMMA WorkersStore ==
  ASSUME SystemTypeOK, GroupInv, ProcessorNext, NEW w \in Workers, worker'[w].pc \in Storing
  PROVE  /\ worker'[w].batch = worker[w].batch /\ worker[w].batch # <<>>
         /\ worker'[w].pc = worker[w].pc \/ PutVariants(w)
<1>0. WorkersTypeOK /\ FinishTypeOK
  BY DEF SystemTypeOK, WorkersTypeOK, FinishTypeOK
<1>1. worker[w].pc # "claim" /\ worker[w].pc # "read" => worker[w].batch # <<>>
  BY DEF GroupInv
<1>2. worker'[w] = worker[w] => worker'[w].batch = worker[w].batch /\ worker'[w].pc = worker[w].pc
                                /\ worker[w].batch # <<>>
  BY <1>1 DEF Storing
<1>3. ASSUME NEW batch, NEW then \in {"claim", "read"}, Handle(w, batch, then) PROVE FALSE
  <2> DEFINE new == [StartWorker EXCEPT !.pc = IF batch = <<>> THEN then ELSE "get",
                                        !.batch = batch, !.then = then]
  <2>1. new.pc \in {"claim", "read", "get"}
    BY DEF StartWorker
  <2>2. worker' = [worker EXCEPT ![w] = new]
    BY <1>3 DEF Handle
  <2> HIDE DEF new
  <2>3. worker'[w].pc \in {"claim", "read", "get"}
    BY <1>0, <2>1, <2>2 DEF WorkersTypeOK
  <2>4. QED
    BY <2>3 DEF Storing
<1>4. ~Handled(w)
  BY <1>0, <1>3 DEF Handled, WorkersTypeOK, Worker
<1>5. ASSUME NEW pc \in WorkerPCs, ToWorker(w, pc)
      PROVE  worker'[w].pc = pc /\ worker'[w].batch = worker[w].batch
  BY <1>0, <1>5, ToWorkerTyped
<1>6. ~ClaimIdle(w) /\ ~ReadGroup(w)
  BY <1>3 DEF ClaimIdle, ReadGroup
<1>7. ~AckProcessed(w) /\ ~AckFailed(w) /\ ~LoseReply(w)
  BY <1>4 DEF AckProcessed, AckFailed, LoseReply
<1>8. ~Crash(w)
  BY <1>0 DEF Crash, WorkersTypeOK, StartWorker, Storing
<1>9. ~SendFinish(w)
  BY <1>5 DEF SendFinish, WorkerPCs, Storing
<1>10. ~GetReply(w)
  BY <1>4, <1>5 DEF GetReply, WorkerPCs, Storing
<1>11. ~AddToDlq(w)
  BY <1>5 DEF AddToDlq, WorkerPCs, Storing
<1>12. CASE PutVariants(w)
  <2>1. worker'[w].batch = worker[w].batch
    BY <1>5, <1>12 DEF PutVariants, PutVariant, WorkerPCs
  <2>2. worker[w].batch # <<>>
    BY <1>1, <1>12 DEF PutVariants, PutVariant
  <2>3. QED
    BY <1>12, <2>1, <2>2
<1>13. ~GetImage(w)
  <2> SUFFICES ASSUME GetImage(w) PROVE FALSE
    OBVIOUS
  <2>1. ~ToWorker(w, "report_err")
    BY <1>5 DEF WorkerPCs, Storing
  <2>2. PICK got : worker' = [worker EXCEPT ![w].pc = "put_orig", ![w].image = got]
    BY <2>1 DEF GetImage
  <2> DEFINE new == [worker[w] EXCEPT !.pc = "put_orig", !.image = got]
  <2>3. new.pc = "put_orig"
    BY <1>0 DEF WorkersTypeOK, Worker
  <2>4. worker' = [worker EXCEPT ![w] = new]
    BY <1>0, <2>2 DEF WorkersTypeOK
  <2> HIDE DEF new
  <2>5. worker'[w].pc = "put_orig"
    BY <1>0, <2>3, <2>4 DEF WorkersTypeOK
  <2>6. QED
    BY <2>5 DEF Storing
<1>14. FinishStep(w) \/ IdleStep => worker'[w] = worker[w]
  BY DEF FinishStep, IdleStep, Elapse
<1>15. ASSUME NEW v \in Workers, v # w,
              QueueStep(v) \/ ImageStep(v) \/ FinishStep(v) \/ Crash(v) \/ LoseReply(v)
       PROVE  worker'[w] = worker[w]
  BY <1>15, OneWorkerMoves
<1>16. QED
  BY <1>2, <1>6, <1>7, <1>8, <1>9, <1>10, <1>11, <1>12, <1>13, <1>14, <1>15
     DEF ProcessorNext, QueueStep, ImageStep, FailStep

\* A report of variants was sent after all of them had been put.
LEMMA ReportsList ==
  ASSUME SystemTypeOK, ProcessorNext, NEW w \in Workers, Publishing(w)'
  PROVE  \/ Publishing(w) /\ finish'[w].msg = finish[w].msg
         \/ worker[w].pc = "report_ok" /\ finish'[w].msg = stream[EntryOf(w)]
<1>0. FinishTypeOK
  BY DEF SystemTypeOK, FinishTypeOK
<1>1. finish'[w] = finish[w] => Publishing(w) /\ finish'[w].msg = finish[w].msg
  BY DEF Publishing
<1>2. CASE SendFinish(w)
  <2>1. CASE worker[w].pc = "report_ok"
    <3>1. PICK report : finish' = [finish EXCEPT ![w] =
                           [pc |-> "get_job", msg |-> stream[EntryOf(w)], report |-> report]]
      BY <1>2 DEF SendFinish
    <3>2. finish'[w].msg = stream[EntryOf(w)]
      BY <1>0, <3>1 DEF FinishTypeOK
    <3>3. QED
      BY <2>1, <3>2
  <2>2. CASE worker[w].pc # "report_ok"
    <3>1. finish' = [finish EXCEPT ![w] =
                        [pc |-> "get_job", msg |-> stream[EntryOf(w)], report |-> "error"]]
      BY <1>2, <2>2 DEF SendFinish
    <3>2. finish'[w].pc = "get_job" /\ finish'[w].report = "error"
      BY <1>0, <3>1 DEF FinishTypeOK
    <3>3. QED
      BY <3>2 DEF Publishing
  <2>3. QED
    BY <2>1, <2>2
<1>3. ~GetReply(w)
  BY <1>0 DEF GetReply, FinishTypeOK, NoFinish, Publishing
<1>4. CASE FinishStep(w)
  <2>1. ASSUME NEW pc \in FinishPCs, ToFinish(w, pc), pc # "variants", pc # "get_job" PROVE FALSE
    BY <1>0, <2>1, ToFinishTyped DEF Publishing
  <2>2. FinishGetJob(w) /\ ToFinish(w, "variants") /\ finish[w].report # "error"
    BY <1>4, <2>1 DEF FinishStep, FinishGetJob, FinishVariants, FinishSucceeded, FinishJobFailed,
                      FinishFileFailed, FinishAborts, FinishPCs
  <2>3. finish'[w].msg = finish[w].msg
    BY <1>0, <2>2, ToFinishTyped DEF FinishPCs
  <2>4. finish[w].pc = "get_job" /\ finish[w].report = "variants"
    BY <1>0, <2>2 DEF FinishGetJob, FinishTypeOK, Finish
  <2>5. QED
    BY <2>3, <2>4 DEF Publishing
<1>5. ClaimIdle(w) \/ ReadGroup(w) \/ AckProcessed(w) \/ AddToDlq(w) \/ AckFailed(w)
        \/ ImageStep(w) \/ Crash(w) \/ LoseReply(w) \/ IdleStep => finish'[w] = finish[w]
  BY DEF ClaimIdle, ReadGroup, AckProcessed, AddToDlq, AckFailed, ImageStep, GetImage, PutVariants,
         PutVariant, Crash, LoseReply, IdleStep, Elapse
<1>6. ASSUME NEW v \in Workers, v # w,
             QueueStep(v) \/ ImageStep(v) \/ FinishStep(v) \/ Crash(v) \/ LoseReply(v)
      PROVE  finish'[w] = finish[w]
  BY <1>6, OneWorkerMoves
<1>7. QED
  BY <1>1, <1>2, <1>3, <1>4, <1>5, <1>6 DEF ProcessorNext, QueueStep, FailStep

\* Each put adds its object to those before it.
LEMMA PutsStore ==
  ASSUME Faults \cap {"abort", "object"} = {}, SystemInv, RowsKept, StoredInv, ProcessorNext,
         NEW w \in Workers, PutVariants(w), worker[w].batch # <<>>,
         NEW f \in FileIds \cap issued, f = FileOf(w)
  PROVE  HasPut(w, f)'
<1>0. SystemTypeOK /\ ObjectsTypeOK /\ WorkersTypeOK
  BY DEF SystemInv, SystemTypeOK, TypeOK, BaseTypeOK, WorkersTypeOK
<1>1. ASSUME NEW pc \in WorkerPCs, ToWorker(w, pc) PROVE worker'[w].pc = pc
  BY <1>0, <1>1, ToWorkerTyped
<1>2. \A names : Stored(f, names) => Stored(f, names)'
  BY WorkersKeepStored
<1>3. CASE PutVariant(w, "put_orig", "put_detail")
  <2>1. worker'[w].pc = "put_detail"
    BY <1>1, <1>3 DEF PutVariant, WorkerPCs
  <2>2. PICK size \in {c.size : c \in ClientContents} :
           orig' = [orig EXCEPT ![f] = [size |-> size, kind |-> "image", form |-> "stripped"]]
    BY <1>3 DEF PutVariant
  <2>3. PICK new : new = [size |-> size, kind |-> "image", form |-> "stripped"]
    OBVIOUS
  <2>4. new \in Content /\ new.form = "stripped"
    BY <2>3, MediaAssumption DEF Content, Kinds, Forms
  <2>5. orig'[f] = new /\ new # None
    BY <1>0, <2>2, <2>3, <2>4, MediaAssumption DEF ObjectsTypeOK
  <2>6. Stored(f, {})'
    BY <2>4, <2>5 DEF Stored
  <2>7. QED
    BY <2>1, <2>6 DEF HasPut
<1>4. ASSUME NEW name, derived' = [derived EXCEPT ![f] = @ \cup {name}], UNCHANGED orig,
             NEW names, Stored(f, names)
      PROVE  Stored(f, names \cup {name})'
  <2>1. CASE Going(f)
    <3>1. Stored(f, names \cup {name})
      BY <2>1 DEF Stored
    <3>2. QED
      BY <1>2, <3>1
  <2>2. CASE ~Going(f)
    <3>1. derived'[f] = derived[f] \cup {name} /\ names \subseteq derived[f]
      BY <1>0, <1>4, <2>2 DEF ObjectsTypeOK, Stored
    <3>2. orig'[f] # None /\ orig'[f].form = "stripped"
      BY <1>4, <2>2 DEF Stored
    <3>3. QED
      BY <3>1, <3>2 DEF Stored
  <2>3. QED
    BY <2>1, <2>2
<1>5. CASE PutVariant(w, "put_detail", "put_thumb")
  <2>1. worker'[w].pc = "put_thumb"
    BY <1>1, <1>5 DEF PutVariant, WorkerPCs
  <2>2. derived' = [derived EXCEPT ![f] = @ \cup {"detail"}] /\ UNCHANGED orig
    BY <1>5 DEF PutVariant
  <2>3. Stored(f, {})
    BY <1>5 DEF PutVariant, StoredInv, HasPut
  <2>4. Stored(f, {} \cup {"detail"})'
    BY <1>4, <2>2, <2>3
  <2>5. {} \cup {"detail"} = {"detail"}
    OBVIOUS
  <2>6. QED
    BY <2>1, <2>4, <2>5 DEF HasPut
<1>6. CASE PutVariant(w, "put_thumb", "report_ok")
  <2>1. worker'[w].pc = "report_ok"
    BY <1>1, <1>6 DEF PutVariant, WorkerPCs
  <2>2. derived' = [derived EXCEPT ![f] = @ \cup {"thumb"}] /\ UNCHANGED orig
    BY <1>6 DEF PutVariant
  <2>3. Stored(f, {"detail"})
    BY <1>6 DEF PutVariant, StoredInv, HasPut
  <2>4. Stored(f, {"detail"} \cup {"thumb"})'
    BY <1>4, <2>2, <2>3
  <2>5. {"detail"} \cup {"thumb"} = DerivedNames
    BY DEF DerivedNames
  <2>6. QED
    BY <2>1, <2>4, <2>5 DEF HasPut
<1>7. QED
  BY <1>3, <1>5, <1>6 DEF PutVariants, HasPut

\* Nothing but a report of variants publishes them.
LEMMA RequestsPublishNothing ==
  ASSUME SystemInv, NEW g \in Handlers, RequestStep(g), NEW f \in FileIds, HasRow(f)'
  PROVE  HasRow(f) /\ files'[f].variants = files[f].variants
<1>0. FilesTypeOK /\ \A h \in Handlers : req[h].pc \notin {"idle", "p_create"} => req[h].file \in FileIds
  BY DEF SystemInv, SystemTypeOK, TypeOK, BaseTypeOK, ReqTypeOK
<1>1. ASSUME NEW status \in FileStatus, SetFileStatus(req[g].file, status), req[g].file \in FileIds
      PROVE  HasRow(f) /\ files'[f].variants = files[f].variants
  BY <1>0, <1>1, SetFileStatusKeeps DEF HasRow
<1>2. ASSUME DeleteFileRow(req[g].file), req[g].file \in FileIds
      PROVE  HasRow(f) /\ files'[f].variants = files[f].variants
  BY <1>0, <1>2, DeleteFileRowKeeps DEF HasRow
<1>3. CASE MarkPending(g)
  BY <1>0, <1>1, <1>3 DEF MarkPending, FileStatus
<1>4. CASE UndoFile(g)
  BY <1>0, <1>1, <1>4 DEF UndoFile, FileStatus, HasRow
<1>5. CASE DeleteRow(g)
  BY <1>0, <1>2, <1>5 DEF DeleteRow
<1>6. RequestStep(g) => MarkPending(g) \/ UndoFile(g) \/ DeleteRow(g) \/ UNCHANGED files
  BY DEF RequestStep, JobsStep, DeleteStep, RetryStart, RetryQueued, EnqueueOK, EnqueueFails,
     UndoJob, Abort, DeleteStart, DeleteObjects, DeleteRefund, storeVars
<1>7. QED
  BY <1>3, <1>4, <1>5, <1>6 DEF HasRow

LEMMA ReportsPublishListed ==
  ASSUME SystemInv, ProcessorNext, NEW f \in FileIds, HasRow(f)', files'[f].variants # {}
  PROVE  /\ HasRow(f)
         /\ files[f].variants # {} \/ (\E w \in Workers : Publishing(w) /\ finish[w].msg.file = f)
<1>0. SystemTypeOK /\ GroupInv /\ FilesTypeOK
  BY DEF SystemInv, SystemTypeOK, TypeOK, BaseTypeOK
<1>1. CASE UNCHANGED files
  BY <1>1 DEF HasRow
<1>2. ASSUME NEW w \in Workers, FinishStep(w)
      PROVE  /\ HasRow(f)
             /\ files[f].variants # {} \/ (Publishing(w) /\ finish[w].msg.file = f)
  <2>1. PICK g \in FileIds, j \in JobIds : finish[w].msg.file = g /\ finish[w].msg.job = j
    BY <1>0, <1>2, ReportFinds
  <2>2. HasRow(f)
    BY <1>0, <1>2, <2>1, ReportsKeepRows
  <2>3. FinishVariants(w) => Publishing(w)
    BY DEF FinishVariants, Publishing
  <2>4. SetFileStatus(g, "failed") => files'[f].variants = files[f].variants
    BY <1>0, <2>2, SetFileStatusKeeps DEF FileStatus
  <2>5. UNCHANGED files \/ SetFileStatus(g, "failed") \/ FinishVariants(w)
    BY <1>2, <2>1 DEF FinishStep, FinishGetJob, FinishSucceeded, FinishJobFailed, FinishFileFailed,
                      FinishAborts
  <2>6. g # f => files'[f] = files[f]
    BY <1>0, <1>2, <2>1, ReportsKeepRows
  <2>7. files'[f] = files[f] => files[f].variants # {}
    OBVIOUS
  <2>8. CASE g = f
    BY <2>1, <2>2, <2>3, <2>4, <2>5, <2>7, <2>8
  <2>9. CASE g # f
    BY <2>2, <2>6, <2>7, <2>9
  <2>10. QED
    BY <2>8, <2>9
<1>3. QED
  BY <1>1, <1>2, WorkersLeaveRows

-----------------------------------------------------------------------------
LEMMA NextStored ==
  ASSUME Faults \cap {"abort", "object"} = {}, SystemInv, StoredInv, [PipelineNext]_systemVars
  PROVE  StoredInv'
<1>0. /\ SystemInv' /\ RowsKept /\ SystemTypeOK /\ GroupInv /\ TypeOK
      /\ \A f \in FileIds : HasRow(f) => f \in issued
  BY PipelineIsSystem, NextSystemInv DEF SystemInv, RefundInv, SystemTypeOK
<1>1. CASE UNCHANGED systemVars
  BY <1>1 DEF StoredInv, HasPut, Stored, Going, Running, Publishing, FileOf, EntryOf, HasRow, systemVars,
     uploadsVars, baseVars, storeVars, objectVars, processorVars, groupVars
<1>2. CASE ~UNCHANGED systemVars
  <2>0. (\E g \in Handlers : RequestStep(g) /\ UNCHANGED processorVars) \/ ProcessorNext
    BY <1>2 DEF PipelineNext
  <2>1. \A f \in FileIds \cap issued : \A names : Stored(f, names) => Stored(f, names)'
    BY <1>0, <2>0, RequestsKeepStored, WorkersKeepStored
  <2>2. ASSUME NEW w \in Workers, worker[w].batch # <<>>, worker'[w].batch = worker[w].batch
        PROVE  \E f \in FileIds \cap issued : f = FileOf(w) /\ FileOf(w)' = f
    <3>1. EntryOf(w) \in Entries /\ EntryOf(w)' = EntryOf(w) /\ FileOf(w) \in FileIds
      BY <1>0, <2>2, EntryTyped DEF EntryOf
    <3>2. stream'[EntryOf(w)] = stream[EntryOf(w)]
      <4>1. CASE \E g \in Handlers : RequestStep(g)
        <5>1. [UploadsNext]_uploadsVars
          BY <4>1 DEF RequestStep, UploadsNext
        <5>2. QED
          BY <1>0, <3>1, <5>1, StreamGrows DEF TypeOK, BaseTypeOK
      <4>2. CASE ProcessorNext
        BY <4>2, WorkersLeaveRows
      <4>3. QED
        BY <2>0, <4>1, <4>2
    <3>3. FileOf(w)' = FileOf(w)
      BY <3>1, <3>2 DEF FileOf
    <3>4. FileOf(w) \in issued
      BY <3>1 DEF SystemInv, MessageInv, Vouched, FileOf
    <3>5. QED
      BY <3>1, <3>3, <3>4
  <2>3. ASSUME NEW w \in Workers PROVE HasPut(w, FileOf(w))'
    <3>1. CASE worker'[w].pc \notin Storing
      BY <3>1 DEF HasPut, Storing
    <3>2. CASE worker'[w].pc \in Storing
      <4>1. /\ worker'[w].batch = worker[w].batch /\ worker[w].batch # <<>>
            /\ worker'[w].pc = worker[w].pc \/ (ProcessorNext /\ PutVariants(w))
        <5>1. CASE UNCHANGED processorVars
          <6>1. worker' = worker
            BY <5>1 DEF processorVars
          <6>2. worker[w].pc \in Storing => worker[w].batch # <<>>
            BY <1>0 DEF GroupInv, Storing
          <6>3. QED
            BY <3>2, <6>1, <6>2
        <5>2. CASE ProcessorNext
          <6>1. /\ worker'[w].batch = worker[w].batch /\ worker[w].batch # <<>>
                /\ worker'[w].pc = worker[w].pc \/ PutVariants(w)
            BY <1>0, <3>2, <5>2, WorkersStore
          <6>2. QED
            BY <5>2, <6>1
        <5>3. QED
          BY <2>0, <5>1, <5>2
      <4>2. PICK f \in FileIds \cap issued : f = FileOf(w) /\ FileOf(w)' = f
        BY <2>2, <4>1
      <4>3. HasPut(w, f)'
        <5>1. CASE worker'[w].pc = worker[w].pc
          <6>1. HasPut(w, f)
            BY <4>2 DEF StoredInv
          <6>2. QED
            BY <2>1, <5>1, <6>1 DEF HasPut
        <5>2. CASE ProcessorNext /\ PutVariants(w)
          BY <1>0, <4>1, <4>2, <5>2, PutsStore
        <5>3. QED
          BY <4>1, <5>1, <5>2
      <4>4. QED
        BY <4>2, <4>3 DEF HasPut, Stored, Going, Running, HasRow
    <3>3. QED
      BY <3>1, <3>2
  <2>4. ASSUME NEW w \in Workers, Publishing(w)' PROVE Stored(finish[w].msg.file, DerivedNames)'
    <3>1. \E f \in FileIds \cap issued : finish'[w].msg.file = f /\ Stored(f, DerivedNames)
      <4>1. ASSUME Publishing(w), finish'[w].msg = finish[w].msg
            PROVE  \E f \in FileIds \cap issued : finish'[w].msg.file = f /\ Stored(f, DerivedNames)
        <5>1. finish[w].pc # "none"
          BY <4>1 DEF Publishing
        <5>2. finish[w].msg.file \in FileIds \cap issued
          BY <1>0, <5>1, ReportTyped DEF SystemInv, GroupInv, MessageInv, Vouched
        <5>3. QED
          BY <4>1, <5>2 DEF StoredInv
      <4>2. CASE UNCHANGED processorVars
        BY <2>4, <4>1, <4>2 DEF Publishing, processorVars
      <4>3. ASSUME worker[w].pc = "report_ok", finish'[w].msg = stream[EntryOf(w)]
            PROVE  \E f \in FileIds \cap issued : finish'[w].msg.file = f /\ Stored(f, DerivedNames)
        <5>1. EntryOf(w) \in Entries /\ FileOf(w) \in FileIds
          BY <1>0, <4>3, EntryTyped DEF GroupInv
        <5>2. FileOf(w) \in issued
          BY <5>1 DEF SystemInv, MessageInv, Vouched, FileOf
        <5>3. HasPut(w, FileOf(w))
          BY DEF StoredInv
        <5>4. QED
          BY <4>3, <5>1, <5>2, <5>3 DEF HasPut, FileOf
      <4>4. CASE ProcessorNext
        BY <1>0, <2>4, <4>1, <4>3, <4>4, ReportsList
      <4>5. QED
        BY <2>0, <4>2, <4>4
    <3>2. PICK f \in FileIds \cap issued : finish'[w].msg.file = f /\ Stored(f, DerivedNames)
      BY <3>1
    <3>3. Stored(f, DerivedNames)'
      BY <2>1, <3>2
    <3>4. QED
      BY <3>2, <3>3 DEF Stored, Going, Running, HasRow
  <2>5. ASSUME NEW f \in FileIds, HasRow(f)', files'[f].variants # {} PROVE Stored(f, DerivedNames)'
    <3>1. HasRow(f) /\ Stored(f, DerivedNames)
      <4>1. ASSUME HasRow(f), files[f].variants # {} PROVE Stored(f, DerivedNames)
        BY <4>1 DEF StoredInv
      <4>2. CASE \E g \in Handlers : RequestStep(g)
        BY <2>5, <4>1, <4>2, RequestsPublishNothing
      <4>3. CASE ProcessorNext
        BY <2>5, <4>1, <4>3, ReportsPublishListed DEF StoredInv
      <4>4. QED
        BY <2>0, <4>2, <4>3
    <3>2. QED
      BY <1>0, <2>1, <3>1
  <2>6. QED
    BY <2>3, <2>4, <2>5 DEF StoredInv
<1>3. QED
  BY <1>1, <1>2

(* What a file publishes is in the bucket and stripped of its metadata,    *)
(* unless its deletion has begun: for any number of workers handling the   *)
(* same entry, retries and deletes racing them, and any crash of a worker  *)
(* or failure of Redis or the store.  A request cut short between the two  *)
(* deletions, or one the bucket fails, leaves a row without its objects.   *)
THEOREM PublishedIsStored ==
  ASSUME IsFiniteSet(FileIds), Faults \cap {"abort", "object"} = {}
  PROVE  PipelineSpec => []PublishedExists
<1>1. PipelineInit => StoredInv
  <2> SUFFICES ASSUME PipelineInit PROVE StoredInv
    OBVIOUS
  <2>1. \A f \in FileIds : HasRow(f) => files[f].variants = {}
    BY PipelineStarts
  <2>2. QED
    BY <2>1 DEF PipelineInit, GroupInit, StartWorker, NoFinish, StoredInv, HasPut, Publishing
<1>2. SystemInv /\ StoredInv /\ [PipelineNext]_systemVars => StoredInv'
  BY NextStored
<1>3. SystemInv /\ StoredInv => PublishedExists
  <2> SUFFICES ASSUME SystemInv, StoredInv, NEW f \in FileIds, HasRow(f), files[f].variants # {},
                      ~Running(f, {"d_row"})
               PROVE  orig[f] # None /\ orig[f].form = "stripped" /\ derived[f] = DerivedNames
    BY DEF PublishedExists
  <2>1. derived[f] \subseteq DerivedNames
    BY DEF SystemInv, SystemTypeOK, TypeOK, BaseTypeOK, ObjectsTypeOK
  <2>2. Stored(f, DerivedNames)
    BY DEF StoredInv
  <2>3. QED
    BY <2>1, <2>2 DEF Stored, Going
<1>4. QED
  BY <1>1, <1>2, <1>3, PipelineInvariant, PTL DEF PipelineSpec

-----------------------------------------------------------------------------
(* One worker that is not interrupted.                                     *)

LoneWorker == \A v, w \in Workers : v = w
Live(e) == HasRow(stream[e].file)

(***************************************************************************)
(* The steps of such a worker, as its batch and its report see them.       *)
(***************************************************************************)
Claims(w) ==
    /\ worker[w].pc = "claim" /\ UNCHANGED <<cursor, pending, dlq, finish>>
    /\ \A n \in DOMAIN worker'[w].batch : worker'[w].batch[n] \in pending
    /\ worker'[w].pc \in {"read", "get"} /\ (worker'[w].pc = "read" => worker'[w].batch = <<>>)
Reads(w) ==
    /\ worker[w].pc = "read" /\ cursor < Len(stream) /\ UNCHANGED <<dlq, finish>>
    /\ cursor' = cursor + 1 /\ pending' = pending \cup {cursor + 1}
    /\ worker'[w].batch = <<cursor + 1>> /\ worker'[w].pc = "get"
ReadsNothing(w) ==
    /\ worker[w].pc = "read" /\ UNCHANGED <<cursor, pending, dlq, finish>>
    /\ worker'[w].batch = <<>> /\ worker'[w].pc = "claim"
Works(w) ==
    /\ worker[w].pc \in {"get", "put_orig", "put_detail", "put_thumb"}
    /\ UNCHANGED <<cursor, pending, dlq, finish>> /\ worker'[w].batch = worker[w].batch
    /\ worker'[w].pc \in {"put_orig", "put_detail", "put_thumb", "report_ok", "report_err"}
Sends(w) ==
    /\ UNCHANGED <<cursor, pending, dlq>> /\ worker'[w].batch = worker[w].batch
    /\ finish'[w].pc = "get_job" /\ finish'[w].msg = stream[EntryOf(w)]
    /\ \/ worker[w].pc = "report_ok" /\ worker'[w].pc = "wait_ok" /\ finish'[w].report = "variants"
       \/ worker[w].pc = "report_err" /\ worker'[w].pc = "wait_err" /\ finish'[w].report = "error"
IsHeard(w) ==
    /\ finish[w].pc = "ok" /\ finish'[w].pc = "none"
    /\ UNCHANGED <<cursor, pending, dlq>> /\ worker'[w].batch = worker[w].batch
    /\ \/ worker[w].pc = "wait_ok" /\ worker'[w].pc = "ack_ok"
       \/ worker[w].pc = "wait_err" /\ worker'[w].pc = "dlq"
GoesOn(w) ==
    /\ worker[w].batch # <<>> /\ UNCHANGED <<cursor, dlq>> /\ worker'[w].pc \in {"claim", "read", "get"}
    /\ worker'[w].batch = Tail(worker[w].batch) /\ (worker'[w].batch = <<>> <=> worker'[w].pc # "get")
    /\ \/ /\ worker[w].pc \in Waiting /\ finish[w].pc = "error" /\ finish'[w].pc = "none"
          /\ UNCHANGED pending
       \/ /\ worker[w].pc \in {"ack_ok", "ack_err"} /\ UNCHANGED finish
          /\ pending' = pending \ {EntryOf(w)}
SetsAside(w) ==
    /\ worker[w].pc = "dlq" /\ worker'[w].pc = "ack_err" /\ worker'[w].batch = worker[w].batch
    /\ dlq' = dlq \cup {EntryOf(w)} /\ UNCHANGED <<cursor, pending, finish>>
IsServed(w) ==
    /\ FinishStep(w) /\ UNCHANGED <<cursor, pending, dlq, worker>>
    /\ finish'[w].msg = finish[w].msg /\ finish'[w].report = finish[w].report

LEMMA LoneSteps ==
  ASSUME Faults \cap {"abort", "queue", "worker"} = {}, LoneWorker, SystemTypeOK, GroupInv, ProcessorNext,
         NEW w \in Workers
  PROVE  \/ UNCHANGED <<cursor, pending, dlq, worker, finish, files, jobs>>
         \/ /\ UNCHANGED <<files, jobs>>
            /\ \/ Claims(w) \/ Reads(w) \/ ReadsNothing(w) \/ Works(w) \/ Sends(w)
               \/ IsHeard(w) \/ GoesOn(w) \/ SetsAside(w)
         \/ IsServed(w)
<1>0. /\ WorkersTypeOK /\ FinishTypeOK /\ \A v \in Workers : v = w
      /\ pending \subseteq 1 .. cursor /\ idle \subseteq pending /\ cursor \in Nat
  BY DEF SystemTypeOK, WorkersTypeOK, FinishTypeOK, LoneWorker, TypeOK, BaseTypeOK, StreamTypeOK
<1>1. ASSUME ClaimIdle(w) PROVE Claims(w)
  <2>1. PICK batch \in Seq(Nat) : Handle(w, batch, "read") /\ \A n \in DOMAIN batch : batch[n] \in pending
    <3>1. PICK oldest \in SUBSET idle :
            \E batch \in [1 .. Cardinality(oldest) -> oldest] : Handle(w, batch, "read")
      BY <1>1 DEF ClaimIdle
    <3>2. PICK batch \in [1 .. Cardinality(oldest) -> oldest] : Handle(w, batch, "read")
      BY <3>1
    <3>3. Cardinality(oldest) \in Nat
      BY IdleIsFinite
    <3>4. pending \subseteq Nat /\ oldest \subseteq pending
      BY <1>0
    <3>5. \A n \in 1 .. Cardinality(oldest) : batch[n] \in pending /\ batch[n] \in Nat
      BY <3>2, <3>4
    <3>6. batch \in Seq(Nat) /\ \A n \in DOMAIN batch : batch[n] \in pending
      BY <3>2, <3>3, <3>5
    <3>7. QED
      BY <3>2, <3>6
  <2>2. worker'[w].batch = batch /\ worker'[w].pc = IF batch = <<>> THEN "read" ELSE "get"
    BY <1>0, <2>1, HandleTyped
  <2>3. worker[w].pc = "claim" /\ UNCHANGED <<cursor, pending, dlq, finish>>
    BY <1>1 DEF ClaimIdle
  <2>4. QED
    BY <2>1, <2>2, <2>3 DEF Claims
<1>2. ASSUME ReadGroup(w) PROVE Reads(w) \/ ReadsNothing(w)
  <2>1. <<cursor + 1>> \in Seq(Nat) /\ <<>> \in Seq(Nat) /\ <<cursor + 1>> # <<>>
    BY <1>0
  <2>2. /\ Handle(w, <<cursor + 1>>, "claim") => worker'[w].batch = <<cursor + 1>> /\ worker'[w].pc = "get"
        /\ Handle(w, <<>>, "claim") => worker'[w].batch = <<>> /\ worker'[w].pc = "claim"
    BY <1>0, <2>1, HandleTyped
  <2>3. QED
    BY <1>2, <2>2 DEF ReadGroup, Reads, ReadsNothing
<1>3. \A pc \in WorkerPCs : ToWorker(w, pc) => worker'[w].pc = pc /\ worker'[w].batch = worker[w].batch
  BY <1>0, ToWorkerTyped
<1>4. ASSUME GetImage(w) \/ PutVariants(w) PROVE Works(w)
  <2>1. CASE PutVariants(w)
    BY <1>3, <2>1 DEF PutVariants, PutVariant, Works, WorkerPCs, groupVars
  <2>2. CASE GetImage(w)
    <3>1. worker'[w].batch = worker[w].batch /\ worker'[w].pc \in {"put_orig", "report_err"}
      <4>1. ASSUME NEW got, worker' = [worker EXCEPT ![w].pc = "put_orig", ![w].image = got]
            PROVE  worker'[w].batch = worker[w].batch /\ worker'[w].pc = "put_orig"
        <5> DEFINE new == [worker[w] EXCEPT !.pc = "put_orig", !.image = got]
        <5>1. new.pc = "put_orig" /\ new.batch = worker[w].batch
          BY <1>0 DEF WorkersTypeOK, Worker
        <5>2. worker' = [worker EXCEPT ![w] = new]
          BY <1>0, <4>1 DEF WorkersTypeOK
        <5> HIDE DEF new
        <5>3. QED
          BY <1>0, <5>1, <5>2 DEF WorkersTypeOK
      <4>2. QED
        BY <1>3, <2>2, <4>1 DEF GetImage, WorkerPCs
    <3>2. QED
      BY <2>2, <3>1 DEF GetImage, Works, groupVars
  <2>3. QED
    BY <1>4, <2>1, <2>2
<1>5. ASSUME SendFinish(w) PROVE Sends(w)
  <2>1. finish' = [finish EXCEPT ![w] =
            [pc |-> "get_job", msg |-> stream[EntryOf(w)],
             report |-> IF worker[w].pc = "report_ok" THEN "variants" ELSE "error"]]
    BY <1>5 DEF SendFinish
  <2>2. /\ finish'[w].pc = "get_job" /\ finish'[w].msg = stream[EntryOf(w)]
        /\ finish'[w].report = IF worker[w].pc = "report_ok" THEN "variants" ELSE "error"
    BY <1>0, <2>1 DEF FinishTypeOK
  <2>3. QED
    BY <1>3, <1>5, <2>2 DEF SendFinish, Sends, WorkerPCs, groupVars
<1>6. ASSUME Handled(w), worker[w].batch # <<>>
      PROVE  /\ worker'[w].pc \in {"claim", "read", "get"}
             /\ worker'[w].batch = Tail(worker[w].batch)
             /\ worker'[w].batch = <<>> <=> worker'[w].pc # "get"
  BY <1>0, <1>6, HandledTyped
<1>7. ASSUME GetReply(w) PROVE IsHeard(w) \/ GoesOn(w)
  <2>1. finish' = [finish EXCEPT ![w] = NoFinish]
    BY <1>7 DEF GetReply
  <2>2. finish'[w].pc = "none"
    BY <1>0, <2>1 DEF FinishTypeOK, NoFinish
  <2>3. worker[w].pc \in Waiting /\ worker[w].batch # <<>>
    BY <1>7 DEF GetReply, GroupInv, Waiting
  <2>4. CASE finish[w].pc = "ok"
    BY <1>3, <1>7, <2>2, <2>4 DEF GetReply, IsHeard, WorkerPCs, groupVars
  <2>5. CASE finish[w].pc # "ok"
    BY <1>6, <1>7, <2>2, <2>3, <2>5 DEF GetReply, GoesOn, groupVars
  <2>6. QED
    BY <2>4, <2>5
<1>8. ASSUME AckProcessed(w) \/ AckFailed(w) PROVE GoesOn(w)
  BY <1>6, <1>8 DEF AckProcessed, AckFailed, GroupInv, GoesOn
<1>9. ASSUME AddToDlq(w) PROVE SetsAside(w)
  BY <1>3, <1>9 DEF AddToDlq, SetsAside, WorkerPCs
<1>10. ASSUME FinishStep(w) PROVE IsServed(w)
  <2>1. \A pc \in FinishPCs : ToFinish(w, pc) =>
          finish'[w].msg = finish[w].msg /\ finish'[w].report = finish[w].report
    BY <1>0 DEF ToFinish, FinishTypeOK, Finish
  <2>2. finish'[w].msg = finish[w].msg /\ finish'[w].report = finish[w].report
    BY <1>10, <2>1 DEF FinishStep, FinishGetJob, FinishVariants, FinishSucceeded, FinishJobFailed,
       FinishFileFailed, FinishAborts, FinishPCs
  <2>3. QED
    BY <1>10, <2>2 DEF FinishStep, IsServed, groupVars
<1>11. ~Crash(w) /\ ~LoseReply(w)
  BY DEF Crash, LoseReply
<1>12. CASE IdleStep
  BY <1>12 DEF IdleStep, Elapse, storeVars
<1>13. CASE FinishStep(w)
  BY <1>10, <1>13
<1>14. CASE QueueStep(w) \/ ImageStep(w)
  <2>1. UNCHANGED <<files, jobs>>
    BY <1>14 DEF QueueStep, ImageStep, storeVars
  <2>2. QED
    BY <1>1, <1>2, <1>4, <1>5, <1>7, <1>8, <1>9, <1>14, <2>1 DEF QueueStep, ImageStep
<1>15. QED
  BY <1>0, <1>11, <1>12, <1>13, <1>14 DEF ProcessorNext, FailStep

-----------------------------------------------------------------------------
(***************************************************************************)
(* What a lone worker relies on.  Rows of jobs go with their file only, so *)
(* a report of a live file is not refused; hence every entry of such a     *)
(* file is acknowledged before the next one is read, and is never claimed. *)
(***************************************************************************)
Manned(j, f) == HasRow(f) => jobs[j] # None
JobsLast ==
    /\ \A e \in Entries : Manned(stream[e].job, stream[e].file)
    /\ \A h \in Handlers : req[h].pc \in JobPCs => Manned(req[h].job, req[h].file)

Hand(w) ==
    /\ worker[w].pc \in {"claim", "read"} => worker[w].batch = <<>>
    /\ worker[w].pc \in Waiting <=> finish[w].pc # "none"
    /\ finish[w].pc \in {"variants", "job_ok"} => worker[w].pc = "wait_ok"
    /\ finish[w].pc \in {"job_failed", "file_failed"} => worker[w].pc = "wait_err"
    /\ finish[w].pc = "get_job" => (finish[w].report = "error" <=> worker[w].pc = "wait_err")
    /\ finish[w].pc = "error" => ~HasRow(finish[w].msg.file)

\* An entry of a live file is in hand alone, from its delivery to its acknowledgement.
InHand(w) ==
    /\ \A n \in DOMAIN worker[w].batch : Live(worker[w].batch[n]) => worker[w].batch = <<cursor>>
    /\ \A e \in pending : Live(e) => worker[w].batch = <<e>>

\* A request undoes an enqueueing only because XADD reported an error.
NoUndo == \A h \in Handlers : req[h].pc \notin {"undo_job", "undo_file"}

LoneInv ==
    /\ JobsLast
    /\ NoUndo
    /\ \A w \in Workers : Hand(w) /\ InHand(w)

\* No row of a job goes but with the row of its file.
LEMMA UpdateJobLasts ==
  ASSUME JobsTypeOK, NEW j \in JobIds, NEW status \in JobStatus, UpdateJob(j, status),
         NEW i \in JobIds, jobs[i] # None
  PROVE  jobs'[i] # None
<1> DEFINE row == [jobs[j] EXCEPT !.status = status]
<1>1. jobs[j] # None => row \in JobRow
  BY DEF JobsTypeOK, JobRow
<1>2. jobs' = IF jobs[j] = None THEN jobs ELSE [jobs EXCEPT ![j] = row]
  BY DEF UpdateJob
<1> HIDE DEF row
<1>3. QED
  BY <1>1, <1>2, NoneAssumption DEF JobsTypeOK

LEMMA JobsGoWithFiles ==
  ASSUME SystemInv, [SystemNext]_systemVars, NEW j \in JobIds, NEW f \in FileIds,
         jobs[j] # None, jobs[j].file = f, HasRow(f)'
  PROVE  jobs'[j] # None
<1>0. FilesTypeOK /\ JobsTypeOK /\ TypeOK /\ SystemTypeOK /\ GroupInv
  BY DEF SystemInv, SystemTypeOK, TypeOK, BaseTypeOK
<1> SUFFICES ASSUME jobs' # jobs PROVE jobs'[j] # None
  OBVIOUS
<1>1. \A i \in JobIds, status \in JobStatus : UpdateJob(i, status) => jobs'[j] # None
  BY <1>0, UpdateJobLasts
<1>2. CASE [UploadsNext]_uploadsVars
  <2>1. ASSUME NEW h \in Handlers, RetryQueued(h) \/ UndoJob(h) PROVE jobs'[j] # None
    <3>1. req[h].job \in JobIds
      BY <1>0, <2>1 DEF TypeOK, BaseTypeOK, ReqTypeOK, RetryQueued, UndoJob
    <3>2. QED
      BY <1>1, <2>1, <3>1 DEF RetryQueued, UndoJob, JobStatus
  <2>2. ASSUME NEW h \in Handlers, RejectRow(h) \/ DeleteRow(h) PROVE jobs'[j] # None
    <3>1. req[h].file \in FileIds
      BY <1>0, <2>2 DEF TypeOK, BaseTypeOK, ReqTypeOK, RejectRow, DeleteRow
    <3>2. DeleteFileRow(req[h].file)
      BY <2>2 DEF RejectRow, DeleteRow
    <3>3. jobs'[j] = IF jobs[j].file = req[h].file THEN None ELSE jobs[j]
      BY <3>2 DEF DeleteFileRow
    <3>4. jobs[j].file # req[h].file
      BY <1>0, <3>1, <3>2 DEF DeleteFileRow, FilesTypeOK, HasRow
    <3>5. QED
      BY <3>3, <3>4
  <2>3. ASSUME NEW h \in Handlers, CompleteJob(h) PROVE jobs'[j] # None
    <3>1. PICK i \in JobIds \ issued : CreateJob(i, req[h].file)
      BY <2>3 DEF CompleteJob
    <3>2. i # j
      BY <3>1 DEF SystemInv, MessageInv
    <3>3. QED
      BY <1>0, <3>1, <3>2 DEF CreateJob, JobsTypeOK
  <2>4. QED
    BY <1>2, <2>1, <2>2, <2>3
       DEF UploadsNext, uploadsVars, baseVars, storeVars, Put, PresignStep, CompleteStep, DeleteStep, JobsStep,
           PresignCheck, PresignCreate, CompleteStart, CompleteStat, CompleteDrop, CompleteHead,
           RejectObject, CompleteCharge, CompleteReady, DeleteStart, DeleteObjects,
           DeleteRefund, RetryStart, MarkPending, EnqueueOK, EnqueueFails, UndoFile, Abort
<1>3. CASE ProcessorNext
  <2>1. PICK w \in Workers : FinishStep(w)
    BY <1>3, WorkersLeaveRows
  <2>2. PICK i \in JobIds : i = finish[w].msg.job
    BY <1>0, <2>1, ReportFinds
  <2>3. UpdateJob(i, "succeeded") \/ UpdateJob(i, "failed")
    BY <2>1, <2>2 DEF FinishStep, FinishGetJob, FinishVariants, FinishSucceeded, FinishJobFailed,
       FinishFileFailed, FinishAborts
  <2>4. QED
    BY <1>1, <2>3 DEF JobStatus
<1>4. QED
  BY <1>2, <1>3 DEF SystemNext, systemVars

\* A message that has its job, while its file is there, keeps it.
LEMMA MannedLasts ==
  ASSUME SystemInv, RowsKept, [SystemNext]_systemVars, NEW j \in JobIds, NEW f \in FileIds \cap issued,
         jobs[j] # None => jobs[j].file = f, Manned(j, f)
  PROVE  Manned(j, f)'
<1>1. HasRow(f)' => HasRow(f)
  BY DEF RowsKept, FileKept
<1>2. HasRow(f)' => jobs[j] # None /\ jobs[j].file = f
  BY <1>1 DEF Manned
<1>3. HasRow(f)' => jobs'[j] # None
  BY <1>2, JobsGoWithFiles
<1>4. QED
  BY <1>3 DEF Manned

LEMMA NextJobsLast ==
  ASSUME SystemInv, JobsLast, [SystemNext]_systemVars
  PROVE  JobsLast'
<1>0. /\ SystemInv' /\ RowsKept /\ TypeOK /\ TypeOK' /\ StreamTypeOK /\ MessageInv
      /\ req \in [Handlers -> Request]
      /\ \A h \in Handlers : req[h].pc \in JobPCs =>
            /\ req[h].job \in JobIds /\ req[h].file \in FileIds \cap issued
            /\ jobs[req[h].job] # None => jobs[req[h].job].file = req[h].file
  BY NextSystemInv DEF SystemInv, SystemTypeOK, TypeOK, BaseTypeOK, ReqTypeOK, JobPCs, MessageInv, LedgerInv
<1>1. ASSUME NEW e \in Entries PROVE Manned(stream[e].job, stream[e].file)'
      \/ stream'[e] # stream[e]
  <2> SUFFICES ASSUME stream'[e] = stream[e] PROVE Manned(stream[e].job, stream[e].file)'
    OBVIOUS
  <2>1. stream \in Seq(Message) /\ e \in 1 .. Len(stream)
    BY <1>0 DEF StreamTypeOK, Entries
  <2>2. stream[e] \in Message
    BY <2>1
  <2>3. PICK j \in JobIds, f \in FileIds \cap issued : j = stream[e].job /\ f = stream[e].file
    BY <1>0, <2>2 DEF Message, MessageInv, Vouched
  <2>4. (jobs[j] # None => jobs[j].file = f) /\ Manned(j, f)
    BY <1>0, <2>3 DEF MessageInv, Vouched, JobsLast
  <2>5. Manned(j, f)'
    BY <1>0, <2>4, MannedLasts
  <2>6. QED
    BY <2>3, <2>5 DEF Manned, HasRow
<1>2. ASSUME NEW h \in Handlers, req[h].pc \in JobPCs,
             NEW j, NEW f, j = req[h].job, f = req[h].file
      PROVE  Manned(j, f)'
  <2>1. j \in JobIds /\ f \in FileIds \cap issued /\ (jobs[j] # None => jobs[j].file = f) /\ Manned(j, f)
    BY <1>0, <1>2 DEF JobsLast
  <2>2. QED
    BY <1>0, <2>1, MannedLasts
<1>3. CASE [UploadsNext]_uploadsVars
  <2>1. ASSUME NEW h \in Handlers, req'[h].pc \in JobPCs PROVE Manned(req[h].job, req[h].file)'
    <3>1. CASE req[h].pc \in JobPCs /\ req'[h].job = req[h].job /\ req'[h].file = req[h].file
      <4>1. PICK j, f : j = req[h].job /\ f = req[h].file
        OBVIOUS
      <4>2. Manned(j, f)'
        BY <1>2, <3>1, <4>1
      <4>3. QED
        BY <3>1, <4>1, <4>2 DEF Manned, HasRow
    <3>2. CASE jobs'[req'[h].job] # None
      BY <3>2 DEF Manned
    <3>3. QED
      BY <1>0, <1>3, <2>1, <3>1, <3>2, RequestsAreFor
  <2>2. ASSUME NEW e \in Entries' PROVE Manned(stream[e].job, stream[e].file)'
    <3>1. CASE e \in Entries
      <4>1. stream'[e] = stream[e]
        BY <1>0, <1>3, <3>1, StreamGrows
      <4>2. QED
        BY <1>1, <3>1, <4>1
    <3>2. CASE e \notin Entries
      <4>1. PICK h \in Handlers : req[h].pc = "enq" /\ Enqueue(req[h].job, req[h].file)
        BY <1>3, <3>2, RequestsAppend DEF Entries
      <4>2. PICK j, f : j = req[h].job /\ f = req[h].file
        OBVIOUS
      <4>3. stream'[e].job = j /\ stream'[e].file = f
        <5>1. PICK m \in Message : m.job = j /\ m.file = f /\ stream' = Append(stream, m)
          BY <1>0, <4>1, <4>2 DEF Enqueue, Message, JobPCs
        <5>2. stream \in Seq(Message) /\ Len(stream) \in Nat
          BY <1>0 DEF StreamTypeOK
        <5>3. Len(stream') = Len(stream) + 1 /\ stream'[Len(stream) + 1] = m
          BY <5>1, <5>2
        <5>4. e = Len(stream) + 1
          BY <2>2, <3>2, <5>2, <5>3 DEF Entries
        <5>5. QED
          BY <5>1, <5>3, <5>4
      <4>4. Manned(j, f)'
        BY <1>2, <4>1, <4>2 DEF JobPCs
      <4>5. QED
        BY <4>3, <4>4 DEF Manned, HasRow
    <3>3. QED
      BY <3>1, <3>2
  <2>3. QED
    BY <2>1, <2>2 DEF JobsLast
<1>4. CASE ProcessorNext
  <2>1. UNCHANGED <<stream, req>>
    BY <1>4, WorkersLeaveRows
  <2>2. ASSUME NEW e \in Entries PROVE Manned(stream[e].job, stream[e].file)'
    BY <1>1, <2>1
  <2>3. ASSUME NEW h \in Handlers, req[h].pc \in JobPCs PROVE Manned(req[h].job, req[h].file)'
    <3>1. PICK j, f : j = req[h].job /\ f = req[h].file
      OBVIOUS
    <3>2. Manned(j, f)'
      BY <1>2, <2>3, <3>1
    <3>3. QED
      BY <2>1, <3>1, <3>2 DEF Manned, HasRow
  <2>4. QED
    BY <2>1, <2>2, <2>3 DEF JobsLast, Entries
<1>5. QED
  BY <1>3, <1>4 DEF SystemNext, systemVars

LEMMA NextNoUndo ==
  ASSUME "queue" \notin Faults, SystemInv, NoUndo, [SystemNext]_systemVars
  PROVE  NoUndo'
<1>0. req \in [Handlers -> Request]
  BY DEF SystemInv, SystemTypeOK, TypeOK, BaseTypeOK, ReqTypeOK
<1>1. UNCHANGED req => NoUndo'
  BY DEF NoUndo
<1>2. ASSUME NEW h \in Handlers
      PROVE  /\ \A pc : pc \notin {"undo_job", "undo_file"} /\ Goto(h, pc) => NoUndo'
             /\ Return(h) => NoUndo'
             /\ \A pc, p, f, j, kind, size :
                   pc \notin {"undo_job", "undo_file"} /\ Accept(h, pc, p, f, j, kind, size) => NoUndo'
  BY <1>0, RequestMoves DEF NoUndo
<1>3. ASSUME NEW h \in Handlers, PresignStep(h) PROVE NoUndo'
  BY <1>2, <1>3 DEF PresignStep, PresignCheck, PresignCreate
<1>4. ASSUME NEW h \in Handlers, JobsStep(h) PROVE NoUndo'
  BY <1>2, <1>4 DEF JobsStep, RetryStart, RetryQueued, MarkPending, EnqueueOK, EnqueueFails,
     UndoJob, UndoFile, Abort, GotoIf, NoUndo
<1>5. ASSUME NEW h \in Handlers, DeleteStep(h) PROVE NoUndo'
  BY <1>2, <1>5 DEF DeleteStep, DeleteStart, DeleteObjects, DeleteRow, DeleteRefund, GotoIf
<1>6. ASSUME NEW h \in Handlers, CompleteStep(h) PROVE NoUndo'
  <2>1. ASSUME NEW new, new.pc \notin {"undo_job", "undo_file"}, req' = [req EXCEPT ![h] = new]
        PROVE  NoUndo'
    BY <1>0, <2>1 DEF NoUndo
  <2>2. CASE CompleteStat(h)
    <3>1. ASSUME NEW size, NEW etag,
                 req' = [req EXCEPT ![h] = [@ EXCEPT !.pc = "c_head", !.size = size, !.etag = etag]]
          PROVE  NoUndo'
      <4> DEFINE new == [req[h] EXCEPT !.pc = "c_head", !.size = size, !.etag = etag]
      <4>1. new.pc = "c_head" /\ req' = [req EXCEPT ![h] = new]
        BY <1>0, <3>1 DEF Request
      <4> HIDE DEF new
      <4>2. QED
        BY <2>1, <4>1
    <3>2. QED
      BY <1>2, <2>2, <3>1 DEF CompleteStat
  <2>3. CASE CompleteJob(h)
    <3>1. ASSUME NEW j, req' = [req EXCEPT ![h] = [@ EXCEPT !.pc = "pend", !.job = j]] PROVE NoUndo'
      <4> DEFINE new == [req[h] EXCEPT !.pc = "pend", !.job = j]
      <4>1. new.pc = "pend" /\ req' = [req EXCEPT ![h] = new]
        BY <1>0, <3>1 DEF Request
      <4> HIDE DEF new
      <4>2. QED
        BY <2>1, <4>1
    <3>2. QED
      BY <1>2, <2>3, <3>1 DEF CompleteJob
  <2>4. QED
    BY <1>2, <1>6, <2>2, <2>3 DEF CompleteStep, CompleteStart, CompleteDrop, CompleteHead,
       RejectObject, RejectRow, CompleteCharge, CompleteReady, GotoIf
<1>7. CASE ProcessorNext
  BY <1>1, <1>7, WorkersLeaveRows
<1>8. QED
  BY <1>1, <1>3, <1>4, <1>5, <1>6, <1>7
     DEF SystemNext, UploadsNext, Put, systemVars, uploadsVars, baseVars

-----------------------------------------------------------------------------
\* The file of an entry does not come back.
LEMMA DeadStaysDead ==
  ASSUME SystemInv, RowsKept, [SystemNext]_systemVars, NEW e \in Entries
  PROVE  \E f \in FileIds \cap issued :
           stream[e].file = f /\ stream'[e] = stream[e] /\ (HasRow(f)' => HasRow(f))
<1>1. stream \in Seq(Message) /\ e \in 1 .. Len(stream) /\ StreamTypeOK
  BY DEF SystemInv, SystemTypeOK, TypeOK, BaseTypeOK, StreamTypeOK, Entries
<1>2. stream[e] \in Message
  BY <1>1
<1>3. PICK f \in FileIds \cap issued : stream[e].file = f
  BY <1>2 DEF Message, SystemInv, MessageInv, Vouched
<1>4. HasRow(f)' => HasRow(f)
  BY <1>3 DEF RowsKept, FileKept
<1>5. stream'[e] = stream[e]
  BY <1>1, StreamGrows, WorkersLeaveRows DEF SystemNext, systemVars
<1>6. QED
  BY <1>3, <1>4, <1>5

LEMMA RequestsKeepHand ==
  ASSUME SystemInv, [SystemNext]_systemVars, UNCHANGED processorVars,
         NEW w \in Workers, Hand(w), InHand(w)
  PROVE  Hand(w)' /\ InHand(w)'
<1>0. /\ SystemTypeOK /\ GroupInv /\ RowsKept /\ cursor \in 0 .. Len(stream)
      /\ pending \subseteq 1 .. cursor /\ Len(stream) \in Nat
      /\ UNCHANGED <<worker, finish, pending, cursor>>
  BY NextSystemInv DEF SystemInv, SystemTypeOK, TypeOK, BaseTypeOK, StreamTypeOK, processorVars, groupVars
<1>1. ASSUME NEW e \in 1 .. cursor PROVE Live(e)' => Live(e)
  <2>1. e \in Entries
    BY <1>0 DEF Entries
  <2>2. PICK f \in FileIds \cap issued :
           stream[e].file = f /\ stream'[e] = stream[e] /\ (HasRow(f)' => HasRow(f))
    BY <1>0, <2>1, DeadStaysDead
  <2>3. QED
    BY <2>2 DEF Live, HasRow
<1>2. InHand(w)'
  BY <1>0, <1>1 DEF InHand, GroupInv
<1>3. finish[w].pc = "error" => ~HasRow(finish[w].msg.file)'
  <2> SUFFICES ASSUME finish[w].pc = "error" PROVE ~HasRow(finish[w].msg.file)'
    OBVIOUS
  <2>1. PICK e \in Entries : finish[w].msg = stream[e]
    BY <1>0 DEF GroupInv
  <2>2. PICK f \in FileIds \cap issued :
           stream[e].file = f /\ stream'[e] = stream[e] /\ (HasRow(f)' => HasRow(f))
    BY <1>0, DeadStaysDead
  <2>3. QED
    BY <1>0, <2>1, <2>2 DEF Hand, HasRow
<1>4. QED
  BY <1>0, <1>2, <1>3 DEF Hand

LEMMA WorkerKeepsHand ==
  ASSUME Faults \cap {"abort", "queue", "worker"} = {}, LoneWorker, SystemInv, JobsLast, ProcessorNext,
         NEW w \in Workers, Hand(w), InHand(w)
  PROVE  Hand(w)' /\ InHand(w)'
<1>0. /\ SystemTypeOK /\ GroupInv /\ WorkersTypeOK /\ FinishTypeOK /\ UNCHANGED stream
      /\ cursor \in Nat /\ pending \subseteq 1 .. cursor
  BY WorkersLeaveRows DEF SystemInv, SystemTypeOK, WorkersTypeOK, FinishTypeOK, TypeOK, BaseTypeOK, StreamTypeOK
<1>1. CASE UNCHANGED <<cursor, pending, dlq, worker, finish, files, jobs>>
  BY <1>0, <1>1 DEF Hand, InHand, Live, HasRow
<1>2. ASSUME UNCHANGED files PROVE \A e : Live(e)' <=> Live(e)
  BY <1>0, <1>2 DEF Live, HasRow
<1>3. ASSUME UNCHANGED <<files, jobs>>, Claims(w) \/ ReadsNothing(w) PROVE Hand(w)' /\ InHand(w)'
  <2>1. worker[w].batch = <<>> /\ finish[w].pc = "none" /\ \A e \in pending : ~Live(e)
    BY <1>3 DEF Claims, ReadsNothing, Hand, InHand, Waiting
  <2>2. Hand(w)'
    BY <1>3, <2>1 DEF Claims, ReadsNothing, Hand, Waiting
  <2>3. \A n \in DOMAIN worker'[w].batch : ~Live(worker'[w].batch[n])
    BY <1>3, <2>1 DEF Claims, ReadsNothing
  <2>4. InHand(w)'
    BY <1>2, <1>3, <2>1, <2>3 DEF InHand, Claims, ReadsNothing
  <2>5. QED
    BY <2>2, <2>4
<1>4. ASSUME UNCHANGED <<files, jobs>>, Reads(w) PROVE Hand(w)' /\ InHand(w)'
  <2>1. worker[w].batch = <<>> /\ finish[w].pc = "none" /\ \A e \in pending : ~Live(e)
    BY <1>4 DEF Reads, Hand, InHand, Waiting
  <2>2. Hand(w)'
    BY <1>4, <2>1 DEF Reads, Hand, Waiting
  <2>3. InHand(w)'
    BY <1>2, <1>4, <2>1 DEF InHand, Reads
  <2>4. QED
    BY <2>2, <2>3
<1>5. ASSUME UNCHANGED <<files, jobs>>, Works(w) \/ Sends(w) \/ IsHeard(w) \/ SetsAside(w)
      PROVE Hand(w)' /\ InHand(w)'
  <2>1. Hand(w)'
    BY <1>5 DEF Works, Sends, IsHeard, SetsAside, Hand, Waiting
  <2>2. InHand(w)'
    BY <1>2, <1>5 DEF InHand, Works, Sends, IsHeard, SetsAside
  <2>3. QED
    BY <2>1, <2>2
<1>6. ASSUME UNCHANGED <<files, jobs>>, GoesOn(w) PROVE Hand(w)' /\ InHand(w)'
  <2>1. Hand(w)'
    BY <1>6 DEF GoesOn, Hand, Waiting
  <2>2. PICK s \in Seq(Nat) : s = worker[w].batch /\ s # <<>>
    BY <1>0, <1>6 DEF GoesOn, WorkersTypeOK, Worker
  <2>3. Tail(s) \in Seq(Nat) /\ \A n \in DOMAIN Tail(s) : n + 1 \in DOMAIN s /\ Tail(s)[n] = s[n + 1]
    BY <2>2
  <2>4. s = <<cursor>> => Tail(s) = <<>>
    BY <2>2
  <2>5. \A n \in DOMAIN Tail(s) : ~Live(Tail(s)[n])
    BY <2>2, <2>3, <2>4 DEF InHand
  <2>6. \A e \in pending' : ~Live(e)
    <3> SUFFICES ASSUME NEW e \in pending', Live(e) PROVE FALSE
      OBVIOUS
    <3>1. e \in pending
      BY <1>6 DEF GoesOn
    <3>2. s = <<e>> /\ EntryOf(w) = e
      BY <2>2, <3>1 DEF InHand, EntryOf
    <3>3. worker[w].pc \in Waiting /\ finish[w].pc = "error"
      BY <1>6, <3>2 DEF GoesOn
    <3>4. finish[w].msg = stream[e]
      BY <1>0, <3>2, <3>3 DEF GroupInv
    <3>5. QED
      BY <3>3, <3>4 DEF Hand, Live
  <2>7. worker'[w].batch = Tail(s)
    BY <1>6, <2>2 DEF GoesOn
  <2>8. InHand(w)'
    BY <1>2, <1>6, <2>5, <2>6, <2>7 DEF InHand
  <2>9. QED
    BY <2>1, <2>8
<1>7. ASSUME IsServed(w) PROVE Hand(w)' /\ InHand(w)'
  <2>1. PICK e \in Entries, f \in FileIds, j \in JobIds :
          finish[w].pc # "none" /\ finish[w].msg = stream[e] /\ finish[w].msg.file = f /\ finish[w].msg.job = j
    BY <1>0, <1>7, ReportFinds DEF IsServed
  <2>2. \A g \in FileIds : HasRow(g)' <=> HasRow(g)
    BY <1>0, <1>7, <2>1, ReportsKeepRows DEF IsServed
  <2>3. jobs[j] = None => ~HasRow(f)
    BY <2>1 DEF JobsLast, Manned
  <2>4. UNCHANGED <<cursor, pending, worker>>
    BY <1>7 DEF IsServed
  <2>5. InHand(w)'
    <3>1. ASSUME NEW d \in 1 .. cursor PROVE Live(d)' <=> Live(d)
      <4>1. stream \in Seq(Message) /\ d \in 1 .. Len(stream)
        BY <1>0 DEF SystemTypeOK, TypeOK, BaseTypeOK, StreamTypeOK
      <4>2. stream[d] \in Message
        BY <4>1
      <4>3. PICK g \in FileIds : stream[d].file = g
        BY <4>2 DEF Message
      <4>4. QED
        BY <1>0, <2>2, <4>3 DEF Live, HasRow
    <3>2. QED
      BY <1>0, <2>4, <3>1 DEF InHand, GroupInv
  <2>6. worker[w].pc \in Waiting /\ finish'[w].msg.file = f
    BY <1>7, <2>1 DEF Hand, IsServed
  <2>7. \A pc \in FinishPCs : ToFinish(w, pc) => finish'[w].pc = pc
    BY <1>0, ToFinishTyped
  <2>8. /\ finish'[w].pc \in {"variants", "job_ok"} => worker[w].pc = "wait_ok"
        /\ finish'[w].pc \in {"job_failed", "file_failed"} => worker[w].pc = "wait_err"
        /\ finish'[w].pc = "error" => ~HasRow(f)
        /\ finish'[w].pc \notin {"none", "get_job"}
    <3>1. CASE FinishGetJob(w)
      BY <2>1, <2>3, <2>6, <2>7, <3>1 DEF FinishGetJob, FinishPCs, Hand, Waiting
    <3>2. CASE FinishVariants(w)
      BY <2>1, <2>3, <2>6, <2>7, <3>2 DEF FinishVariants, FinishPCs, Hand, Waiting
    <3>3. CASE FinishSucceeded(w)
      BY <2>1, <2>3, <2>6, <2>7, <3>3 DEF FinishSucceeded, FinishPCs, Hand, Waiting
    <3>4. CASE FinishJobFailed(w) \/ FinishFileFailed(w)
      BY <2>1, <2>3, <2>6, <2>7, <3>4 DEF FinishJobFailed, FinishFileFailed, FinishPCs, Hand, Waiting
    <3>5. ~FinishAborts(w)
      BY DEF FinishAborts
    <3>6. QED
      BY <1>7, <3>1, <3>2, <3>3, <3>4, <3>5 DEF IsServed, FinishStep
  <2>9. ~HasRow(f) => ~HasRow(finish[w].msg.file)'
    BY <2>2, <2>6 DEF HasRow
  <2>10. Hand(w)'
    BY <2>4, <2>6, <2>8, <2>9 DEF Hand, Waiting
  <2>11. QED
    BY <2>5, <2>10
<1>8. QED
  BY <1>0, <1>1, <1>3, <1>4, <1>5, <1>6, <1>7, LoneSteps

LEMMA NextLone ==
  ASSUME Faults \cap {"abort", "queue", "worker"} = {}, LoneWorker, SystemInv, LoneInv,
         [SystemNext]_systemVars
  PROVE  LoneInv'
<1>1. JobsLast' /\ NoUndo'
  BY NextJobsLast, NextNoUndo DEF LoneInv, NoUndo
<1>2. ASSUME NEW w \in Workers PROVE Hand(w)' /\ InHand(w)'
  BY RequestsKeepHand, WorkerKeepsHand DEF LoneInv, SystemNext, systemVars, processorVars, groupVars
<1>3. QED
  BY <1>1, <1>2 DEF LoneInv, NoUndo

-----------------------------------------------------------------------------
(***************************************************************************)
(* Why FailureIsKept holds.  Of the entries of a job that is shown as      *)
(* failed, the one whose report said so is in media:jobs:dlq, or its       *)
(* worker is about to add it there; later entries are retries of the job   *)
(* and have yet to be reported.                                            *)
(***************************************************************************)
Failing(w) ==
    \/ worker[w].pc = "dlq"
    \/ worker[w].pc = "wait_err" /\ finish[w].pc \in {"file_failed", "ok"}
Kept(e) == e \in dlq \/ \E w \in Workers : EntryOf(w) = e /\ Failing(w)
LastOf(j, e) ==
    /\ e \in 1 .. cursor /\ stream[e].job = j
    /\ \A d \in Entries : d > e /\ stream[d].job = j => Open(d)
Failed(j) == jobs[j] # None /\ jobs[j].status = "failed"

KeptInv == \A j \in JobIds : Failed(j) => \E e \in 1 .. cursor : LastOf(j, e) /\ Kept(e)

\* Only a report says that a job failed.
LEMMA RequestsFailNone ==
  ASSUME SystemInv, NoUndo, [UploadsNext]_uploadsVars, NEW j \in JobIds, Failed(j)'
  PROVE  Failed(j)
<1> USE DEF storeVars, Failed
<1>0. /\ TypeOK /\ JobsTypeOK /\ FilesTypeOK
      /\ \A h \in Handlers : req[h].pc \in JobPCs => req[h].job \in JobIds
  BY DEF SystemInv, SystemTypeOK, TypeOK, BaseTypeOK, ReqTypeOK, JobPCs
<1>1. CASE UNCHANGED jobs
  BY <1>1
<1>2. ASSUME NEW f, DeleteFileRow(f) PROVE Failed(j)
  BY <1>2 DEF DeleteFileRow
<1>3. ASSUME NEW h \in Handlers, RetryQueued(h) PROVE Failed(j)
  <2>1. req[h].job \in JobIds /\ UpdateJob(req[h].job, "queued")
    BY <1>0, <1>3 DEF RetryQueued, JobPCs
  <2>2. jobs[j] # None /\ (j # req[h].job => jobs'[j] = jobs[j])
        /\ (j = req[h].job => jobs'[j].status = "queued")
    BY <1>0, <2>1, UpdateJobSets DEF JobStatus
  <2>3. QED
    BY <2>2
<1>4. ASSUME NEW h \in Handlers, CompleteJob(h) PROVE Failed(j)
  <2>1. ASSUME NEW i \in JobIds, CreateJob(i, req[h].file) PROVE Failed(j)
    <3>1. PICK row : row = [file |-> req[h].file, status |-> "queued"]
      OBVIOUS
    <3>2. row.status = "queued" /\ jobs' = [jobs EXCEPT ![i] = row]
      BY <2>1, <3>1 DEF CreateJob
    <3>3. QED
      BY <1>0, <3>2 DEF JobsTypeOK
  <2>2. QED
    BY <1>1, <1>4, <2>1 DEF CompleteJob
<1>5. \A h \in Handlers : ~UndoJob(h)
  BY DEF UndoJob, NoUndo
<1>6. QED
  BY <1>1, <1>2, <1>3, <1>4, <1>5
     DEF UploadsNext, uploadsVars, baseVars, Put, PresignStep, CompleteStep, DeleteStep, JobsStep,
         PresignCheck, PresignCreate, CompleteStart, CompleteStat, CompleteDrop, CompleteHead,
         RejectObject, RejectRow, CompleteCharge, CompleteReady, DeleteStart, DeleteObjects, DeleteRow,
         DeleteRefund, RetryStart, MarkPending, EnqueueOK, EnqueueFails, UndoFile, Abort

\* What a request adds to the stream is open.
LEMMA RequestsKeepLast ==
  ASSUME SystemInv, [UploadsNext]_uploadsVars, UNCHANGED processorVars, NEW j \in JobIds, NEW e, LastOf(j, e)
  PROVE  LastOf(j, e)'
<1>0. SystemTypeOK /\ GroupInv /\ StreamTypeOK /\ cursor \in 0 .. Len(stream) /\ Len(stream) \in Nat
      /\ UNCHANGED <<cursor, pending, worker, finish>>
  BY DEF SystemInv, SystemTypeOK, TypeOK, BaseTypeOK, StreamTypeOK, processorVars, groupVars
<1>1. /\ Entries \subseteq Entries' /\ Len(stream) <= Len(stream')
      /\ \A d \in Entries : stream'[d] = stream[d]
  BY <1>0, StreamGrows
<1>2. ASSUME NEW d \in Entries', d > e, stream'[d].job = j PROVE Open(d)'
  <2>1. CASE d \in Entries
    BY <1>1, <1>2, <2>1, RequestsKeepOpen DEF LastOf
  <2>2. CASE d \notin Entries
    <3>1. d \in Nat /\ d > cursor
      BY <1>0, <2>2 DEF Entries
    <3>2. \A w \in Workers : Reported(w) => EntryOf(w) \in 1 .. cursor
      BY <1>0, EntryTyped DEF GroupInv, Reported, Waiting
    <3>3. \A w \in Workers : Reported(w)' => EntryOf(w)' \in 1 .. cursor
      BY <1>0, <3>2 DEF Reported, EntryOf
    <3>4. QED
      BY <1>0, <1>2, <3>1, <3>3 DEF Open, Unsettled
  <2>3. QED
    BY <2>1, <2>2
<1>3. QED
  BY <1>0, <1>1, <1>2 DEF LastOf, Entries

\* The worker that reported the failure of its entry keeps it until the entry is set aside.
LEMMA WorkersKeep ==
  ASSUME Faults \cap {"abort", "queue", "worker"} = {}, LoneWorker, SystemInv, ProcessorNext,
         NEW e, Kept(e)
  PROVE  Kept(e)'
<1>0. SystemTypeOK /\ GroupInv /\ FinishTypeOK
  BY DEF SystemInv, SystemTypeOK, FinishTypeOK
<1>1. ASSUME NEW w \in Workers PROVE dlq \subseteq dlq' /\ (Failing(w) => EntryOf(w)' = EntryOf(w)
                                                  /\ (Failing(w)' \/ EntryOf(w) \in dlq'))
  <2>1. CASE UNCHANGED <<cursor, pending, dlq, worker, finish, files, jobs>>
    BY <2>1 DEF Failing, EntryOf
  <2>2. CASE Claims(w) \/ Reads(w) \/ ReadsNothing(w) \/ Works(w) \/ Sends(w) \/ GoesOn(w)
    BY <2>2 DEF Claims, Reads, ReadsNothing, Works, Sends, GoesOn, Failing, Waiting
  <2>3. CASE IsHeard(w)
    BY <2>3 DEF IsHeard, Failing, EntryOf
  <2>4. CASE SetsAside(w)
    BY <2>4 DEF SetsAside, Failing, EntryOf
  <2>5. CASE IsServed(w)
    <3>1. UNCHANGED <<dlq, worker>>
      BY <2>5 DEF IsServed
    <3>2. finish[w].pc \in {"file_failed", "ok"} => finish'[w].pc = "ok"
      <4>1. finish[w].pc \in {"file_failed", "ok"} => FinishFileFailed(w)
        BY <2>5 DEF IsServed, FinishStep, FinishGetJob, FinishVariants, FinishSucceeded, FinishJobFailed,
                    FinishAborts
      <4>2. ToFinish(w, "ok") => finish'[w].pc = "ok"
        BY <1>0, ToFinishTyped DEF FinishPCs
      <4>3. QED
        BY <4>1, <4>2 DEF FinishFileFailed
    <3>3. QED
      BY <3>1, <3>2 DEF Failing, EntryOf
  <2>6. QED
    BY <1>0, <2>1, <2>2, <2>3, <2>4, <2>5, LoneSteps
<1>2. CASE Workers = {}
  BY <1>2 DEF Kept, ProcessorNext, FailStep, IdleStep, Elapse
<1>3. CASE Workers # {}
  BY <1>1, <1>3 DEF Kept
<1>4. QED
  BY <1>2, <1>3

\* As long as nothing more is reported on the job, its later entries stay open.
LEMMA WorkersKeepLast ==
  ASSUME SystemInv, ProcessorNext, NEW j \in JobIds, NEW e, LastOf(j, e),
         \A w \in Workers : Updates(w) => finish[w].msg.job # j
  PROVE  LastOf(j, e)'
<1>0. SystemTypeOK /\ GroupInv /\ UNCHANGED stream /\ cursor \in Nat /\ Len(stream) \in Nat
  BY WorkersLeaveRows DEF SystemInv, SystemTypeOK, TypeOK, BaseTypeOK, StreamTypeOK
<1>1. cursor' \in Nat /\ cursor <= cursor'
  <2>1. ASSUME NEW w \in Workers, ReadGroup(w) PROVE cursor' \in Nat /\ cursor <= cursor'
    BY <1>0, <2>1 DEF ReadGroup
  <2>2. UNCHANGED cursor => cursor' \in Nat /\ cursor <= cursor'
    BY <1>0
  <2>3. QED
    BY <2>1, <2>2 DEF ProcessorNext, QueueStep, ImageStep, FinishStep, FailStep, IdleStep,
       AckProcessed, AckFailed, ClaimIdle, SendFinish, GetReply, AddToDlq, GetImage, PutVariants,
       PutVariant, Crash, LoseReply, Elapse, groupVars
<1>2. ASSUME NEW d \in Entries, d > e, stream[d].job = j PROVE Open(d)'
  <2>1. Open(d)
    BY <1>2 DEF LastOf
  <2>2. Unsettled(d)'
    BY <1>0, <2>1, WorkersKeepUnsettled
  <2>3. ASSUME NEW w \in Workers, Reported(w)' PROVE EntryOf(w)' # d
    <3>1. EntryOf(w)' = EntryOf(w) /\ (Reported(w) \/ Updates(w))
      BY <1>0, <2>3, WorkersReport DEF EntryOf
    <3>2. Updates(w) => finish[w].msg = stream[EntryOf(w)]
      BY <1>0 DEF Updates, GroupInv
    <3>3. QED
      BY <1>2, <2>1, <3>1, <3>2 DEF Open
  <2>4. QED
    BY <2>2, <2>3 DEF Open
<1>3. QED
  BY <1>0, <1>1, <1>2 DEF LastOf, Entries

LEMMA NextKept ==
  ASSUME Faults \cap {"abort", "queue", "worker"} = {}, LoneWorker, SystemInv, LoneInv, KeptInv,
         [SystemNext]_systemVars
  PROVE  KeptInv'
<1> SUFFICES ASSUME NEW j \in JobIds, Failed(j)' PROVE \E e \in (1 .. cursor)' : LastOf(j, e)' /\ Kept(e)'
  BY DEF KeptInv, Failed
<1>0. /\ SystemTypeOK /\ GroupInv /\ JobsTypeOK /\ FinishTypeOK
      /\ cursor \in 0 .. Len(stream) /\ Len(stream) \in Nat
  BY DEF SystemInv, SystemTypeOK, FinishTypeOK, TypeOK, BaseTypeOK, StreamTypeOK
<1>1. CASE [UploadsNext]_uploadsVars /\ UNCHANGED processorVars
  <2>1. Failed(j)
    BY <1>1, RequestsFailNone DEF LoneInv
  <2>2. PICK e \in 1 .. cursor : LastOf(j, e) /\ Kept(e)
    BY <2>1 DEF KeptInv
  <2>3. LastOf(j, e)'
    BY <1>1, <2>2, RequestsKeepLast
  <2>4. Kept(e)'
    BY <1>1, <2>2 DEF Kept, Failing, EntryOf, processorVars, groupVars
  <2>5. QED
    BY <2>3, <2>4 DEF LastOf
<1>2. ASSUME ProcessorNext, NEW w \in Workers, Updates(w), finish[w].msg.job = j
      PROVE  \E e \in (1 .. cursor)' : LastOf(j, e)' /\ Kept(e)'
  <2>1. jobs[j] # None /\ FinishJobFailed(w)
    <3>1. UpdateJob(j, "succeeded") \/ (FinishJobFailed(w) /\ (UpdateJob(j, "failed") \/ UNCHANGED jobs))
      BY <1>2 DEF Updates, FinishSucceeded, FinishJobFailed
    <3>2. ~UpdateJob(j, "succeeded")
      BY <1>0, UpdateJobSets DEF JobStatus, Failed
    <3>3. jobs[j] # None
      BY <1>0, <3>1, <3>2, UpdateJobSets DEF JobStatus, Failed
    <3>4. QED
      BY <3>1, <3>2, <3>3
  <2>2. worker[w].pc = "wait_err" /\ worker[w].batch # <<>> /\ finish[w].msg = stream[EntryOf(w)]
    BY <1>0, <1>2, <2>1 DEF Updates, FinishJobFailed, LoneInv, Hand, GroupInv, Waiting
  <2>3. PICK e \in Entries : e = EntryOf(w) /\ e \in 1 .. cursor
    BY <1>0, <2>2, EntryTyped
  <2>4. stream[e].job = j /\ Live(e)
    BY <1>2, <2>1, <2>2, <2>3 DEF SystemInv, MessageInv, Vouched, LedgerInv, Live
  <2>5. e = cursor
    <3>1. PICK s \in Seq(Nat) : s = worker[w].batch /\ s # <<>>
      BY <1>0, <2>2 DEF SystemTypeOK, Worker
    <3>2. 1 \in DOMAIN s /\ s[1] = e
      BY <2>3, <3>1 DEF EntryOf
    <3>3. s = <<cursor>>
      BY <2>4, <3>1, <3>2 DEF LoneInv, InHand
    <3>4. QED
      BY <3>2, <3>3
  <2>6. FinishStep(w) /\ UNCHANGED <<stream, cursor, pending, worker>>
    <3>1. FinishStep(w)
      <4>1. finish'[w].pc = "file_failed" /\ finish[w].pc = "job_failed"
        BY <1>0, <2>1, ToFinishTyped DEF FinishJobFailed, FinishPCs
      <4>2. finish'[w] # finish[w]
        BY <4>1
      <4>3. CASE IsServed(w)
        BY <4>3 DEF IsServed
      <4>4. ~(Sends(w) \/ IsHeard(w) \/ GoesOn(w))
        BY <2>2, <4>1 DEF Sends, IsHeard, GoesOn, Waiting
      <4>5. ~(Claims(w) \/ Reads(w) \/ ReadsNothing(w) \/ Works(w) \/ SetsAside(w))
        BY <4>2 DEF Claims, Reads, ReadsNothing, Works, SetsAside
      <4>6. QED
        BY <1>0, <1>2, <4>2, <4>3, <4>4, <4>5, LoneSteps
    <3>2. QED
      BY <3>1 DEF FinishStep, groupVars
  <2>7. finish'[w].pc = "file_failed"
    BY <1>0, <2>1, ToFinishTyped DEF FinishJobFailed, FinishPCs
  <2>8. Kept(e)'
    <3>1. Failing(w)' /\ EntryOf(w)' = e
      BY <2>2, <2>3, <2>6, <2>7 DEF Failing, EntryOf
    <3>2. QED
      BY <3>1 DEF Kept
  <2>9. ASSUME NEW d \in Entries, d > e PROVE Open(d)'
    <3>1. \A v \in Workers : Reported(v)' => EntryOf(v)' \in 1 .. cursor
      <4> SUFFICES ASSUME NEW v \in Workers, Reported(v)' PROVE EntryOf(v)' \in 1 .. cursor
        OBVIOUS
      <4>1. worker[v].batch # <<>> /\ EntryOf(v)' = EntryOf(v)
        BY <1>0, <2>6 DEF Reported, Waiting, GroupInv, EntryOf
      <4>2. QED
        BY <1>0, <4>1, EntryTyped
    <3>2. QED
      BY <1>0, <2>5, <2>6, <2>9, <3>1 DEF Open, Unsettled, Entries
  <2>10. LastOf(j, e)'
    BY <2>3, <2>4, <2>6, <2>9 DEF LastOf, Entries
  <2>11. QED
    BY <2>8, <2>10 DEF LastOf
<1>3. ASSUME ProcessorNext, \A w \in Workers : Updates(w) => finish[w].msg.job # j
      PROVE  \E e \in (1 .. cursor)' : LastOf(j, e)' /\ Kept(e)'
  <2>1. Failed(j)
    <3>1. CASE UNCHANGED jobs
      BY <3>1 DEF Failed
    <3>2. ASSUME NEW w \in Workers, FinishStep(w), jobs' # jobs PROVE Failed(j)
      <4>1. PICK f \in FileIds, i \in JobIds : /\ finish[w].pc # "none"
                                               /\ finish[w].msg.file = f /\ finish[w].msg.job = i
        BY <1>0, <3>2, ReportFinds
      <4>2. Updates(w)
        BY <3>2, <4>1 DEF FinishStep, FinishGetJob, FinishVariants, FinishFileFailed, FinishAborts,
           Updates, LoneInv, Hand
      <4>3. i # j
        BY <1>3, <4>1, <4>2
      <4>4. QED
        BY <1>0, <3>2, <4>1, <4>3, ReportsKeepRows DEF Failed
    <3>3. QED
      BY <1>3, <3>1, <3>2, WorkersLeaveRows
  <2>2. PICK e \in 1 .. cursor : LastOf(j, e) /\ Kept(e)
    BY <2>1 DEF KeptInv
  <2>3. LastOf(j, e)' /\ Kept(e)'
    BY <1>3, <2>2, WorkersKeepLast, WorkersKeep
  <2>4. QED
    BY <2>3 DEF LastOf
<1>4. CASE ProcessorNext
  BY <1>2, <1>3, <1>4
<1>5. QED
  BY <1>1, <1>4 DEF SystemNext, systemVars

LEMMA InitLone == SystemInit => LoneInv /\ KeptInv
<1> SUFFICES ASSUME SystemInit PROVE LoneInv /\ KeptInv
  OBVIOUS
<1>1. KeptInv
  BY DEF SystemInit, UploadsInit, BaseInit, KeptInv, Failed
<1>2. JobsLast /\ NoUndo
  BY DEF SystemInit, UploadsInit, BaseInit, JobsLast, Entries, NoUndo, IdleReq, JobPCs
<1>3. \A w \in Workers : Hand(w) /\ InHand(w)
  BY DEF SystemInit, GroupInit, StartWorker, NoFinish, Hand, InHand, Waiting
<1>4. QED
  BY <1>1, <1>2, <1>3 DEF LoneInv

LEMMA Lone ==
  ASSUME Faults \cap {"abort", "queue", "worker"} = {}, LoneWorker
  PROVE  SystemSpec => [](SystemInv /\ LoneInv /\ KeptInv)
<1>1. SystemInv /\ LoneInv /\ KeptInv /\ [SystemNext]_systemVars => LoneInv' /\ KeptInv'
  BY NextLone, NextKept
<1>2. QED
  BY <1>1, InitLone, SystemInvariant, PTL DEF SystemSpec

(* The last entry of a job that ended as failed is in media:jobs:dlq, for  *)
(* one worker that no fault of Redis interrupts, whatever the bucket and   *)
(* the store do, and however often callers retry, complete and delete.     *)
THEOREM FailuresAreKept ==
  ASSUME Faults \cap {"abort", "queue", "worker"} = {}, LoneWorker
  PROVE  SystemSpec => []FailureIsKept
<1>1. SystemInv /\ KeptInv => FailureIsKept
  <2> SUFFICES ASSUME SystemInv, KeptInv, Quiet, NEW j \in JobIds, Failed(j)
               PROVE  \E e \in dlq : stream[e].job = j /\ \A later \in Entries : stream[later].job = j => later <= e
    BY DEF FailureIsKept, Failed
  <2>1. PICK e \in 1 .. cursor : LastOf(j, e) /\ Kept(e)
    BY DEF KeptInv
  <2>2. e \in dlq
    BY <2>1 DEF Kept, Failing, Quiet
  <2>3. cursor \in Nat /\ Len(stream) \in Nat
    BY DEF SystemInv, SystemTypeOK, TypeOK, BaseTypeOK, StreamTypeOK
  <2>4. \A d \in Entries : ~Open(d)
    BY <2>3 DEF Open, Unsettled, Quiet, Entries
  <2>5. \A d \in Entries : stream[d].job = j => d <= e
    BY <2>1, <2>3, <2>4 DEF LastOf, Entries
  <2>6. QED
    BY <2>1, <2>2, <2>5 DEF LastOf
<1>2. QED
  BY <1>1, Lone, PTL

-----------------------------------------------------------------------------
(***************************************************************************)
(* Why StatusAgrees holds.  The rows of a file and of its jobs disagree    *)
(* only while a request is on its way to enqueue one of the jobs, an entry *)
(* of the file has yet to be read, or the worker is on it; and what ends   *)
(* the work on an entry is the second of the two updates of its report.    *)
(* Complete makes a file ready without a job only when it is no image, and *)
(* a file that has jobs is one.                                            *)
(***************************************************************************)
Completing == {"c_stat", "c_head", "c_charge", "c_ready", "c_job"}
HasKind(f, kind) == HasRow(f) => files[f].kind = kind
ImagesOnly ==
    /\ \A j \in JobIds : jobs[j] # None => HasKind(jobs[j].file, "image")
    /\ \A h \in Handlers : req[h].pc \in Completing => HasKind(req[h].file, req[h].kind)
    /\ \A h \in Handlers : req[h].pc = "c_job" => req[h].kind = "image"

\* Complete may call a file ready only with the kind it read in the row.
LEMMA RequestsKeepKind ==
  ASSUME req \in [Handlers -> Request], [UploadsNext]_uploadsVars, NEW h \in Handlers,
         req'[h].pc \in Completing
  PROVE  \/ /\ req[h].pc \in Completing /\ req'[h].file = req[h].file /\ req'[h].kind = req[h].kind
            /\ req'[h].pc = "c_job" => req[h].pc = "c_job" \/ req[h].kind = "image"
         \/ /\ req'[h].pc = "c_stat" /\ UNCHANGED files
            /\ \E f \in FileIds : req'[h].file = f /\ req'[h].kind = files[f].kind /\ f \in FileIds
                                  /\ HasRow(f)
<1> DEFINE Same == /\ req[h].pc \in Completing /\ req'[h].file = req[h].file /\ req'[h].kind = req[h].kind
                   /\ req'[h].pc = "c_job" => req[h].pc = "c_job" \/ req[h].kind = "image"
           New == /\ req'[h].pc = "c_stat" /\ UNCHANGED files
                  /\ \E f \in FileIds : req'[h].file = f /\ req'[h].kind = files[f].kind /\ f \in FileIds
                                        /\ HasRow(f)
<1> SUFFICES Same \/ New
  OBVIOUS
<1>1. req'[h] = req[h] => Same
  OBVIOUS
<1>2. \A pc : Goto(h, pc) => req'[h].pc = pc /\ req'[h].file = req[h].file /\ req'[h].kind = req[h].kind
  BY DEF Goto, Request
<1>3. ~Return(h)
  BY RequestMoves DEF Completing
<1>4. ASSUME NEW g \in Handlers, g # h, PresignStep(g) \/ CompleteStep(g) \/ DeleteStep(g) \/ JobsStep(g)
      PROVE  Same
  BY <1>1, <1>4, OneRequestMoves
<1>5. \A pc, p, f, j, kind, size : Accept(h, pc, p, f, j, kind, size) =>
         req'[h].pc = pc /\ req'[h].file = f /\ req'[h].kind = kind
  BY DEF Accept
<1>6. ~PresignStep(h) /\ ~DeleteStep(h) /\ ~JobsStep(h)
  BY <1>2, <1>3, <1>5 DEF PresignStep, DeleteStep, JobsStep, PresignCheck, PresignCreate, DeleteStart,
     DeleteObjects, DeleteRow, DeleteRefund, RetryStart, RetryQueued, MarkPending, EnqueueOK,
     EnqueueFails, UndoJob, UndoFile, Abort, GotoIf, Completing
<1>7. CASE CompleteStart(h)
  <2>1. PICK p \in Principals, f \in FileIds : HasRow(f) /\ Accept(h, "c_stat", p, f, None, files[f].kind, 0)
    BY <1>7 DEF CompleteStart, OwnedBy
  <2>2. QED
    BY <1>5, <1>7, <2>1 DEF CompleteStart, storeVars
<1>8. CASE CompleteStat(h)
  <2>1. ASSUME NEW size, NEW etag,
               req' = [req EXCEPT ![h] = [@ EXCEPT !.pc = "c_head", !.size = size, !.etag = etag]]
        PROVE  Same
    <3> DEFINE new == [req[h] EXCEPT !.pc = "c_head", !.size = size, !.etag = etag]
    <3>1. new.pc = "c_head" /\ new.file = req[h].file /\ new.kind = req[h].kind
          /\ req' = [req EXCEPT ![h] = new]
      BY <2>1 DEF Request
    <3> HIDE DEF new
    <3>2. QED
      BY <1>8, <3>1 DEF CompleteStat, Completing
  <2>2. ~Goto(h, "c_drop")
    BY <1>2 DEF Completing
  <2>3. \E size, etag :
          req' = [req EXCEPT ![h] = [@ EXCEPT !.pc = "c_head", !.size = size, !.etag = etag]]
    BY <1>3, <1>8, <2>2 DEF CompleteStat
  <2>4. QED
    BY <2>1, <2>3
<1>9. ~CompleteJob(h)
  <2>1. ASSUME NEW j, req' = [req EXCEPT ![h] = [@ EXCEPT !.pc = "pend", !.job = j]] PROVE FALSE
    <3> DEFINE new == [req[h] EXCEPT !.pc = "pend", !.job = j]
    <3>1. new.pc = "pend" /\ req' = [req EXCEPT ![h] = new]
      BY <2>1 DEF Request
    <3> HIDE DEF new
    <3>2. QED
      BY <3>1 DEF Completing
  <2>2. QED
    BY <1>3, <2>1 DEF CompleteJob
<1>10. CASE CompleteDrop(h) \/ CompleteHead(h) \/ RejectObject(h) \/ RejectRow(h)
            \/ CompleteCharge(h) \/ CompleteReady(h)
  BY <1>2, <1>3, <1>10 DEF CompleteDrop, CompleteHead, RejectObject, RejectRow, CompleteCharge,
     CompleteReady, GotoIf, Completing
<1>11. CASE (\E f \in FileIds : Put(f)) \/ UNCHANGED uploadsVars
  BY <1>1, <1>11 DEF Put, uploadsVars, baseVars
<1>12. QED
  BY <1>4, <1>6, <1>7, <1>8, <1>9, <1>10, <1>11 DEF UploadsNext, CompleteStep

\* Only Complete makes a job.
LEMMA OnlyCompleteMakesJobs ==
  ASSUME SystemInv, [UploadsNext]_uploadsVars, NEW j \in JobIds, jobs'[j] # None, jobs[j] = None
  PROVE  \E h \in Handlers :
            /\ CompleteJob(h) /\ HasRow(req[h].file) /\ jobs'[j].file = req[h].file
<1> USE DEF storeVars
<1>0. /\ TypeOK /\ JobsTypeOK /\ FilesTypeOK
      /\ \A h \in Handlers : req[h].pc \in JobPCs => req[h].job \in JobIds
  BY DEF SystemInv, SystemTypeOK, TypeOK, BaseTypeOK, ReqTypeOK, JobPCs
<1>1. jobs' # jobs /\ \A f : ~DeleteFileRow(f)
  BY DEF DeleteFileRow
<1>2. ASSUME NEW h \in Handlers, RetryQueued(h) \/ UndoJob(h) PROVE FALSE
  <2>1. req[h].job \in JobIds /\ (UpdateJob(req[h].job, "queued") \/ UpdateJob(req[h].job, "failed"))
    BY <1>0, <1>1, <1>2 DEF RetryQueued, UndoJob, JobPCs
  <2>2. QED
    BY <1>0, <2>1, UpdateJobSets DEF JobStatus
<1>3. PICK h \in Handlers : CompleteJob(h)
  BY <1>1, <1>2 DEF UploadsNext, uploadsVars, baseVars, Put, PresignStep, CompleteStep, DeleteStep,
     JobsStep, PresignCheck, PresignCreate, CompleteStart, CompleteStat, CompleteDrop, CompleteHead,
     RejectObject, RejectRow, CompleteCharge, CompleteReady, DeleteStart, DeleteObjects, DeleteRow,
     DeleteRefund, RetryStart, MarkPending, EnqueueOK, EnqueueFails, UndoFile, Abort
<1>4. PICK i \in JobIds : HasRow(req[h].file) /\ CreateJob(i, req[h].file)
  BY <1>1, <1>3 DEF CompleteJob
<1>5. PICK row : row = [file |-> req[h].file, status |-> "queued"]
  OBVIOUS
<1>6. row.file = req[h].file /\ jobs' = [jobs EXCEPT ![i] = row]
  BY <1>4, <1>5 DEF CreateJob
<1>7. i = j /\ jobs'[j] = row
  BY <1>0, <1>6 DEF JobsTypeOK
<1>8. QED
  BY <1>3, <1>4, <1>6, <1>7

LEMMA KindKept ==
  ASSUME SystemInv, [SystemNext]_systemVars, NEW f \in FileIds \cap issued, NEW kind, HasKind(f, kind)
  PROVE  HasKind(f, kind)'
<1>0. TypeOK /\ RefundInv
  BY DEF SystemInv, SystemTypeOK
<1>1. CASE UNCHANGED files
  BY <1>1 DEF HasKind, HasRow
<1>2. CASE [UploadsNext]_uploadsVars
  BY <1>0, <1>2, RowsKeepOwner DEF HasKind
<1>3. CASE ProcessorNext
  BY <1>1, <1>3, ReportsKeepOwner, WorkersLeaveRows DEF HasKind
<1>4. QED
  BY <1>2, <1>3 DEF SystemNext, systemVars

LEMMA NextImagesOnly ==
  ASSUME SystemInv, ImagesOnly, [SystemNext]_systemVars
  PROVE  ImagesOnly'
<1>0. /\ SystemInv' /\ RowsKept /\ JobsTypeOK /\ RefundInv /\ req \in [Handlers -> Request]
      /\ \A h \in Handlers : req[h].pc \in Completing => req[h].file \in FileIds \cap issued
      /\ \A j \in JobIds : jobs[j] # None => jobs[j].file \in FileIds \cap issued
  <2>1. SystemInv' /\ RowsKept
    BY NextSystemInv
  <2>2. /\ JobsTypeOK /\ RefundInv /\ req \in [Handlers -> Request]
        /\ \A h \in Handlers : req[h].pc \in Completing => req[h].file \in FileIds \cap issued
    BY DEF SystemInv, SystemTypeOK, TypeOK, BaseTypeOK, ReqTypeOK, LedgerInv, Completing
  <2>3. \A j \in JobIds : jobs[j] # None => jobs[j].file \in FileIds \cap issued
    BY <2>2 DEF SystemInv, LedgerInv, RefundInv, JobsTypeOK, JobRow
  <2>4. QED
    BY <2>1, <2>2, <2>3
<1>1. ASSUME NEW j \in JobIds, jobs'[j] # None, jobs[j] # None, jobs'[j].file = jobs[j].file
      PROVE  HasKind(jobs[j].file, "image")'
  <2>1. PICK f \in FileIds \cap issued : f = jobs[j].file
    BY <1>0, <1>1
  <2>2. HasKind(f, "image")'
    BY <1>1, <2>1, KindKept DEF ImagesOnly
  <2>3. QED
    BY <1>1, <2>1, <2>2 DEF HasKind, HasRow
<1>2. ASSUME NEW h \in Handlers, req[h].pc \in Completing, req'[h].file = req[h].file,
             req'[h].kind = req[h].kind
      PROVE  HasKind(req[h].file, req[h].kind)'
  <2>1. PICK f \in FileIds \cap issued : f = req[h].file
    BY <1>0, <1>2
  <2>0. PICK kind : kind = req[h].kind
    OBVIOUS
  <2>2. HasKind(f, kind)'
    BY <1>2, <2>0, <2>1, KindKept DEF ImagesOnly
  <2>3. QED
    BY <1>2, <2>0, <2>1, <2>2 DEF HasKind, HasRow
<1>3. CASE [UploadsNext]_uploadsVars
  <2>1. ASSUME NEW j \in JobIds, jobs'[j] # None PROVE HasKind(jobs[j].file, "image")'
    <3>1. CASE jobs[j] = None
      <4>1. PICK h \in Handlers : CompleteJob(h) /\ HasRow(req[h].file) /\ jobs'[j].file = req[h].file
        BY <1>3, <2>1, <3>1, OnlyCompleteMakesJobs
      <4>2. req[h].pc = "c_job" /\ UNCHANGED files
        BY <4>1 DEF CompleteJob
      <4>3. files[req[h].file].kind = "image"
        BY <4>1, <4>2 DEF ImagesOnly, HasKind, Completing
      <4>4. QED
        BY <4>1, <4>2, <4>3 DEF HasKind
    <3>2. CASE jobs[j] # None
      <4>1. jobs'[j].file = jobs[j].file
        BY <1>0, <2>1, <3>2 DEF RowsKept, JobKept, JobMade, SystemInv, MessageInv
      <4>2. QED
        BY <1>1, <2>1, <3>2, <4>1
    <3>3. QED
      BY <3>1, <3>2
  <2>2. ASSUME NEW h \in Handlers, req'[h].pc \in Completing
        PROVE  /\ HasKind(req[h].file, req[h].kind)'
               /\ req'[h].pc = "c_job" => req'[h].kind = "image"
    <3>1. CASE /\ req[h].pc \in Completing /\ req'[h].file = req[h].file /\ req'[h].kind = req[h].kind
               /\ req'[h].pc = "c_job" => req[h].pc = "c_job" \/ req[h].kind = "image"
      BY <1>2, <3>1 DEF ImagesOnly
    <3>2. CASE /\ req'[h].pc = "c_stat" /\ UNCHANGED files
               /\ \E f \in FileIds : req'[h].file = f /\ req'[h].kind = files[f].kind /\ f \in FileIds
                                  /\ HasRow(f)
      BY <3>2 DEF HasKind
    <3>3. QED
      BY <1>0, <1>3, <2>2, <3>1, <3>2, RequestsKeepKind
  <2>3. QED
    BY <2>1, <2>2 DEF ImagesOnly, Completing
<1>4. CASE ProcessorNext
  <2>1. UNCHANGED req
    BY <1>4, WorkersLeaveRows
  <2>2. ASSUME NEW j \in JobIds, jobs'[j] # None PROVE HasKind(jobs[j].file, "image")'
    <3>1. jobs[j] # None /\ jobs'[j].file = jobs[j].file
      <4>1. ASSUME NEW w \in Workers, FinishStep(w) PROVE jobs[j] # None /\ jobs'[j].file = jobs[j].file
        <5>1. SystemTypeOK /\ GroupInv
          BY DEF SystemInv
        <5>2. PICK f \in FileIds, i \in JobIds : finish[w].msg.file = f /\ finish[w].msg.job = i
          BY <4>1, <5>1, ReportFinds
        <5>3. QED
          BY <2>2, <4>1, <5>1, <5>2, ReportsKeepRows
      <4>2. QED
        BY <1>4, <2>2, <4>1, WorkersLeaveRows
    <3>2. QED
      BY <1>1, <2>2, <3>1
  <2>3. ASSUME NEW h \in Handlers, req[h].pc \in Completing PROVE HasKind(req[h].file, req[h].kind)'
    BY <1>2, <2>1, <2>3
  <2>4. QED
    BY <2>1, <2>2, <2>3 DEF ImagesOnly
<1>5. QED
  BY <1>3, <1>4 DEF SystemNext, systemVars

-----------------------------------------------------------------------------
\* A request is about to enqueue a job of the file, or its entry is still to be read.
Coming(f) ==
    \/ \E h \in Handlers : req[h].file = f /\ req[h].pc \in {"c_job", "pend", "enq"}
    \/ \E e \in Entries : e > cursor /\ stream[e].file = f
\* The worker is on an entry of the file, and not through with its report.
Done(w) ==
    \/ worker[w].pc \in {"ack_ok", "dlq", "ack_err"}
    \/ worker[w].pc \in Waiting /\ finish[w].pc = "ok"
Handling(f) == \E w \in Workers : worker[w].batch # <<>> /\ FileOf(w) = f /\ ~Done(w)
Agreed(f) == \E j \in JobIds : jobs[j] # None /\ jobs[j].file = f /\ Agrees(files[f].status, jobs[j].status)

\* Between the two updates of a report, the first one holds.
HalfDone(w) ==
    /\ finish[w].pc = "job_ok" => \A f \in FileIds :
          finish[w].msg.file = f /\ HasRow(f) => files[f].status = "ready" \/ Coming(f)
    /\ finish[w].pc = "file_failed" => \A f \in FileIds, j \in JobIds :
          finish[w].msg.file = f /\ finish[w].msg.job = j /\ HasRow(f) =>
             jobs[j].status = "failed" \/ Coming(f)

AgreeInv ==
    /\ \A w \in Workers : HalfDone(w)
    /\ \A f \in FileIds : HasRow(f) /\ JobsOf(f) # {} => Coming(f) \/ Handling(f) \/ Agreed(f)

\* A step leaves the status of the file and its jobs as they are.
Untouched(f) ==
    /\ files'[f].status = files[f].status
    /\ \A j \in JobIds :
          (jobs[j] # None /\ jobs[j].file = f) \/ (jobs'[j] # None /\ jobs'[j].file = f)
             => jobs'[j] = jobs[j]

LEMMA RequestsTouch ==
  ASSUME Faults \cap {"abort", "queue"} = {}, SystemInv, NoUndo, ImagesOnly, [UploadsNext]_uploadsVars,
         NEW f \in FileIds \cap issued, HasRow(f)'
  PROVE  Coming(f)' \/ Untouched(f) \/ JobsOf(f)' = {}
<1> USE DEF storeVars
<1>0. /\ TypeOK /\ JobsTypeOK /\ FilesTypeOK /\ req \in [Handlers -> Request]
      /\ \A h \in Handlers : req[h].pc \in JobPCs => req[h].job \in JobIds
      /\ \A h \in Handlers : req[h].pc \notin {"idle", "p_create"} => req[h].file \in FileIds
  BY DEF SystemInv, SystemTypeOK, TypeOK, BaseTypeOK, ReqTypeOK, JobPCs
<1>1. UNCHANGED <<files, jobs>> => Untouched(f)
  BY DEF Untouched
<1>2. ASSUME NEW h \in Handlers, req[h].file = f, NEW pc \in {"c_job", "pend", "enq"}, Goto(h, pc)
      PROVE  Coming(f)'
  BY <1>0, <1>2, RequestMoves DEF Coming
<1>3. ASSUME NEW h \in Handlers, PresignCreate(h) PROVE Untouched(f)
  <2>1. PICK g \in FileIds \ issued : \E row : files' = [files EXCEPT ![g] = row]
    BY <1>3 DEF PresignCreate, CreatePendingFile
  <2>2. files'[f] = files[f]
    BY <1>0, <2>1 DEF FilesTypeOK
  <2>3. QED
    BY <1>3, <2>2 DEF PresignCreate, Untouched
<1>4. ASSUME NEW h \in Handlers, RejectRow(h) \/ DeleteRow(h) PROVE Untouched(f)
  <2>1. PICK g \in FileIds : g = req[h].file
    BY <1>0, <1>4 DEF RejectRow, DeleteRow
  <2>2. CASE DeleteFileRow(g)
    <3>1. g # f /\ files'[f] = files[f]
      BY <1>0, <2>2, DeleteFileRowKeeps
    <3>2. \A j \in JobIds : jobs'[j] = IF jobs[j] # None /\ jobs[j].file = g THEN None ELSE jobs[j]
      BY <2>2 DEF DeleteFileRow
    <3>3. QED
      BY <3>1, <3>2 DEF Untouched
  <2>3. QED
    BY <1>1, <1>4, <2>1, <2>2 DEF RejectRow, DeleteRow
<1>5. ASSUME NEW h \in Handlers, RetryQueued(h) PROVE Coming(f)' \/ Untouched(f)
  <2>1. PICK j \in JobIds, g \in FileIds : j = req[h].job /\ g = req[h].file
    BY <1>0, <1>5 DEF RetryQueued, JobPCs
  <2>2. UpdateJob(j, "queued") /\ UNCHANGED files /\ (jobs[j] # None => Goto(h, "pend") /\ jobs[j].file = g)
    BY <1>5, <2>1 DEF RetryQueued, GotoIf, SystemInv, MessageInv, JobPCs
  <2>3. CASE jobs[j] = None
    BY <1>1, <2>2, <2>3 DEF UpdateJob
  <2>4. CASE jobs[j] # None /\ g = f
    BY <1>2, <2>1, <2>2, <2>4
  <2>5. CASE jobs[j] # None /\ g # f
    <3>1. \A i \in JobIds : jobs'[i] # None => /\ jobs[i] # None /\ jobs'[i].file = jobs[i].file
                                               /\ i # j => jobs'[i] = jobs[i]
      BY <1>0, <2>2, UpdateJobSets DEF JobStatus
    <3>2. \A i \in JobIds : i # j => jobs'[i] = jobs[i]
      BY <1>0, <2>2 DEF UpdateJob, JobsTypeOK
    <3>3. QED
      BY <2>2, <2>5, <3>1, <3>2 DEF Untouched
  <2>6. QED
    BY <2>3, <2>4, <2>5
<1>6. ASSUME NEW h \in Handlers, MarkPending(h) PROVE Coming(f)' \/ Untouched(f)
  <2>1. PICK g \in FileIds : g = req[h].file
    BY <1>0, <1>6 DEF MarkPending
  <2>2. SetFileStatus(g, "pending") /\ UNCHANGED jobs /\ (HasRow(g) => Goto(h, "enq"))
    BY <1>6, <2>1 DEF MarkPending, GotoIf
  <2>3. (HasRow(f)' => HasRow(f)) /\ (g # f => files'[f] = files[f])
    BY <1>0, <2>2, SetFileStatusKeeps DEF FileStatus
  <2>4. QED
    BY <1>2, <2>1, <2>2, <2>3 DEF Untouched
<1>7. ASSUME NEW h \in Handlers, CompleteReady(h) PROVE Coming(f)' \/ Untouched(f) \/ JobsOf(f)' = {}
  <2>1. PICK g \in FileIds : g = req[h].file
    BY <1>0, <1>7 DEF CompleteReady
  <2>2. UNCHANGED jobs /\ (HasRow(g) /\ req[h].kind = "image" => Goto(h, "c_job"))
    BY <1>7, <2>1 DEF CompleteReady, GotoIf
  <2>3. (HasRow(f)' => HasRow(f)) /\ (g # f => files'[f] = files[f])
    BY <1>0, <1>7, <2>1 DEF CompleteReady, MarkFileReady, UpdateRow, FilesTypeOK, HasRow
  <2>4. CASE g # f \/ req[h].kind = "image"
    BY <1>2, <2>1, <2>2, <2>3, <2>4 DEF Untouched
  <2>5. CASE g = f /\ req[h].kind # "image"
    <3>1. HasRow(f) /\ files[f].kind # "image"
      BY <1>7, <2>1, <2>3, <2>5 DEF CompleteReady, ImagesOnly, HasKind, Completing
    <3>2. \A j \in JobIds : jobs[j] # None => jobs[j].file # f
      BY <3>1 DEF ImagesOnly, HasKind
    <3>3. QED
      BY <2>2, <3>2 DEF JobsOf
  <2>6. QED
    BY <2>4, <2>5
<1>8. ASSUME NEW h \in Handlers, CompleteJob(h) PROVE Coming(f)' \/ Untouched(f)
  <2>1. PICK g \in FileIds : g = req[h].file
    BY <1>0, <1>8 DEF CompleteJob
  <2>2. CASE UNCHANGED jobs
    BY <1>1, <1>8, <2>2 DEF CompleteJob
  <2>3. CASE jobs' # jobs
    <3>1. PICK i \in JobIds \ issued :
            /\ CreateJob(i, g)
            /\ req' = [req EXCEPT ![h] = [@ EXCEPT !.pc = "pend", !.job = i]]
      BY <1>8, <2>1, <2>3 DEF CompleteJob
    <3>2. CASE g = f
      <4> DEFINE new == [req[h] EXCEPT !.pc = "pend", !.job = i]
      <4>1. new.pc = "pend" /\ new.file = req[h].file /\ req' = [req EXCEPT ![h] = new]
        BY <1>0, <3>1 DEF Request
      <4> HIDE DEF new
      <4>2. req'[h].pc = "pend" /\ req'[h].file = f
        BY <1>0, <2>1, <3>2, <4>1
      <4>3. QED
        BY <4>2 DEF Coming
    <3>3. CASE g # f
      <4>1. PICK row : row = [file |-> g, status |-> "queued"]
        OBVIOUS
      <4>2. row.file = g /\ jobs' = [jobs EXCEPT ![i] = row] /\ jobs[i] = None
        BY <3>1, <4>1 DEF CreateJob, SystemInv, MessageInv
      <4>3. UNCHANGED files
        BY <1>8 DEF CompleteJob
      <4>4. QED
        BY <1>0, <3>3, <4>2, <4>3 DEF Untouched, JobsTypeOK
    <3>4. QED
      BY <3>2, <3>3
  <2>4. QED
    BY <2>2, <2>3
<1>9. \A h \in Handlers : ~UndoJob(h) /\ ~UndoFile(h)
  BY DEF UndoJob, UndoFile, NoUndo
<1>10. QED
  BY <1>1, <1>3, <1>4, <1>5, <1>6, <1>7, <1>8, <1>9
     DEF UploadsNext, uploadsVars, baseVars, Put, PresignStep, CompleteStep, DeleteStep, JobsStep,
         PresignCheck, CompleteStart, CompleteStat, CompleteDrop, CompleteHead,
         RejectObject, CompleteCharge, DeleteStart, DeleteObjects,
         DeleteRefund, RetryStart, EnqueueOK, EnqueueFails, Abort

\* A request about to enqueue a job of a file that is there adds the entry.
LEMMA RequestsCome ==
  ASSUME Faults \cap {"abort", "queue"} = {}, SystemInv, [UploadsNext]_uploadsVars, UNCHANGED processorVars,
         NEW f \in FileIds \cap issued, Coming(f), HasRow(f)'
  PROVE  Coming(f)'
<1>0. /\ SystemTypeOK /\ StreamTypeOK /\ FilesTypeOK /\ req \in [Handlers -> Request] /\ UNCHANGED cursor
      /\ cursor \in 0 .. Len(stream) /\ Len(stream) \in Nat
      /\ \A h \in Handlers : req[h].pc \in JobPCs => req[h].job \in JobIds
      /\ RowsKept
  BY NextSystemInv DEF SystemInv, SystemTypeOK, TypeOK, BaseTypeOK, StreamTypeOK, ReqTypeOK, JobPCs, processorVars, groupVars,
     SystemNext, systemVars
<1>1. HasRow(f)
  BY <1>0 DEF RowsKept, FileKept
<1>2. ASSUME NEW e \in Entries, e > cursor, stream[e].file = f PROVE Coming(f)'
  <2>1. e \in Entries' /\ stream'[e] = stream[e]
    BY <1>0, StreamGrows
  <2>2. QED
    BY <1>0, <1>2, <2>1 DEF Coming
<1>3. ASSUME NEW h \in Handlers, req[h].file = f, req[h].pc \in {"c_job", "pend", "enq"} PROVE Coming(f)'
  <2>1. req'[h] = req[h] => Coming(f)'
    BY <1>3 DEF Coming
  <2>2. ASSUME NEW g \in Handlers, g # h, PresignStep(g) \/ CompleteStep(g) \/ DeleteStep(g) \/ JobsStep(g)
        PROVE  Coming(f)'
    BY <1>0, <2>1, <2>2, OneRequestMoves
  <2>3. \A pc \in {"pend", "enq"} : Goto(h, pc) => Coming(f)'
    BY <1>0, <1>3, RequestMoves DEF Coming
  <2>4. MarkPending(h) => Coming(f)'
    BY <1>1, <1>3, <2>3 DEF MarkPending, GotoIf
  <2>5. ASSUME EnqueueOK(h) PROVE Coming(f)'
    <3>1. PICK m \in Message : m.file = f /\ stream' = Append(stream, m)
      BY <1>0, <1>3, <2>5 DEF EnqueueOK, Enqueue, Message, JobPCs
    <3>2. PICK e \in Nat : e = Len(stream) + 1 /\ e > cursor /\ e \in Entries' /\ stream'[e] = m
      BY <1>0, <3>1 DEF StreamTypeOK, Entries
    <3>3. QED
      BY <1>0, <3>1, <3>2 DEF Coming
  <2>6. ASSUME CompleteJob(h) PROVE Coming(f)'
    <3>1. PICK j \in JobIds : req' = [req EXCEPT ![h] = [@ EXCEPT !.pc = "pend", !.job = j]]
      BY <1>1, <1>3, <2>6 DEF CompleteJob
    <3> DEFINE new == [req[h] EXCEPT !.pc = "pend", !.job = j]
    <3>2. new.pc = "pend" /\ new.file = f /\ req' = [req EXCEPT ![h] = new]
      BY <1>0, <1>3, <3>1 DEF Request
    <3> HIDE DEF new
    <3>3. req'[h].pc = "pend" /\ req'[h].file = f
      BY <1>0, <3>2
    <3>4. QED
      BY <3>3 DEF Coming
  <2>7. ~PresignStep(h) /\ ~DeleteStep(h)
    BY <1>3 DEF PresignStep, DeleteStep, PresignCheck, PresignCreate, DeleteStart, DeleteObjects,
       DeleteRow, DeleteRefund, Accept
  <2>8. CompleteStep(h) => CompleteJob(h)
    BY <1>3 DEF CompleteStep, CompleteStart, CompleteStat, CompleteDrop, CompleteHead, RejectObject,
       RejectRow, CompleteCharge, CompleteReady, Accept
  <2>9. JobsStep(h) => MarkPending(h) \/ EnqueueOK(h)
    BY <1>3 DEF JobsStep, RetryStart, RetryQueued, EnqueueFails, UndoJob, UndoFile, Abort, Accept
  <2>10. (\E g \in FileIds : Put(g)) \/ UNCHANGED uploadsVars => Coming(f)'
    BY <2>1 DEF Put, uploadsVars, baseVars
  <2>11. QED
    BY <2>2, <2>4, <2>5, <2>6, <2>7, <2>8, <2>9, <2>10 DEF UploadsNext
<1>4. QED
  BY <1>2, <1>3 DEF Coming

LEMMA RequestsAgree ==
  ASSUME Faults \cap {"abort", "queue"} = {}, SystemInv, LoneInv, LoneInv', ImagesOnly, AgreeInv,
         [UploadsNext]_uploadsVars, UNCHANGED processorVars
  PROVE  AgreeInv'
<1>0. /\ SystemInv' /\ RowsKept /\ SystemTypeOK /\ GroupInv /\ JobsTypeOK /\ NoUndo
      /\ \A f \in FileIds : HasRow(f)' => HasRow(f) \/ f \notin issued
      /\ UNCHANGED <<worker, finish>>
  BY NextSystemInv DEF SystemInv, SystemTypeOK, TypeOK, BaseTypeOK, LoneInv, RowsKept, FileKept, SystemNext,
     systemVars, processorVars
<1>1. \A f \in FileIds \cap issued : HasRow(f)' => Coming(f)' \/ Untouched(f) \/ JobsOf(f)' = {}
  BY <1>0, RequestsTouch
<1>2. \A f \in FileIds \cap issued : HasRow(f)' /\ Coming(f) => Coming(f)'
  BY RequestsCome
<1>3. ASSUME NEW w \in Workers, NEW f \in FileIds, NEW j \in JobIds, NEW e \in Entries,
             finish[w].msg = stream[e], stream[e].file = f, stream[e].job = j, HasRow(f)'
      PROVE  /\ f \in issued /\ HasRow(f)
             /\ jobs[j] # None /\ jobs[j].file = f
             /\ Coming(f)' \/ Untouched(f)
  <2>1. Vouched(stream[e]) /\ f \in issued /\ HasRow(f)
    BY <1>0, <1>3 DEF SystemInv, MessageInv, Vouched
  <2>2. jobs[j] # None /\ jobs[j].file = f
    BY <1>3, <2>1 DEF LoneInv, JobsLast, Manned, Vouched
  <2>3. e \in Entries' /\ stream'[e] = stream[e]
    BY StreamGrows DEF SystemInv, SystemTypeOK, TypeOK, BaseTypeOK
  <2>4. jobs'[j] # None /\ jobs'[j].file = f
    BY <1>0, <1>3, <2>3 DEF LoneInv, JobsLast, Manned, SystemInv, MessageInv, Vouched, HasRow
  <2>5. JobsOf(f)' # {}
    BY <2>4 DEF JobsOf
  <2>6. QED
    BY <1>1, <1>3, <2>1, <2>2, <2>5
<1>4. ASSUME NEW w \in Workers PROVE HalfDone(w)'
  <2>1. ASSUME NEW f \in FileIds, finish[w].pc = "job_ok", finish[w].msg.file = f, HasRow(f)'
        PROVE  files'[f].status = "ready" \/ Coming(f)'
    <3>1. PICK e \in Entries, j \in JobIds : finish[w].msg = stream[e] /\ stream[e].job = j
      BY <1>0, <2>1, ReportTyped DEF GroupInv
    <3>2. HasRow(f) /\ f \in issued /\ (Coming(f)' \/ Untouched(f))
      BY <1>3, <2>1, <3>1
    <3>3. QED
      BY <1>2, <2>1, <3>2 DEF AgreeInv, HalfDone, Untouched
  <2>2. ASSUME NEW f \in FileIds, NEW j \in JobIds, finish[w].pc = "file_failed",
               finish[w].msg.file = f, finish[w].msg.job = j, HasRow(f)'
        PROVE  jobs'[j].status = "failed" \/ Coming(f)'
    <3>1. PICK e \in Entries : finish[w].msg = stream[e]
      BY <1>0, <2>2 DEF GroupInv
    <3>2. HasRow(f) /\ f \in issued /\ jobs[j] # None /\ jobs[j].file = f /\ (Coming(f)' \/ Untouched(f))
      BY <1>3, <2>2, <3>1
    <3>3. QED
      BY <1>2, <2>2, <3>2 DEF AgreeInv, HalfDone, Untouched
  <2>3. QED
    BY <1>0, <2>1, <2>2 DEF HalfDone
<1>5. ASSUME NEW f \in FileIds, HasRow(f)', JobsOf(f)' # {}
      PROVE  Coming(f)' \/ Handling(f)' \/ Agreed(f)'
  <2>1. f \in issued /\ HasRow(f)
    <3>1. PICK j \in JobIds : jobs'[j] # None /\ jobs'[j].file = f
      BY <1>5 DEF JobsOf
    <3>2. CASE jobs[j] # None /\ jobs[j].file = f
      BY <3>2 DEF SystemInv, LedgerInv, RefundInv
    <3>3. CASE ~(jobs[j] # None /\ jobs[j].file = f)
      <4>1. jobs[j] = None
        BY <1>0, <3>1, <3>3 DEF RowsKept, JobKept, JobMade, SystemInv, MessageInv
      <4>2. PICK h \in Handlers : CompleteJob(h) /\ HasRow(req[h].file) /\ jobs'[j].file = req[h].file
        BY <3>1, <4>1, OnlyCompleteMakesJobs
      <4>3. QED
        BY <3>1, <4>2 DEF SystemInv, RefundInv
    <3>4. QED
      BY <3>2, <3>3
  <2>2. CASE Coming(f)'
    BY <2>2
  <2>3. CASE ~Coming(f)'
    <3>1. Untouched(f) /\ ~Coming(f)
      BY <1>1, <1>2, <1>5, <2>1, <2>3
    <3>2. JobsOf(f) # {}
      BY <1>5, <3>1 DEF JobsOf, Untouched
    <3>3. Handling(f) \/ Agreed(f)
      BY <2>1, <3>1, <3>2 DEF AgreeInv
    <3>4. Agreed(f) => Agreed(f)'
      <4> SUFFICES ASSUME NEW j \in JobIds, jobs[j] # None, jobs[j].file = f,
                          Agrees(files[f].status, jobs[j].status)
                   PROVE  Agreed(f)'
        BY DEF Agreed
      <4>1. jobs'[j] = jobs[j] /\ files'[f].status = files[f].status
        BY <3>1 DEF Untouched
      <4>2. QED
        BY <4>1 DEF Agreed, Agrees
    <3>5. Handling(f) => Handling(f)'
      <4> SUFFICES ASSUME NEW w \in Workers, worker[w].batch # <<>>, FileOf(w) = f, ~Done(w)
                   PROVE  Handling(f)'
        BY DEF Handling
      <4>1. EntryOf(w) \in Entries
        BY <1>0, EntryTyped
      <4>2. stream'[EntryOf(w)] = stream[EntryOf(w)]
        BY <4>1, StreamGrows DEF SystemInv, SystemTypeOK, TypeOK, BaseTypeOK
      <4>3. FileOf(w)' = f /\ ~Done(w)' /\ worker'[w].batch # <<>>
        BY <1>0, <4>2 DEF FileOf, EntryOf, Done
      <4>4. QED
        BY <4>3 DEF Handling
    <3>6. QED
      BY <3>3, <3>4, <3>5
  <2>4. QED
    BY <2>2, <2>3
<1>6. QED
  BY <1>4, <1>5 DEF AgreeInv

\* A worker that takes up an entry, or is between two calls of its own.
LEMMA WorkerAgrees ==
  ASSUME LoneWorker, SystemInv, LoneInv, AgreeInv, UNCHANGED <<stream, req, files, jobs>>,
         NEW w \in Workers,
         \/ UNCHANGED <<cursor, pending, dlq, worker, finish, files, jobs>>
         \/ Claims(w) \/ Reads(w) \/ ReadsNothing(w) \/ Works(w) \/ Sends(w)
         \/ IsHeard(w) \/ GoesOn(w) \/ SetsAside(w)
  PROVE  AgreeInv'
<1>0. /\ SystemTypeOK /\ GroupInv /\ cursor \in 0 .. Len(stream) /\ Len(stream) \in Nat
      /\ \A v \in Workers : v = w
  BY DEF SystemInv, SystemTypeOK, TypeOK, BaseTypeOK, StreamTypeOK, LoneWorker
<1>1. Reads(w) \/ UNCHANGED cursor
  BY DEF Claims, ReadsNothing, Works, Sends, IsHeard, GoesOn, SetsAside
<1>2. UNCHANGED cursor => \A f \in FileIds : Coming(f) => Coming(f)'
  BY DEF Coming, Entries
<1>3. ASSUME Reads(w), NEW f \in FileIds, Coming(f) PROVE Coming(f)' \/ Handling(f)'
  <2>1. CASE \E h \in Handlers : req[h].file = f /\ req[h].pc \in {"c_job", "pend", "enq"}
    BY <2>1 DEF Coming
  <2>2. ASSUME NEW e \in Entries, e > cursor, stream[e].file = f PROVE Coming(f)' \/ Handling(f)'
    <3>1. CASE e > cursor + 1
      BY <1>0, <1>3, <2>2, <3>1 DEF Coming, Entries, Reads
    <3>2. CASE e = cursor + 1
      <4>1. worker'[w].batch = <<e>> /\ worker'[w].pc = "get"
        BY <1>3, <3>2 DEF Reads
      <4>2. worker'[w].batch # <<>> /\ FileOf(w)' = f /\ ~Done(w)'
        BY <2>2, <4>1 DEF FileOf, EntryOf, Done, Waiting
      <4>3. QED
        BY <4>2 DEF Handling
    <3>3. QED
      BY <1>0, <2>2, <3>1, <3>2 DEF Entries
  <2>3. QED
    BY <1>3, <2>1, <2>2 DEF Coming
<1>4. HalfDone(w)'
  <2>1. ASSUME finish'[w].pc \in {"job_ok", "file_failed"}
        PROVE  UNCHANGED cursor /\ finish'[w] = finish[w]
    <3>1. finish[w].pc # "none" => ~Reads(w)
      BY DEF Reads, LoneInv, Hand, Waiting
    <3>2. QED
      BY <1>1, <2>1, <3>1 DEF Claims, Reads, ReadsNothing, Works, Sends, IsHeard, GoesOn, SetsAside
  <2>2. HalfDone(w)
    BY DEF AgreeInv
  <2>3. QED
    BY <1>2, <2>1, <2>2 DEF HalfDone, HasRow
<1>5. ASSUME NEW f \in FileIds, HasRow(f), Handling(f) PROVE Handling(f)'
  <2>1. worker[w].batch # <<>> /\ FileOf(w) = f /\ ~Done(w)
    BY <1>0, <1>5 DEF Handling
  <2>2. CASE UNCHANGED <<cursor, pending, dlq, worker, finish, files, jobs>>
    BY <1>5, <2>2 DEF Handling, FileOf, EntryOf, Done
  <2>3. ~Claims(w) /\ ~Reads(w) /\ ~ReadsNothing(w)
    BY <2>1 DEF Claims, Reads, ReadsNothing, LoneInv, Hand
  <2>4. ~IsHeard(w) /\ ~SetsAside(w)
    BY <2>1 DEF IsHeard, SetsAside, Done, Waiting
  <2>5. ~GoesOn(w)
    <3>1. worker[w].pc \in Waiting /\ finish[w].pc = "error" => ~HasRow(f)
      BY <1>0, <2>1 DEF LoneInv, Hand, GroupInv, FileOf
    <3>2. QED
      BY <1>5, <2>1, <3>1 DEF GoesOn, Done
  <2>6. CASE Works(w) \/ Sends(w)
    <3>1. worker'[w].batch = worker[w].batch /\ ~Done(w)'
      BY <2>6 DEF Works, Sends, Done, Waiting
    <3>2. QED
      BY <2>1, <3>1 DEF Handling, FileOf, EntryOf
  <2>7. QED
    BY <2>2, <2>3, <2>4, <2>5, <2>6
<1>6. \A f \in FileIds : Agreed(f) => Agreed(f)'
  BY DEF Agreed, Agrees
<1>7. ASSUME NEW f \in FileIds, HasRow(f)', JobsOf(f)' # {} PROVE Coming(f)' \/ Handling(f)' \/ Agreed(f)'
  <2>1. HasRow(f) /\ JobsOf(f) # {}
    BY <1>7 DEF HasRow, JobsOf
  <2>2. Coming(f) \/ Handling(f) \/ Agreed(f)
    BY <2>1 DEF AgreeInv
  <2>3. QED
    BY <1>1, <1>2, <1>3, <1>5, <1>6, <2>1, <2>2
<1>8. QED
  BY <1>0, <1>4, <1>7 DEF AgreeInv

\* The two updates of a report, of which the second makes the rows agree.
LEMMA ReportAgrees ==
  ASSUME Faults \cap {"abort", "store"} = {}, LoneWorker, SystemInv, LoneInv, AgreeInv,
         NEW w \in Workers, IsServed(w)
  PROVE  AgreeInv'
<1>0. /\ SystemTypeOK /\ GroupInv /\ FinishTypeOK /\ FilesTypeOK /\ JobsTypeOK
      /\ FinishStep(w) /\ UNCHANGED <<stream, req, cursor, worker>>
      /\ \A v \in Workers : v = w
  BY DEF SystemInv, SystemTypeOK, FinishTypeOK, TypeOK, BaseTypeOK, LoneWorker, IsServed, FinishStep, groupVars
<1>1. PICK e \in Entries, f \in FileIds, j \in JobIds :
        finish[w].pc # "none" /\ finish[w].msg = stream[e] /\ finish[w].msg.file = f /\ finish[w].msg.job = j
  BY <1>0, ReportFinds
<1>2. worker[w].pc \in Waiting /\ worker[w].batch # <<>> /\ FileOf(w) = f
  BY <1>0, <1>1 DEF LoneInv, Hand, GroupInv, Waiting, FileOf
<1>3. /\ \A g \in FileIds : HasRow(g)' <=> HasRow(g)
      /\ \A g \in FileIds : g # f => files'[g] = files[g]
      /\ \A i \in JobIds : jobs'[i] # None => jobs[i] # None /\ jobs'[i].file = jobs[i].file
  BY <1>0, <1>1, ReportsKeepRows
<1>4. (jobs[j] # None => jobs[j].file = f) /\ (HasRow(f) => jobs[j] # None)
  BY <1>1 DEF SystemInv, MessageInv, Vouched, LoneInv, JobsLast, Manned
<1>5. \A i \in JobIds : i # j => jobs'[i] = jobs[i]
  <2>1. UNCHANGED jobs \/ UpdateJob(j, "succeeded") \/ UpdateJob(j, "failed")
    BY <1>0, <1>1 DEF FinishStep, FinishGetJob, FinishVariants, FinishSucceeded, FinishJobFailed,
       FinishFileFailed, FinishAborts
  <2>2. QED
    BY <1>0, <2>1 DEF UpdateJob, JobsTypeOK
<1>6. \A g \in FileIds : Coming(g) => Coming(g)'
  BY <1>0 DEF Coming, Entries
<1>7. finish'[w].msg = finish[w].msg
  BY DEF IsServed
<1>8. \A pc \in FinishPCs : ToFinish(w, pc) => finish'[w].pc = pc
  BY <1>0, ToFinishTyped
<1>9. finish'[w].pc # "ok" => Handling(f)'
  <2>1. worker'[w].batch # <<>> /\ FileOf(w)' = f
    BY <1>0, <1>2 DEF FileOf, EntryOf
  <2>2. finish'[w].pc # "ok" => ~Done(w)'
    BY <1>0, <1>2 DEF Done, Waiting
  <2>3. QED
    BY <2>1, <2>2 DEF Handling
<1>10. ASSUME NEW g \in FileIds, g # f, HasRow(g)', JobsOf(g)' # {}
       PROVE  Coming(g)' \/ Handling(g)' \/ Agreed(g)'
  <2>1. HasRow(g) /\ files'[g] = files[g]
    BY <1>3, <1>10
  <2>2. \A i \in JobIds : jobs[i] # None /\ jobs[i].file = g => jobs'[i] = jobs[i]
    BY <1>4, <1>5, <1>10
  <2>3. JobsOf(g) # {}
    BY <1>3, <1>10 DEF JobsOf
  <2>4. ~Handling(g)
    BY <1>0, <1>2, <1>10 DEF Handling
  <2>5. Agreed(g) => Agreed(g)'
    <3> SUFFICES ASSUME NEW i \in JobIds, jobs[i] # None, jobs[i].file = g,
                        Agrees(files[g].status, jobs[i].status)
                 PROVE  Agreed(g)'
      BY DEF Agreed
    <3>1. jobs'[i] = jobs[i]
      BY <2>2
    <3>2. QED
      BY <2>1, <3>1 DEF Agreed, Agrees
  <2>6. QED
    BY <1>6, <2>1, <2>3, <2>4, <2>5 DEF AgreeInv
<1>11. SUFFICES HalfDone(w)' /\ (HasRow(f)' => Coming(f)' \/ Handling(f)' \/ Agreed(f)')
  BY <1>0, <1>10 DEF AgreeInv
<1>12. CASE FinishGetJob(w)
  <2>1. finish'[w].pc \in {"error", "job_failed", "variants"}
    BY <1>8, <1>12 DEF FinishGetJob, FinishPCs
  <2>2. QED
    BY <1>9, <2>1 DEF HalfDone
<1>13. CASE FinishVariants(w)
  <2>1. finish'[w].pc \in {"error", "job_ok"}
    BY <1>8, <1>13 DEF FinishVariants, FinishPCs
  <2>2. UpdateVariants(f)
    BY <1>1, <1>13 DEF FinishVariants
  <2>3. HasRow(f) => files'[f].status = "ready"
    <3> DEFINE row == [files[f] EXCEPT !.variants = VariantNames, !.status = "ready"]
    <3>1. HasRow(f) => row.status = "ready"
      BY <1>0 DEF FilesTypeOK, FileRow, HasRow
    <3>2. UpdateRow(f, row)
      BY <2>2 DEF UpdateVariants
    <3> HIDE DEF row
    <3>3. QED
      BY <1>0, <3>1, <3>2 DEF UpdateRow, FilesTypeOK, HasRow
  <2>4. HalfDone(w)'
    BY <1>1, <1>3, <1>7, <2>1, <2>3 DEF HalfDone
  <2>5. QED
    BY <1>9, <2>1, <2>4
<1>14. CASE FinishSucceeded(w)
  <2>1. finish'[w].pc \in {"error", "ok"}
    BY <1>8, <1>14 DEF FinishSucceeded, FinishPCs
  <2>2. UpdateJob(j, "succeeded") /\ UNCHANGED files
    BY <1>1, <1>14 DEF FinishSucceeded
  <2>3. HasRow(f) => files[f].status = "ready" \/ Coming(f)
    BY <1>1, <1>14 DEF FinishSucceeded, AgreeInv, HalfDone
  <2>4. HasRow(f) => jobs'[j] # None /\ jobs'[j].file = f /\ jobs'[j].status = "succeeded"
    <3>1. HasRow(f) => jobs'[j] # None
      BY <1>0, <1>4, <2>2, UpdateJobLasts DEF JobStatus
    <3>2. QED
      BY <1>0, <1>3, <1>4, <2>2, <3>1, UpdateJobSets DEF JobStatus
  <2>5. HasRow(f) /\ files[f].status = "ready" => Agreed(f)'
    BY <2>2, <2>4 DEF Agreed, Agrees
  <2>6. HalfDone(w)'
    BY <2>1 DEF HalfDone
  <2>7. QED
    BY <1>3, <1>6, <2>3, <2>5, <2>6
<1>15. CASE FinishJobFailed(w)
  <2>1. finish'[w].pc = "file_failed"
    BY <1>8, <1>15 DEF FinishJobFailed, FinishPCs
  <2>2. UpdateJob(j, "failed")
    BY <1>1, <1>15 DEF FinishJobFailed
  <2>3. HasRow(f) => jobs'[j].status = "failed"
    <3>1. HasRow(f) => jobs'[j] # None
      BY <1>0, <1>4, <2>2, UpdateJobLasts DEF JobStatus
    <3>2. QED
      BY <1>0, <2>2, <3>1, UpdateJobSets DEF JobStatus
  <2>4. HalfDone(w)'
    BY <1>1, <1>3, <1>7, <2>1, <2>3 DEF HalfDone
  <2>5. QED
    BY <1>9, <2>1, <2>4
<1>16. CASE FinishFileFailed(w)
  <2>1. finish'[w].pc = "ok"
    BY <1>8, <1>16 DEF FinishFileFailed, FinishPCs
  <2>2. SetFileStatus(f, "failed") /\ UNCHANGED jobs
    BY <1>1, <1>16 DEF FinishFileFailed
  <2>3. HasRow(f) => jobs[j].status = "failed" \/ Coming(f)
    BY <1>1, <1>16 DEF FinishFileFailed, AgreeInv, HalfDone
  <2>4. HasRow(f) => files'[f].status = "failed"
    <3> DEFINE row == [files[f] EXCEPT !.status = "failed"]
    <3>1. HasRow(f) => row.status = "failed"
      BY <1>0 DEF FilesTypeOK, FileRow, HasRow
    <3>2. UpdateRow(f, row)
      BY <2>2 DEF SetFileStatus
    <3> HIDE DEF row
    <3>3. QED
      BY <1>0, <3>1, <3>2 DEF UpdateRow, FilesTypeOK, HasRow
  <2>5. HasRow(f) /\ jobs[j].status = "failed" => Agreed(f)'
    BY <1>4, <2>2, <2>4 DEF Agreed, Agrees
  <2>6. HalfDone(w)'
    BY <2>1 DEF HalfDone
  <2>7. QED
    BY <1>3, <1>6, <2>3, <2>5, <2>6
<1>17. ~FinishAborts(w)
  BY DEF FinishAborts
<1>18. QED
  BY <1>0, <1>12, <1>13, <1>14, <1>15, <1>16, <1>17 DEF FinishStep

LEMMA NextAgree ==
  ASSUME Faults \cap {"abort", "queue", "store", "worker"} = {}, LoneWorker, SystemInv, LoneInv,
         ImagesOnly, AgreeInv, [SystemNext]_systemVars
  PROVE  AgreeInv'
<1>1. LoneInv'
  BY NextLone
<1>2. CASE [UploadsNext]_uploadsVars /\ UNCHANGED processorVars
  BY <1>1, <1>2, RequestsAgree
<1>3. CASE ProcessorNext
  <2>0. SystemTypeOK /\ GroupInv /\ UNCHANGED <<stream, req>>
    BY <1>3, WorkersLeaveRows DEF SystemInv
  <2>1. CASE Workers = {}
    <3>1. UNCHANGED <<stream, req, cursor, files, jobs>>
      BY <1>3, <2>1 DEF ProcessorNext, FailStep, IdleStep, Elapse, storeVars
    <3>2. QED
      BY <2>1, <3>1 DEF AgreeInv, Coming, Handling, Agreed, Agrees, JobsOf, HasRow, Entries
  <2>2. ASSUME NEW w \in Workers PROVE AgreeInv'
    BY <1>3, <2>0, WorkerAgrees, ReportAgrees, LoneSteps
  <2>3. QED
    BY <2>1, <2>2
<1>4. QED
  BY <1>2, <1>3 DEF SystemNext, systemVars

\* No code marks a job as processing.
NotProcessing == \A j \in JobIds : jobs[j] # None => jobs[j].status # "processing"

LEMMA NextNotProcessing ==
  ASSUME SystemInv, NotProcessing, [SystemNext]_systemVars
  PROVE  NotProcessing'
<1> USE DEF storeVars
<1>0. /\ SystemTypeOK /\ GroupInv /\ TypeOK /\ JobsTypeOK
      /\ \A h \in Handlers : req[h].pc \in JobPCs => req[h].job \in JobIds
  BY DEF SystemInv, SystemTypeOK, TypeOK, BaseTypeOK, ReqTypeOK, JobPCs
<1>1. UNCHANGED jobs => NotProcessing'
  BY DEF NotProcessing
<1>2. ASSUME NEW j \in JobIds, NEW status \in {"queued", "succeeded", "failed"}, UpdateJob(j, status)
      PROVE  NotProcessing'
  BY <1>0, <1>2, UpdateJobSets DEF NotProcessing, JobStatus
<1>3. ASSUME NEW f, DeleteFileRow(f) PROVE NotProcessing'
  BY <1>3 DEF DeleteFileRow, NotProcessing
<1>4. ASSUME NEW j \in JobIds, NEW f, CreateJob(j, f) PROVE NotProcessing'
  <2>1. PICK row : row = [file |-> f, status |-> "queued"]
    OBVIOUS
  <2>2. row.status = "queued" /\ jobs' = [jobs EXCEPT ![j] = row]
    BY <1>4, <2>1 DEF CreateJob
  <2>3. QED
    BY <1>0, <2>2 DEF JobsTypeOK, NotProcessing
<1>5. CASE [UploadsNext]_uploadsVars
  <2>1. ASSUME NEW h \in Handlers, RetryQueued(h) \/ UndoJob(h) PROVE NotProcessing'
    BY <1>0, <1>1, <1>2, <2>1 DEF RetryQueued, UndoJob, JobPCs
  <2>2. ASSUME NEW h \in Handlers, CompleteJob(h) PROVE NotProcessing'
    BY <1>1, <1>4, <2>2 DEF CompleteJob
  <2>3. QED
    BY <1>1, <1>3, <1>5, <2>1, <2>2
       DEF UploadsNext, uploadsVars, baseVars, Put, PresignStep, CompleteStep, DeleteStep, JobsStep,
           PresignCheck, PresignCreate, CompleteStart, CompleteStat, CompleteDrop, CompleteHead,
           RejectObject, RejectRow, CompleteCharge, CompleteReady, DeleteStart, DeleteObjects, DeleteRow,
           DeleteRefund, RetryStart, MarkPending, EnqueueOK, EnqueueFails, UndoFile, Abort
<1>6. CASE ProcessorNext
  <2>1. ASSUME NEW w \in Workers, FinishStep(w) PROVE NotProcessing'
    <3>1. PICK f \in FileIds, j \in JobIds : finish[w].msg.file = f /\ finish[w].msg.job = j
      BY <1>0, <2>1, ReportFinds
    <3>2. UNCHANGED jobs \/ UpdateJob(j, "succeeded") \/ UpdateJob(j, "failed")
      BY <2>1, <3>1 DEF FinishStep, FinishGetJob, FinishVariants, FinishSucceeded, FinishJobFailed,
         FinishFileFailed, FinishAborts
    <3>3. QED
      BY <1>1, <1>2, <3>2
  <2>2. QED
    BY <1>1, <1>6, <2>1, WorkersLeaveRows
<1>7. QED
  BY <1>5, <1>6 DEF SystemNext, systemVars

LEMMA InitAgree == SystemInit => ImagesOnly /\ AgreeInv /\ NotProcessing
  BY DEF SystemInit, UploadsInit, BaseInit, GroupInit, ImagesOnly, AgreeInv, NotProcessing, HalfDone,
     NoFinish, IdleReq, Completing, HasRow

(* When nothing is under way any more, every job is settled and a file     *)
(* shows what one of its jobs came to: for one worker, whatever the bucket *)
(* fails, and however many callers complete, retry and delete at once.     *)
THEOREM StatusesAgree ==
  ASSUME Faults \cap {"abort", "queue", "store", "worker"} = {}, LoneWorker
  PROVE  SystemSpec => []StatusAgrees
<1>1. SystemInv /\ LoneInv /\ ImagesOnly /\ AgreeInv /\ NotProcessing /\ [SystemNext]_systemVars
        => ImagesOnly' /\ AgreeInv' /\ NotProcessing'
  BY NextImagesOnly, NextAgree, NextNotProcessing
<1>2. SystemInv /\ LoneInv /\ SettledInv /\ AgreeInv /\ NotProcessing => StatusAgrees
  <2> SUFFICES ASSUME SystemInv, LoneInv, SettledInv, AgreeInv, NotProcessing, Quiet,
                      NEW f \in FileIds, HasRow(f), JobsOf(f) # {}
               PROVE  /\ \A j \in JobsOf(f) : jobs[j].status \in {"succeeded", "failed"}
                      /\ \E j \in JobsOf(f) : Agrees(files[f].status, jobs[j].status)
    BY DEF StatusAgrees
  <2>0. cursor \in Nat /\ Len(stream) \in Nat /\ JobsTypeOK
    BY DEF SystemInv, SystemTypeOK, TypeOK, BaseTypeOK, StreamTypeOK
  <2>1. ~Coming(f)
    BY <2>0 DEF Coming, Quiet, Entries
  <2>2. ~Handling(f)
    BY DEF Handling, Quiet, LoneInv, Hand
  <2>3. Agreed(f)
    BY <2>1, <2>2 DEF AgreeInv
  <2>4. \A e \in Entries : ~Open(e)
    BY <2>0 DEF Open, Unsettled, Quiet, Entries
  <2>5. \A j \in JobIds : ~Enqueueing(j)
    BY DEF Enqueueing, Quiet
  <2>6. ASSUME NEW j \in JobsOf(f) PROVE jobs[j].status \in {"succeeded", "failed"}
    <3>1. j \in JobIds /\ jobs[j] # None
      BY DEF JobsOf
    <3>2. jobs[j].status \in JobStatus
      BY <2>0, <3>1 DEF JobsTypeOK, JobRow
    <3>3. jobs[j].status # "queued" /\ jobs[j].status # "processing"
      BY <2>4, <2>5, <3>1 DEF SettledInv, NotProcessing
    <3>4. QED
      BY <3>2, <3>3 DEF JobStatus
  <2>7. QED
    BY <2>3, <2>6 DEF Agreed, JobsOf
<1>a. Faults \cap {"abort", "queue", "worker"} = {}
  OBVIOUS
<1>3. SystemSpec => [](SystemInv /\ LoneInv /\ KeptInv)
  BY <1>a, Lone
<1>4. SystemSpec => [](SystemInv /\ SettledInv)
  BY Settled
<1>5. QED
  BY <1>1, <1>2, <1>3, <1>4, InitAgree, PTL DEF SystemSpec
=============================================================================
