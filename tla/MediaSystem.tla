----------------------------- MODULE MediaSystem -----------------------------
(***************************************************************************)
(* The API, the bucket, PostgreSQL, Redis and the workers together: files  *)
(* are uploaded, completed, processed, retried and deleted at once.        *)
(***************************************************************************)
EXTENDS Uploads, Processor

systemVars == <<uploadsVars, processorVars>>

SystemInit == UploadsInit /\ GroupInit

SystemNext ==
    \/ UploadsNext /\ UNCHANGED processorVars
    \/ ProcessorNext /\ UNCHANGED ghostVars

SystemSpec == SystemInit /\ [][SystemNext]_systemVars

-----------------------------------------------------------------------------
(***************************************************************************)
(* The pipeline alone: it starts where a fault-free Presign, PUT and       *)
(* Complete of one image per file have left the system, and runs workers,  *)
(* retries and deletes from there.                                         *)
(***************************************************************************)
PipelineInit ==
    /\ GroupInit
    /\ issued = FileIds \cup JobIds
    /\ derived = [f \in FileIds |-> {}]
    /\ urls = FileIds
    /\ req = [h \in Handlers |-> IdleReq]
    /\ refunds = [f \in FileIds |-> <<>>]
    /\ \E p \in Principals, jobOf \in Bijection(FileIds, JobIds),
          put \in [FileIds -> {c \in ClientContents : c.kind = "image"}] :
        /\ files = [f \in FileIds |-> [owner |-> p, kind |-> "image", size |-> put[f].size,
                                       status |-> "pending", variants |-> {}]]
        /\ jobs = [j \in JobIds |-> [file |-> AntiFunction(jobOf)[j], status |-> "queued"]]
        /\ orig = put
        /\ charged = [f \in FileIds |-> put[f].size]
        /\ quota = [s \in Subjects |->
                        IF s = QuotaSubject(p) THEN MapThenSumSet(LAMBDA f : put[f].size, FileIds)
                                               ELSE 0]
        /\ stream \in {[n \in DOMAIN order |-> [file |-> order[n], job |-> jobOf[order[n]]]] :
                          order \in {SetToSeq(FileIds)}}

RequestStep(h) ==
    \/ JobsStep(h) /\ UNCHANGED ghostVars
    \/ DeleteStep(h)

PipelineNext ==
    \/ (\E h \in Handlers : RequestStep(h)) /\ UNCHANGED processorVars
    \/ ProcessorNext /\ UNCHANGED ghostVars

PipelineSpec == PipelineInit /\ [][PipelineNext]_systemVars

(***************************************************************************)
(* Progress.  A worker is one loop of awaited calls, each of which returns;*)
(* the API serves every request it has taken; time passes.  Nothing obliges*)
(* a user to send a request, and no fault has to happen or to be absent:   *)
(* deaths and lost replies only end because MaxCrashes bounds them.        *)
(***************************************************************************)
WorkerStep(w) == (QueueStep(w) \/ ImageStep(w)) /\ UNCHANGED ghostVars
FinishServed(w) == FinishStep(w) /\ UNCHANGED ghostVars
RequestServed(h) == req[h].pc # "idle" /\ RequestStep(h) /\ UNCHANGED processorVars
TimePasses == IdleStep /\ UNCHANGED ghostVars

FairPipelineSpec ==
    /\ PipelineSpec
    /\ \A w \in Workers : WF_systemVars(WorkerStep(w)) /\ WF_systemVars(FinishServed(w))
    /\ \A h \in Handlers : WF_systemVars(RequestServed(h))
    /\ WF_systemVars(TimePasses)

-----------------------------------------------------------------------------
(* Properties                                                              *)

SystemTypeOK ==
    /\ TypeOK
    /\ cursor \in 0 .. Len(stream)
    /\ pending \subseteq 1 .. cursor
    /\ idle \subseteq pending
    /\ dlq \subseteq 1 .. cursor
    /\ worker \in [Workers -> Worker]
    /\ finish \in [Workers -> Finish]
    /\ crashes \in 0 .. MaxCrashes

Entries == 1 .. Len(stream)
Unsettled(e) == e \in Entries /\ (e > cursor \/ e \in pending)
HasEntry(j) == \E e \in Entries : Unsettled(e) /\ stream[e].job = j
\* The job is between being queued and being on the stream.
Enqueueing(j) == \E h \in Handlers : req[h].job = j /\ req[h].pc \in {"pend", "enq", "undo_job"}

(* A queued job is never lost: as long as no store call fails and no API   *)
(* request is cut short, every queued job has an unacknowledged entry (or  *)
(* a request about to add one), whatever workers crash, report late or     *)
(* handle the same entry twice, and however often it is retried.           *)
NoLostJob ==
    \A j \in JobIds :
        jobs[j] # None /\ jobs[j].status = "queued" => HasEntry(j) \/ Enqueueing(j)

(* A job is shown as succeeded only once its file lists the variants: the  *)
(* page never announces thumbnails that cannot be asked for, whichever of  *)
(* the two updates of a report fails or races with another report.         *)
SucceededIsPublished ==
    \A j \in JobIds : jobs[j] # None /\ jobs[j].status = "succeeded"
                        => files[jobs[j].file].variants = VariantNames

(* What a file publishes is in the bucket, and its original is the one     *)
(* without metadata, unless the deletion of the file has begun.            *)
PublishedExists ==
    \A f \in FileIds : HasRow(f) /\ files[f].variants # {} =>
        \/ orig[f] # None /\ orig[f].form = "stripped" /\ derived[f] = DerivedNames
        \/ Running(f, {"d_row"})

\* No request, report or entry is under way.
Quiet ==
    /\ cursor = Len(stream) /\ pending = {}
    /\ \A h \in Handlers : req[h].pc = "idle"
    /\ \A w \in Workers : finish[w].pc = "none" /\ worker[w].pc \in {"claim", "read"}

(* When nothing is under way any more, every job is settled and a file     *)
(* shows what one of its jobs came to, although the two rows are written   *)
(* one after the other, by the requests of several callers.                *)
JobsOf(f) == {j \in JobIds : jobs[j] # None /\ jobs[j].file = f}
Agrees(fileStatus, jobStatus) ==
    <<fileStatus, jobStatus>> \in {<<"ready", "succeeded">>, <<"failed", "failed">>}
StatusAgrees ==
    Quiet => \A f \in FileIds : HasRow(f) /\ JobsOf(f) # {} =>
        /\ \A j \in JobsOf(f) : jobs[j].status \in {"succeeded", "failed"}
        /\ \E j \in JobsOf(f) : Agrees(files[f].status, jobs[j].status)

(* settle.js sets a failure aside before it acknowledges: the last entry   *)
(* of a job that ended as failed is in media:jobs:dlq.                     *)
FailureIsKept ==
    Quiet => \A j \in JobIds : jobs[j] # None /\ jobs[j].status = "failed" =>
        \E e \in dlq : stream[e].job = j /\ \A later \in Entries : stream[later].job = j => later <= e

(* What the drive page says of an image whose upload was completed: its    *)
(* thumbnail appears once the processor is done.  With images sharp can    *)
(* read and no failures, every job that is left in the end has succeeded.  *)
ThumbnailsAppear ==
    Quiet => \A j \in JobIds : jobs[j] # None => jobs[j].status = "succeeded"

(* A queued job is eventually finished, or deleted with its file.          *)
QueuedIsSettled ==
    \A j \in JobIds : (jobs[j] # None /\ jobs[j].status = "queued")
                        ~> (jobs[j] = None \/ jobs[j].status \in {"succeeded", "failed"})

(* An entry that is delivered is acknowledged in the end, failures and     *)
(* dead workers included -- or its file is deleted: then finish answers    *)
(* 404 to each report and the entry is claimed again and again, although   *)
(* settle.js wants no endless retries.                                     *)
EntriesAreSettled ==
    \A e \in 1 .. MaxEntries : e \in pending ~> e \notin pending \/ ~HasRow(stream[e].file)
=============================================================================
