------------------------------ MODULE Processor ------------------------------
(***************************************************************************)
(* The image workers of apps/processor and the finish handler of the API   *)
(* they report to.  Workers form one consumer group on media:jobs: an      *)
(* entry is delivered to one of them, stays pending until it is XACKed,    *)
(* and may be claimed by any of them once it has been pending for          *)
(* CLAIM_IDLE_MS.  A finish request outlives the worker that sent it.      *)
(***************************************************************************)
EXTENDS Jobs, SequencesExt

CONSTANTS
    Workers,        \* processor instances
    ClaimCount,     \* COUNT of XAUTOCLAIM
    MaxCrashes,     \* bound: times a worker may die or lose a reply
    SlowHandling    \* may an entry go idle while a worker is still on it?

ASSUME ProcessorAssumption ==
    /\ ClaimCount \in Nat \ {0}
    /\ MaxCrashes \in Nat
    /\ SlowHandling \in BOOLEAN
    /\ None \notin Nat

VARIABLES
    cursor,    \* last-delivered id of the group: entries up to it were read
    pending,   \* the group's pending entries list
    idle,      \* pending entries last delivered CLAIM_IDLE_MS ago or more
    dlq,       \* entries whose message was added to media:jobs:dlq
    worker,    \* Workers -> where main() and handle() stand
    finish,    \* Workers -> the finish request the worker sent last
    crashes    \* times a worker has died or lost a reply so far

groupVars == <<cursor, pending, idle, dlq>>
processorVars == <<groupVars, worker, finish, crashes>>

WorkerPCs == {"claim", "read", "get", "put_orig", "put_detail", "put_thumb",
              "report_ok", "wait_ok", "ack_ok",
              "report_err", "wait_err", "dlq", "ack_err"}
FinishPCs == {"none", "get_job", "variants", "job_ok", "job_failed", "file_failed",
              "ok", "error"}

Worker == [pc : WorkerPCs, batch : Seq(Nat), then : {"claim", "read"},
           image : Content \cup {None}]
Finish == [pc : FinishPCs, msg : Message \cup {None}, report : {"variants", "error"}]

StartWorker == [pc |-> "claim", batch |-> <<>>, then |-> "read", image |-> None]
NoFinish == [pc |-> "none", msg |-> None, report |-> "error"]

ToWorker(w, pc) == worker' = [worker EXCEPT ![w].pc = pc]

\* The entry worker w is on, and its message.
EntryOf(w) == Head(worker[w].batch)
FileOf(w) == stream[EntryOf(w)].file

\* The loops of main(): the entries just obtained one by one, then the next call.
Handle(w, batch, then) ==
    worker' = [worker EXCEPT ![w] =
        [StartWorker EXCEPT !.pc = IF batch = <<>> THEN then ELSE "get",
                            !.batch = batch, !.then = then]]
Handled(w) == Handle(w, Tail(worker[w].batch), worker[w].then)

-----------------------------------------------------------------------------
(* main(): claimIdle, then XREADGROUP                                      *)

\* Slip: claimIdle always comes back empty.
ClaimNothing(w) ==
    /\ worker[w].pc = "claim"
    /\ Handle(w, <<>>, "read")
    /\ UNCHANGED <<cursor, pending, idle, dlq, finish, crashes>>

(* XAUTOCLAIM hands over the oldest idle entries, which are then pending   *)
(* anew.  claimIdle turns an error into an empty list.                     *)
ClaimIdle(w) ==
    /\ worker[w].pc = "claim"
    /\ \/ LET oldest == {e \in idle : Cardinality({d \in idle : d < e}) < ClaimCount} IN
          /\ idle' = idle \ oldest
          /\ \E batch \in [1 .. Cardinality(oldest) -> oldest] :
                /\ \A m, n \in DOMAIN batch : m < n => batch[m] < batch[n]
                /\ Handle(w, batch, "read")
       \/ "queue" \in Faults /\ Handle(w, <<>>, "read") /\ UNCHANGED idle
    /\ UNCHANGED <<cursor, pending, dlq, finish, crashes>>

\* Slip: XREADGROUP with NOACK, which leaves nothing pending.
ReadGroupNoAck(w) ==
    /\ worker[w].pc = "read"
    /\ \/ cursor < Len(stream) /\ cursor' = cursor + 1 /\ Handle(w, <<cursor + 1>>, "claim")
       \/ cursor = Len(stream) /\ Handle(w, <<>>, "claim") /\ UNCHANGED cursor
    /\ UNCHANGED <<pending, idle, dlq, finish, crashes>>

\* XREADGROUP COUNT 1: the next undelivered entry, or nothing after BLOCK.
ReadGroup(w) ==
    /\ worker[w].pc = "read"
    /\ \/ /\ cursor < Len(stream)
          /\ cursor' = cursor + 1
          /\ pending' = pending \cup {cursor + 1}
          /\ Handle(w, <<cursor + 1>>, "claim")
       \/ /\ cursor = Len(stream)
          /\ Handle(w, <<>>, "claim")
          /\ UNCHANGED <<cursor, pending>>
    /\ UNCHANGED <<idle, dlq, finish, crashes>>

(* CLAIM_IDLE_MS pass for a pending entry.  Unless SlowHandling, a worker  *)
(* that has the entry gets through with it in less time.                   *)
Elapse ==
    /\ \E e \in pending \ idle :
        /\ SlowHandling \/ \A w \in Workers : e \notin Range(worker[w].batch)
        /\ idle' = idle \cup {e}
    /\ UNCHANGED <<cursor, pending, dlq, worker, finish, crashes>>

-----------------------------------------------------------------------------
(* handle(): deriveVariants                                                *)

\* getObject and processImage: no object, or an image sharp rejects, is a failure.
GetImage(w) ==
    LET got == orig[FileOf(w)]
        decodes == got # None /\ got.kind = "image" /\ got.form # "broken"
    IN
    /\ worker[w].pc = "get"
    /\ \/ decodes /\ worker' = [worker EXCEPT ![w].pc = "put_orig", ![w].image = got]
       \/ (~decodes \/ "object" \in Faults) /\ ToWorker(w, "report_err")
    /\ UNCHANGED <<groupVars, finish, crashes, objectVars>>

(* putObject of one variant, in the order processImage lists them.  orig   *)
(* replaces the upload; re-encoding may make it smaller or larger.         *)
PutVariant(w, pc, next) ==
    LET f == FileOf(w) IN
    /\ worker[w].pc = pc
    /\ \/ /\ ToWorker(w, next)
          /\ IF pc = "put_orig"
             THEN /\ \E size \in {c.size : c \in ClientContents} : orig' = [orig EXCEPT ![f] =
                            [size |-> size, kind |-> "image", form |-> "stripped"]]
                  /\ UNCHANGED derived
             ELSE /\ derived' = [derived EXCEPT ![f] =
                                    @ \cup {IF pc = "put_detail" THEN "detail" ELSE "thumb"}]
                  /\ UNCHANGED orig
       \/ "object" \in Faults /\ ToWorker(w, "report_err") /\ UNCHANGED objectVars
    /\ UNCHANGED <<groupVars, finish, crashes>>

PutVariants(w) ==
    \/ PutVariant(w, "put_orig", "put_detail")
    \/ PutVariant(w, "put_detail", "put_thumb")
    \/ PutVariant(w, "put_thumb", "report_ok")

-----------------------------------------------------------------------------
(* handle() and settleFailure(): finishJob, then Redis                     *)

(* POST /internal/v1/jobs/{id}/finish.  Bound: a worker whose earlier      *)
(* request is still being served waits for that to end first.              *)
SendFinish(w) ==
    /\ finish[w].pc \in {"none", "ok", "error"}
    /\ \/ worker[w].pc = "report_ok" /\ ToWorker(w, "wait_ok")
       \/ worker[w].pc = "report_err" /\ ToWorker(w, "wait_err")
    /\ finish' = [finish EXCEPT ![w] =
            [pc |-> "get_job", msg |-> stream[EntryOf(w)],
             report |-> IF worker[w].pc = "report_ok" THEN "variants" ELSE "error"]]
    /\ UNCHANGED <<groupVars, crashes>>

\* finishJob returns or throws on !res.ok.
GetReply(w) ==
    LET reported == finish[w].pc = "ok" IN
    /\ worker[w].pc \in {"wait_ok", "wait_err"}
    /\ finish[w].pc \in {"ok", "error"}
    /\ \/ reported /\ worker[w].pc = "wait_ok" /\ ToWorker(w, "ack_ok")
       \/ reported /\ worker[w].pc = "wait_err" /\ ToWorker(w, "dlq")
       \/ ~reported /\ Handled(w)
    /\ finish' = [finish EXCEPT ![w] = NoFinish]
    /\ UNCHANGED <<groupVars, crashes>>

\* xAck after a success; its error is caught and the entry stays pending.
AckProcessed(w) ==
    /\ worker[w].pc = "ack_ok"
    /\ \/ pending' = pending \ {EntryOf(w)} /\ idle' = idle \ {EntryOf(w)}
       \/ "queue" \in Faults /\ UNCHANGED <<pending, idle>>
    /\ Handled(w)
    /\ UNCHANGED <<cursor, dlq, finish, crashes>>

\* Slip: a failure is acknowledged like a success.
AddNothingToDlq(w) ==
    /\ worker[w].pc = "dlq"
    /\ ToWorker(w, "ack_err")
    /\ UNCHANGED <<groupVars, finish, crashes>>

\* dlq-then-ack: a failed report the API took is copied to the DLQ first.
AddToDlq(w) ==
    /\ worker[w].pc = "dlq"
    /\ dlq' = dlq \cup {EntryOf(w)}
    /\ ToWorker(w, "ack_err")
    /\ UNCHANGED <<cursor, pending, idle, finish, crashes>>

AckFailed(w) ==
    /\ worker[w].pc = "ack_err"
    /\ pending' = pending \ {EntryOf(w)}
    /\ idle' = idle \ {EntryOf(w)}
    /\ Handled(w)
    /\ UNCHANGED <<cursor, dlq, finish, crashes>>

(***************************************************************************)
(* The worker's process ends at any point and is started again: main()     *)
(* rejects when Redis does in xReadGroup or in settleFailure, the pod is   *)
(* replaced, the host fails.  Its finish request may still be served.      *)
(***************************************************************************)
Crash(w) ==
    /\ "worker" \in Faults
    /\ crashes < MaxCrashes
    /\ crashes' = crashes + 1
    /\ worker' = [worker EXCEPT ![w] = StartWorker]
    /\ UNCHANGED <<groupVars, finish>>

\* fetch rejects although the request reached the API, which goes on serving it.
LoseReply(w) ==
    /\ "worker" \in Faults
    /\ crashes < MaxCrashes
    /\ crashes' = crashes + 1
    /\ worker[w].pc \in {"wait_ok", "wait_err"}
    /\ Handled(w)
    /\ UNCHANGED <<groupVars, finish>>

-----------------------------------------------------------------------------
(* service.Media.FinishJob                                                 *)

ToFinish(w, pc) == finish' = [finish EXCEPT ![w].pc = pc]

\* Slip: the error field of the report is not looked at.
FinishGetJobAsSuccess(w) ==
    /\ finish[w].pc = "get_job"
    /\ ToFinish(w, IF jobs[finish[w].msg.job] = None THEN "error" ELSE "variants")
    /\ UNCHANGED <<files, jobs>>

\* GetJob.
FinishGetJob(w) ==
    LET m == finish[w].msg IN
    /\ finish[w].pc = "get_job"
    /\ \/ jobs[m.job] = None /\ ToFinish(w, "error")
       \/ /\ jobs[m.job] # None
          /\ ToFinish(w, IF finish[w].report = "error" THEN "job_failed" ELSE "variants")
    /\ UNCHANGED <<files, jobs>>

\* Slip: an error of UpdateVariants is ignored, as those of a reported failure are.
FinishVariantsUnchecked(w) ==
    /\ finish[w].pc = "variants"
    /\ \/ UpdateVariants(finish[w].msg.file)
       \/ "store" \in Faults /\ UNCHANGED files
    /\ ToFinish(w, "job_ok")
    /\ UNCHANGED jobs

\* A reported success: UpdateVariants publishes them and makes the file ready.
FinishVariants(w) ==
    LET f == finish[w].msg.file IN
    /\ finish[w].pc = "variants"
    /\ UpdateVariants(f)
    /\ ToFinish(w, IF HasRow(f) THEN "job_ok" ELSE "error")
    /\ UNCHANGED jobs

\* ... then UpdateJob(succeeded).
FinishSucceeded(w) ==
    LET j == finish[w].msg.job IN
    /\ finish[w].pc = "job_ok"
    /\ UpdateJob(j, "succeeded")
    /\ ToFinish(w, IF jobs[j] # None THEN "ok" ELSE "error")
    /\ UNCHANGED files

\* A reported failure: UpdateJob(failed) and SetFileStatus(failed), errors ignored.
FinishJobFailed(w) ==
    /\ finish[w].pc = "job_failed"
    /\ \/ UpdateJob(finish[w].msg.job, "failed")
       \/ "store" \in Faults /\ UNCHANGED jobs
    /\ ToFinish(w, "file_failed")
    /\ UNCHANGED files

\* Slip: the file keeps its status.
FinishFileKept(w) ==
    /\ finish[w].pc = "file_failed"
    /\ ToFinish(w, "ok")
    /\ UNCHANGED <<files, jobs>>

FinishFileFailed(w) ==
    /\ finish[w].pc = "file_failed"
    /\ \/ SetFileStatus(finish[w].msg.file, "failed")
       \/ "store" \in Faults /\ UNCHANGED files
    /\ ToFinish(w, "ok")
    /\ UNCHANGED jobs

\* The API dies, or a call whose error FinishJob returns fails.
FinishAborts(w) ==
    /\ "abort" \in Faults
    /\ finish[w].pc \in FinishPCs \ {"none", "ok", "error"}
    /\ ToFinish(w, "error")
    /\ UNCHANGED <<files, jobs>>

-----------------------------------------------------------------------------
GroupInit ==
    /\ cursor = 0
    /\ pending = {}
    /\ idle = {}
    /\ dlq = {}
    /\ worker = [w \in Workers |-> StartWorker]
    /\ finish = [w \in Workers |-> NoFinish]
    /\ crashes = 0

FinishStep(w) ==
    /\ \/ FinishGetJob(w) \/ FinishVariants(w) \/ FinishSucceeded(w)
       \/ FinishJobFailed(w) \/ FinishFileFailed(w) \/ FinishAborts(w)
    /\ UNCHANGED <<quota, issued, objectVars, urls, stream, req, groupVars, worker, crashes>>

ImageStep(w) ==
    /\ GetImage(w) \/ PutVariants(w)
    /\ UNCHANGED <<storeVars, urls, stream, req>>

QueueStep(w) ==
    /\ \/ ClaimIdle(w) \/ ReadGroup(w) \/ SendFinish(w) \/ GetReply(w)
       \/ AckProcessed(w) \/ AddToDlq(w) \/ AckFailed(w)
    /\ UNCHANGED <<storeVars, objectVars, urls, stream, req>>

FailStep ==
    /\ \E w \in Workers : Crash(w) \/ LoseReply(w)
    /\ UNCHANGED <<storeVars, objectVars, urls, stream, req>>

IdleStep == Elapse /\ UNCHANGED <<storeVars, objectVars, urls, stream, req>>

ProcessorNext ==
    \/ \E w \in Workers : QueueStep(w) \/ ImageStep(w) \/ FinishStep(w)
    \/ FailStep
    \/ IdleStep
=============================================================================
