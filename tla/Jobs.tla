-------------------------------- MODULE Jobs --------------------------------
(***************************************************************************)
(* How a job gets onto media:jobs: the last steps of Complete, which       *)
(* RetryJob repeats for a failed job.  A job row is queued before its      *)
(* stream entry exists, so every step between the two may be the last one. *)
(***************************************************************************)
EXTENDS MediaBase

CONSTANT MaxEntries   \* bound: RetryJob starts only while the stream is shorter

ASSUME JobsAssumption == MaxEntries \in Nat

(* RetryJob: jobOwnedBy reads the job and its file; only a failed job may  *)
(* be retried.  A refusal changes nothing and is not a step.               *)
RetryStart(h) ==
    /\ Len(stream) < MaxEntries
    /\ \E p \in Principals, j \in JobIds :
        /\ jobs[j] # None
        /\ OwnedBy(jobs[j].file, p)
        /\ jobs[j].status = "failed"
        /\ Accept(h, "r_queued", p, jobs[j].file, j, "image", 0)
    /\ UNCHANGED <<storeVars, objectVars, urls, stream>>

\* UpdateJob(queued); the job may have gone with its file.
RetryQueued(h) ==
    /\ req[h].pc = "r_queued"
    /\ UpdateJob(req[h].job, "queued")
    /\ GotoIf(h, jobs[req[h].job] # None, "pend")
    /\ UNCHANGED <<files, quota, issued, objectVars, urls, stream>>

\* SetFileStatus(pending), of Complete and of RetryJob.
MarkPending(h) ==
    /\ req[h].pc = "pend"
    /\ SetFileStatus(req[h].file, "pending")
    /\ GotoIf(h, HasRow(req[h].file), "enq")
    /\ UNCHANGED <<jobs, quota, issued, objectVars, urls, stream>>

\* XADD media:jobs.
EnqueueOK(h) ==
    /\ req[h].pc = "enq"
    /\ Enqueue(req[h].job, req[h].file)
    /\ Return(h)
    /\ UNCHANGED <<storeVars, objectVars, urls>>

\* Slip: the error of XADD is returned and nothing is undone.
EnqueueFailsQuietly(h) ==
    /\ req[h].pc = "enq"
    /\ "queue" \in Faults
    /\ Enqueue(req[h].job, req[h].file) \/ UNCHANGED stream
    /\ Return(h)
    /\ UNCHANGED <<storeVars, objectVars, urls>>

\* XADD reports an error; the entry may have been added all the same.
EnqueueFails(h) ==
    /\ req[h].pc = "enq"
    /\ "queue" \in Faults
    /\ Enqueue(req[h].job, req[h].file) \/ UNCHANGED stream
    /\ Goto(h, "undo_job")
    /\ UNCHANGED <<storeVars, objectVars, urls>>

\* After a failed XADD: UpdateJob(failed, "enqueue failed"), its error ignored.
UndoJob(h) ==
    /\ req[h].pc = "undo_job"
    /\ \/ UpdateJob(req[h].job, "failed")
       \/ "store" \in Faults /\ UNCHANGED jobs
    /\ Goto(h, "undo_file")
    /\ UNCHANGED <<files, quota, issued, objectVars, urls, stream>>

\* ... then SetFileStatus(failed), its error ignored too.
UndoFile(h) ==
    /\ req[h].pc = "undo_file"
    /\ \/ SetFileStatus(req[h].file, "failed")
       \/ "store" \in Faults /\ UNCHANGED files
    /\ Return(h)
    /\ UNCHANGED <<jobs, quota, issued, objectVars, urls, stream>>

(***************************************************************************)
(* The request ends early: the API process dies, the client hangs up and   *)
(* cancels the context of the next call, or a call fails whose error the   *)
(* handler returns at once.  What was done stays done.                     *)
(***************************************************************************)
Abort(h) ==
    /\ "abort" \in Faults
    /\ req[h].pc # "idle"
    /\ Return(h)
    /\ UNCHANGED <<storeVars, objectVars, urls, stream>>

JobsStep(h) ==
    \/ RetryStart(h) \/ RetryQueued(h)
    \/ MarkPending(h) \/ EnqueueOK(h) \/ EnqueueFails(h)
    \/ UndoJob(h) \/ UndoFile(h)
    \/ Abort(h)
=============================================================================
