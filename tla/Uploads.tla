------------------------------- MODULE Uploads -------------------------------
(***************************************************************************)
(* The life of a file in service.Media: Presign, the client's PUT,         *)
(* Complete and DeleteFile, for any number of requests served at once.     *)
(* charged and refunded are history variables: the bytes AddQuota has      *)
(* added for a file, and each refund DeleteFile has made for it.           *)
(***************************************************************************)
EXTENDS Jobs, FiniteSetsExt

VARIABLES
    charged,   \* bytes added to the quota on behalf of each file
    refunds    \* the sizes DeleteFile gave back for each file, in order

ghostVars == <<charged, refunds>>
baseVars == <<storeVars, objectVars, urls, stream, req>>
uploadsVars == <<baseVars, ghostVars>>

-----------------------------------------------------------------------------
(* Presign                                                                 *)

(* The argument checks and GetQuotaUsed.  A Complete or another Presign    *)
(* may change the quota before the row is made.                            *)
PresignCheck(h) ==
    /\ \E p \in Principals, kind \in Kinds, size \in {c.size : c \in ClientContents} :
        /\ size > 0
        /\ size <= MaxUpload
        /\ quota[QuotaSubject(p)] + size <= QuotaLimit
        /\ Accept(h, "p_create", p, None, None, kind, size)
    /\ UNCHANGED <<storeVars, objectVars, urls, stream, ghostVars>>

(* CreatePendingFile with a fresh id, then PresignPut, which only signs.   *)
(* When signing fails, or the INSERT commits and still reports an error,   *)
(* the row stays and nobody holds a URL.                                   *)
PresignCreate(h) ==
    /\ req[h].pc = "p_create"
    /\ \E f \in FileIds \ issued :
        /\ CreatePendingFile(f, req[h].who, req[h].kind, req[h].size)
        /\ issued' = issued \cup {f}
        /\ \/ urls' = urls \cup {f}
           \/ Faults \cap {"object", "ack"} # {} /\ UNCHANGED urls
    /\ Return(h)
    /\ UNCHANGED <<jobs, quota, objectVars, stream, ghostVars>>

\* The client PUTs to its URL, as often as it likes while the URL is valid.
Put(f) ==
    /\ f \in urls
    /\ \E c \in ClientContents : orig' = [orig EXCEPT ![f] = c]
    /\ UNCHANGED <<storeVars, derived, urls, stream, req, ghostVars>>

-----------------------------------------------------------------------------
(* Complete                                                                *)

\* GetFile and the owner and status checks; a refusal changes nothing.
CompleteStart(h) ==
    /\ \E p \in Principals, f \in FileIds :
        /\ OwnedBy(f, p)
        /\ files[f].status = "pending"
        /\ Accept(h, "c_stat", p, f, None, files[f].kind, 0)
    /\ UNCHANGED <<storeVars, objectVars, urls, stream, ghostVars>>

(* Stat.  The ETag of the request body is one the client was given for a   *)
(* PUT of its own, or none; whether it is the object's is settled here.    *)
CompleteStat(h) ==
    LET got == orig[req[h].file] IN
    /\ req[h].pc = "c_stat"
    /\ \/ got = None /\ Return(h)
       \/ got # None /\ got.size > MaxUpload /\ Goto(h, "c_drop")
       \/ /\ got # None
          /\ got.size <= MaxUpload
          /\ \E quoted \in ClientContents \cup {None} :
                req' = [req EXCEPT ![h] =
                           [@ EXCEPT !.pc = "c_head", !.size = got.size,
                                     !.etag = IF quoted = got THEN "match" ELSE "differ"]]
    /\ UNCHANGED <<storeVars, objectVars, urls, stream, ghostVars>>

\* objects.Delete on the way out, its error ignored.
CompleteDrop(h) ==
    /\ req[h].pc = "c_drop"
    /\ \/ DeleteObject(req[h].file)
       \/ "object" \in Faults /\ UNCHANGED objectVars
    /\ Return(h)
    /\ UNCHANGED <<storeVars, urls, stream, ghostVars>>

(* ReadHead, MatchesUpload and the ETag comparison.  Reading an object     *)
(* that is gone, or that is empty, is an error.                            *)
CompleteHead(h) ==
    LET got == orig[req[h].file]
        readable == got # None /\ got.size > 0
        expected == readable /\ got.kind = req[h].kind
    IN
    /\ req[h].pc = "c_head"
    /\ \/ (~readable \/ "object" \in Faults) /\ Goto(h, "c_drop")
       \/ readable /\ ~expected /\ Goto(h, "c_rej_obj")
       \/ expected /\ GotoIf(h, req[h].etag = "match", "c_charge")
    /\ UNCHANGED <<storeVars, objectVars, urls, stream, ghostVars>>

\* The content is not what was announced: the object goes, then the row.
RejectObject(h) ==
    /\ req[h].pc = "c_rej_obj"
    /\ \/ DeleteObject(req[h].file)
       \/ "object" \in Faults /\ UNCHANGED objectVars
    /\ Goto(h, "c_rej_row")
    /\ UNCHANGED <<storeVars, urls, stream, ghostVars>>

RejectRow(h) ==
    /\ req[h].pc = "c_rej_row"
    /\ \/ DeleteFileRow(req[h].file)
       \/ "store" \in Faults /\ UNCHANGED <<files, jobs>>
    /\ Return(h)
    /\ UNCHANGED <<quota, issued, objectVars, urls, stream, ghostVars>>

\* Slip: the announced size is charged instead of the size in the bucket.
CompleteChargeAnnounced(h) ==
    LET f == req[h].file
        size == IF HasRow(f) THEN files[f].size ELSE 0
    IN
    /\ req[h].pc = "c_charge"
    /\ QuotaAllows(QuotaSubject(req[h].who), size)
    /\ AddQuota(QuotaSubject(req[h].who), size)
    /\ charged' = [charged EXCEPT ![f] = @ + size]
    /\ Goto(h, "c_ready")
    /\ UNCHANGED <<files, jobs, issued, objectVars, urls, stream, refunds>>

(* AddQuota(+size).  Over the limit, or on any error, the uploaded object  *)
(* is deleted.  With "ack" the commit may have happened all the same.      *)
CompleteCharge(h) ==
    LET s == QuotaSubject(req[h].who)
        f == req[h].file
        size == req[h].size
        charge == /\ QuotaAllows(s, size)
                  /\ AddQuota(s, size)
                  /\ charged' = [charged EXCEPT ![f] = @ + size]
    IN
    /\ req[h].pc = "c_charge"
    /\ \/ charge /\ Goto(h, "c_ready")
       \/ "ack" \in Faults /\ charge /\ Goto(h, "c_drop")
       \/ /\ ~QuotaAllows(s, size) \/ "store" \in Faults
          /\ Goto(h, "c_drop")
          /\ UNCHANGED <<quota, charged>>
    /\ UNCHANGED <<files, jobs, issued, objectVars, urls, stream, refunds>>

\* MarkFileReady; a document is done here, an image goes on to its job.
CompleteReady(h) ==
    /\ req[h].pc = "c_ready"
    /\ MarkFileReady(req[h].file, req[h].size)
    /\ GotoIf(h, HasRow(req[h].file) /\ req[h].kind = "image", "c_job")
    /\ UNCHANGED <<jobs, quota, issued, objectVars, urls, stream, ghostVars>>

(* CreateJob with a fresh id; the foreign key refuses a job without file.  *)
(* JobIds bounds the jobs: a Complete that finds no id left waits for ever.*)
CompleteJob(h) ==
    /\ req[h].pc = "c_job"
    /\ \/ HasRow(req[h].file) /\ \E j \in JobIds \ issued :
            /\ CreateJob(j, req[h].file)
            /\ issued' = issued \cup {j}
            /\ req' = [req EXCEPT ![h] = [@ EXCEPT !.pc = "pend", !.job = j]]
       \/ ~HasRow(req[h].file) /\ Return(h) /\ UNCHANGED <<jobs, issued>>
    /\ UNCHANGED <<files, quota, objectVars, urls, stream, ghostVars>>

-----------------------------------------------------------------------------
(* DeleteFile                                                              *)

\* GetFile and the owner check; the size given back later is the one read here.
DeleteStart(h) ==
    /\ \E p \in Principals, f \in FileIds :
        /\ OwnedBy(f, p)
        /\ Accept(h, "d_objs", p, f, None, files[f].kind, files[f].size)
    /\ UNCHANGED <<storeVars, objectVars, urls, stream, ghostVars>>

\* DeletePrefix; when the bucket fails, some of the objects may be gone.
DeleteObjects(h) ==
    LET f == req[h].file IN
    /\ req[h].pc = "d_objs"
    /\ \/ DeletePrefix(f) /\ Goto(h, "d_row")
       \/ /\ "object" \in Faults
          /\ \E kept \in SUBSET derived[f] : derived' = [derived EXCEPT ![f] = kept]
          /\ orig' \in {orig, [orig EXCEPT ![f] = None]}
          /\ Return(h)
    /\ UNCHANGED <<storeVars, urls, stream, ghostVars>>

\* Slip: a DELETE that hits no row counts as a deletion all the same.
DeleteRowOrNone(h) ==
    /\ req[h].pc = "d_row"
    /\ DeleteFileRow(req[h].file)
    /\ GotoIf(h, req[h].size # 0, "d_refund")
    /\ UNCHANGED <<quota, issued, objectVars, urls, stream, ghostVars>>

\* store.DeleteFile: only the request whose DELETE hits the row goes on.
DeleteRow(h) ==
    /\ req[h].pc = "d_row"
    /\ DeleteFileRow(req[h].file)
    /\ GotoIf(h, HasRow(req[h].file) /\ req[h].size # 0, "d_refund")
    /\ UNCHANGED <<quota, issued, objectVars, urls, stream, ghostVars>>

\* AddQuota(-SizeBytes): the size of the row as DeleteFile first read it.
DeleteRefund(h) ==
    LET f == req[h].file IN
    /\ req[h].pc = "d_refund"
    /\ AddQuota(QuotaSubject(req[h].who), -req[h].size)
    /\ refunds' = [refunds EXCEPT ![f] = Append(@, req[h].size)]
    /\ Return(h)
    /\ UNCHANGED <<files, jobs, issued, objectVars, urls, stream, charged>>

-----------------------------------------------------------------------------
UploadsInit ==
    /\ BaseInit
    /\ charged = [f \in FileIds |-> 0]
    /\ refunds = [f \in FileIds |-> <<>>]

PresignStep(h) == PresignCheck(h) \/ PresignCreate(h)
CompleteStep(h) ==
    \/ CompleteStart(h) \/ CompleteStat(h) \/ CompleteDrop(h) \/ CompleteHead(h)
    \/ RejectObject(h) \/ RejectRow(h)
    \/ CompleteCharge(h) \/ CompleteReady(h) \/ CompleteJob(h)
DeleteStep(h) == DeleteStart(h) \/ DeleteObjects(h) \/ DeleteRow(h) \/ DeleteRefund(h)

UploadsNext ==
    \/ \E f \in FileIds : Put(f)
    \/ \E h \in Handlers :
        \/ PresignStep(h) \/ CompleteStep(h) \/ DeleteStep(h)
        \/ JobsStep(h) /\ UNCHANGED ghostVars

UploadsSpec == UploadsInit /\ [][UploadsNext]_uploadsVars

-----------------------------------------------------------------------------
(* Properties                                                              *)

TypeOK ==
    /\ BaseTypeOK
    /\ charged \in [FileIds -> Nat]
    /\ refunds \in [FileIds -> Seq(Nat)]

(* The limit holds whatever is uploaded at the same time: Presign checks a *)
(* quota that is stale when the bytes arrive, and only AddQuota decides.   *)
UsedWithinLimit == \A s \in Subjects : quota[s] <= QuotaLimit

(* However many DeleteFile requests race for a file, at most one of them   *)
(* gives its size back: the one whose DELETE removed the row.              *)
RefundOnce == \A f \in FileIds : Len(refunds[f]) <= 1

(* Why RefundOnce holds: a request gives bytes back only after it has seen *)
(* its own DELETE remove the row, and the row of an id is never made again.*)
Refunding(h) == req[h].pc = "d_refund"
RefundInv ==
    /\ \A f \in FileIds : HasRow(f) => f \in issued /\ refunds[f] = <<>>
    /\ \A f \in FileIds : f \notin issued => refunds[f] = <<>>
    /\ \A f \in FileIds : Len(refunds[f]) <= 1
    /\ \A h \in Handlers : Refunding(h) =>
        /\ req[h].file \in issued
        /\ ~HasRow(req[h].file)
        /\ refunds[req[h].file] = <<>>
    /\ \A h, g \in Handlers : Refunding(h) /\ Refunding(g) /\ h # g => req[h].file # req[g].file
    /\ \A h \in Handlers : req[h].pc \in {"d_objs", "d_row", "d_refund"} => req[h].file \in FileIds

Running(f, pcs) == \E h \in Handlers : req[h].pc \in pcs /\ req[h].file = f

\* Complete has taken the file at least once: MarkFileReady was reached.
Completed(f) == HasRow(f) /\ (files[f].status # "pending" \/ files[f].variants # {}
                              \/ \E j \in JobIds : jobs[j] # None /\ jobs[j].file = f)

(* Every file a Complete has taken is paid for: no order of Completes,     *)
(* deletes, retries and failures shows a ready or failed file, or runs a   *)
(* job for one, whose bytes were not added to the quota first.             *)
CompletedIsCharged ==
    \A f \in FileIds : Completed(f) => charged[f] >= files[f].size

CompletedBytes(s) ==
    MapThenSumSet(LAMBDA f : files[f].size,
                  {f \in FileIds : Completed(f) /\ QuotaSubject(files[f].owner) = s})
TotalRefunded(f) == IF refunds[f] = <<>> THEN 0 ELSE Head(refunds[f])

(* The quota never falls below what the live files of its subject occupy,  *)
(* as long as no refund was made for bytes that had not been charged: the  *)
(* races of Completes and deletes and every failure between two calls can  *)
(* only leave a subject charged too much, never too little.                *)
QuotaCoversCompleted ==
    (\A f \in FileIds : TotalRefunded(f) <= charged[f]) =>
        \A s \in Subjects : quota[s] >= CompletedBytes(s)

(* What the drive page says of the quota shown on it: it grows with an     *)
(* upload and returns with a delete.  Between requests, a subject uses     *)
(* exactly the bytes of its completed files.                               *)
QuotaMatchesDrive ==
    (\A h \in Handlers : req[h].pc = "idle") =>
        \A s \in Subjects : quota[s] = CompletedBytes(s)

(* A deleted file stays deleted: the late UPDATE of a Complete, a retry or *)
(* a job does not bring its row back, and no job outlives it.              *)
NothingOutlivesDelete ==
    [][\A f \in FileIds : f \in issued /\ ~HasRow(f) =>
        /\ ~HasRow(f)'
        /\ \A j \in JobIds : (jobs[j] # None)' => (jobs[j].file # f)']_uploadsVars
=============================================================================
