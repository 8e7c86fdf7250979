------------------------------ MODULE MediaBase ------------------------------
(***************************************************************************)
(* The state every part of pf-media shares, and the calls that change it:  *)
(* the PostgreSQL rows of apps/api/internal/store/postgres, the objects    *)
(* of the S3 bucket, the Redis stream media:jobs and the API requests in   *)
(* flight.  One call of the store, of the bucket or of Redis is one atomic *)
(* step; whatever a handler computes between two calls is part of the step *)
(* of the call before it.                                                  *)
(***************************************************************************)
EXTENDS Integers, FiniteSets, Sequences

CONSTANTS
    Principals,      \* callers: records [sub, org], as auth.User
    FileIds,         \* ids id.New() may return for files
    JobIds,          \* ids id.New() may return for jobs
    Handlers,        \* API requests served at the same time
    ClientContents,  \* the contents clients upload
    MaxUpload,       \* MEDIA_MAX_UPLOAD_BYTES
    QuotaLimit,      \* MEDIA_QUOTA_BYTES
    Faults,          \* the kinds of failure the environment may inject
    None             \* absent row, object, caller or id

Kinds == {"image", "doc"}
Forms == {"raw", "broken", "stripped"}

(***************************************************************************)
(* What matters of an object: its size, what its first bytes sniff as, and *)
(* whether it is as the client sent it (raw), sent with an image header    *)
(* sharp cannot decode (broken), or re-encoded by the processor (stripped).*)
(* Two objects have one ETag exactly when they are equal.                  *)
(***************************************************************************)
Content == [size : Nat, kind : Kinds, form : Forms]

FaultKinds == {"abort", "ack", "object", "queue", "store", "worker"}

ASSUME MediaAssumption ==
    /\ Principals \subseteq [sub : STRING, org : STRING]
    /\ ClientContents \subseteq {c \in Content : c.form # "stripped"}
    /\ MaxUpload \in Nat
    /\ QuotaLimit \in Nat
    /\ Faults \subseteq FaultKinds
    /\ None \notin Principals \cup FileIds \cup JobIds \cup Content
    /\ FileIds \cap JobIds = {}

VARIABLES
    files,    \* table files: FileIds -> row or None
    jobs,     \* table jobs: JobIds -> row or None
    quota,    \* table user_quota: subject -> used_bytes
    issued,   \* ids handed out so far
    orig,     \* object user/<sub>/<file>/orig: FileIds -> Content or None
    derived,  \* the other variant objects present: FileIds -> SUBSET {detail, thumb}
    urls,     \* files whose presigned PUT URL is in a client's hands
    stream,   \* every entry ever added to media:jobs, in order
    req       \* Handlers -> the API request in flight

storeVars == <<files, jobs, quota, issued>>
objectVars == <<orig, derived>>

DerivedNames == {"detail", "thumb"}
VariantNames == {"orig"} \cup DerivedNames

FileStatus == {"pending", "ready", "failed"}
JobStatus == {"queued", "processing", "succeeded", "failed"}

FileRow == [owner : Principals, kind : Kinds, size : Nat,
            status : FileStatus, variants : SUBSET VariantNames]
JobRow == [file : FileIds, status : JobStatus]
\* JobMessage; the object key and the bucket follow from the file.
Message == [job : JobIds, file : FileIds]

\* An absent row is not a row.
ASSUME NoneAssumption == None \notin FileRow \cup JobRow

(***************************************************************************)
(* quotaSubject: members of an organisation share its quota, anyone else   *)
(* has their own.  strings.TrimSpace makes an all-blank org no org.        *)
(***************************************************************************)
BlankOrgs == {"", " "}
QuotaSubject(p) == IF p.org \in BlankOrgs THEN <<"user", p.sub>> ELSE <<"org", p.org>>
Subjects == {QuotaSubject(p) : p \in Principals}

ReqPCs == {"idle", "p_create",
           "c_stat", "c_drop", "c_head", "c_rej_obj", "c_rej_row",
           "c_charge", "c_ready", "c_job",
           "r_queued", "pend", "enq", "undo_job", "undo_file",
           "d_objs", "d_row", "d_refund"}

Request == [pc : ReqPCs, who : Principals \cup {None}, file : FileIds \cup {None},
            job : JobIds \cup {None}, kind : Kinds, size : Nat,
            etag : {"match", "differ"}]

IdleReq == [pc |-> "idle", who |-> None, file |-> None, job |-> None,
            kind |-> "doc", size |-> 0, etag |-> "differ"]

BaseInit ==
    /\ files = [f \in FileIds |-> None]
    /\ jobs = [j \in JobIds |-> None]
    /\ quota = [s \in Subjects |-> 0]
    /\ issued = {}
    /\ orig = [f \in FileIds |-> None]
    /\ derived = [f \in FileIds |-> {}]
    /\ urls = {}
    /\ stream = <<>>
    /\ req = [h \in Handlers |-> IdleReq]

FilesTypeOK == files \in [FileIds -> FileRow \cup {None}]
JobsTypeOK == jobs \in [JobIds -> JobRow \cup {None}]
QuotaTypeOK == quota \in [Subjects -> Nat]
ObjectsTypeOK ==
    /\ orig \in [FileIds -> Content \cup {None}]
    /\ derived \in [FileIds -> SUBSET DerivedNames]
StreamTypeOK == stream \in Seq(Message)

\* The requests, and which of their fields each pc relies on.
ReqTypeOK ==
    /\ req \in [Handlers -> Request]
    /\ \A h \in Handlers : req[h].pc # "idle" =>
          /\ req[h].who \in Principals
          /\ req[h].pc # "p_create" => req[h].file \in FileIds
          /\ req[h].pc \in {"r_queued", "pend", "enq", "undo_job", "undo_file"} =>
                req[h].job \in JobIds

BaseTypeOK ==
    /\ FilesTypeOK
    /\ JobsTypeOK
    /\ QuotaTypeOK
    /\ ObjectsTypeOK
    /\ StreamTypeOK
    /\ ReqTypeOK
    /\ issued \subseteq FileIds \cup JobIds
    /\ urls \subseteq FileIds

-----------------------------------------------------------------------------
(* The store.  An UPDATE of a row that is gone changes nothing; its caller *)
(* sees RowsAffected() = 0 as ErrNotFound.                                 *)

CreatePendingFile(f, p, kind, size) ==
    files' = [files EXCEPT ![f] = [owner |-> p, kind |-> kind, size |-> size,
                                   status |-> "pending", variants |-> {}]]

UpdateRow(f, row) == files' = IF files[f] = None THEN files ELSE [files EXCEPT ![f] = row]

MarkFileReady(f, size) ==
    UpdateRow(f, [files[f] EXCEPT !.status = "ready", !.size = size])

SetFileStatus(f, status) == UpdateRow(f, [files[f] EXCEPT !.status = status])

\* Slip: the status of the job written into the file.
UpdateVariantsSucceeded(f) ==
    UpdateRow(f, [files[f] EXCEPT !.variants = VariantNames, !.status = "succeeded"])

UpdateVariants(f) ==
    UpdateRow(f, [files[f] EXCEPT !.variants = VariantNames, !.status = "ready"])

CreateJob(j, f) == jobs' = [jobs EXCEPT ![j] = [file |-> f, status |-> "queued"]]

UpdateJob(j, status) ==
    jobs' = IF jobs[j] = None THEN jobs ELSE [jobs EXCEPT ![j].status = status]

\* Slip: the foreign key of jobs without ON DELETE CASCADE.
DeleteFileRowAlone(f) == files' = [files EXCEPT ![f] = None] /\ UNCHANGED jobs

\* DELETE FROM files; jobs.file_id is ON DELETE CASCADE.
DeleteFileRow(f) ==
    /\ files' = [files EXCEPT ![f] = None]
    /\ jobs' = [j \in JobIds |-> IF jobs[j] # None /\ jobs[j].file = f THEN None ELSE jobs[j]]

\* Slips: a limit that is passed before it is noticed, a refund without GREATEST(0, ..).
QuotaAllowsOnce(s, delta) == ~(delta > 0 /\ quota[s] >= QuotaLimit)
AddQuotaUnfloored(s, delta) == quota' = [quota EXCEPT ![s] = @ + delta]

\* AddQuota, as one transaction (PgQuota shows that it is one).
QuotaAllows(s, delta) == ~(delta > 0 /\ quota[s] + delta > QuotaLimit)
AddQuota(s, delta) ==
    quota' = [quota EXCEPT ![s] = IF @ + delta < 0 THEN 0 ELSE @ + delta]

-----------------------------------------------------------------------------
(* The bucket and the stream.                                              *)

DeleteObject(f) == orig' = [orig EXCEPT ![f] = None] /\ UNCHANGED derived
DeletePrefix(f) == orig' = [orig EXCEPT ![f] = None] /\ derived' = [derived EXCEPT ![f] = {}]
Enqueue(j, f) == stream' = Append(stream, [job |-> j, file |-> f])

-----------------------------------------------------------------------------
(* Requests.                                                               *)

\* A handler takes a request; what it has read so far goes with it.
Accept(h, pc, p, f, j, kind, size) ==
    /\ req[h].pc = "idle"
    /\ req' = [req EXCEPT ![h] = [pc |-> pc, who |-> p, file |-> f, job |-> j,
                                  kind |-> kind, size |-> size, etag |-> "differ"]]
Goto(h, pc) == req' = [req EXCEPT ![h].pc = pc]
Return(h) == req' = [req EXCEPT ![h] = IdleReq]
GotoIf(h, found, pc) == IF found THEN Goto(h, pc) ELSE Return(h)
HasRow(f) == files[f] # None
OwnedBy(f, p) == HasRow(f) /\ files[f].owner = p
=============================================================================
