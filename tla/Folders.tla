------------------------------- MODULE Folders -------------------------------
(***************************************************************************)
(* The folder tree of the drive: CreateFolder, Presign into a folder,      *)
(* DeleteFile, and DeleteFolder, which empties a tree row by row while     *)
(* other requests go on.  PostgreSQL keeps the tree together by foreign    *)
(* keys ON DELETE RESTRICT; the in-memory store of the tests does not.     *)
(* One step is one call of the store.  The objects and the quota of a      *)
(* deleted file are left to Uploads: their calls belong to the step of the *)
(* store call before them, and when one fails the request ends as Abort.   *)
(***************************************************************************)
EXTENDS Naturals, Sequences, FiniteSets, SequencesExt

CONSTANTS
    Callers,     \* records [sub, org], as auth.User
    FolderIds,   \* ids id.New() may return for folders
    FileIds,     \* ids id.New() may return for files
    Names,       \* folder names that folderNameOK takes
    Handlers,    \* API requests served at the same time
    Batch,       \* files deleteFolderTree lists at once
    MaxAborts,   \* bound: requests that end half-way
    Root,        \* the folder id ""
    None         \* absent row or id

ASSUME FoldersAssumption ==
    /\ Callers \subseteq [sub : STRING, org : STRING]
    /\ Batch \in Nat \ {0}
    /\ MaxAborts \in Nat
    /\ Root \notin FolderIds
    /\ None \notin Callers \cup FolderIds \cup FileIds \cup Names \cup {Root}

Places == FolderIds \cup {Root}
FolderRow == [owner : Callers, parent : Places, name : Names]
FileRow == [owner : Callers, folder : Places]
Answers == {"ok", "notfound", "forbidden", "conflict", "internal"}

\* An absent row is not a row.
ASSUME NoneAssumption == None \notin FolderRow \cup FileRow

VARIABLES
    folders,   \* table folders: FolderIds -> row or None
    files,     \* table files: FileIds -> row or None
    issued,    \* ids handed out so far
    req,       \* Handlers -> the API request in flight
    aborts     \* requests that ended half-way so far

tables == <<folders, files, issued>>
foldersVars == <<tables, req, aborts>>

(***************************************************************************)
(* A request.  stack holds the calls of deleteFolderTree, the innermost    *)
(* last, each with the children it has listed and not yet deleted; batch   *)
(* is what is left of the last listing of files.  alone: no other request  *)
(* has changed a table since this one began.                               *)
(***************************************************************************)
ReqPCs == {"idle", "mk", "up", "dirs", "files", "get", "row", "rmdir", "done"}
Frame == [dir : FolderIds, todo : SUBSET FolderIds]
Ops == {"none", "create", "presign", "folder", "file"}
Request == [op : Ops, pc : ReqPCs, who : Callers \cup {None}, target : Places \cup FileIds \cup {None},
            name : Names \cup {None}, stack : Seq(Frame), batch : SUBSET FileIds, full : BOOLEAN,
            file : FileIds \cup {None}, res : Answers, alone : BOOLEAN]
IdleReq == [op |-> "none", pc |-> "idle", who |-> None, target |-> None, name |-> None, stack |-> <<>>,
            batch |-> {}, full |-> FALSE, file |-> None, res |-> "ok", alone |-> TRUE]

Top(h) == Last(req[h].stack)

-----------------------------------------------------------------------------
(* The stores: what a call would answer now, and what it changes.          *)

HasFolder(d) == d = Root \/ folders[d] # None

\* Slip: the owner of the folder is not compared.
EnsureAnyFolder(who, d) == IF HasFolder(d) THEN "ok" ELSE "notfound"

\* ensureOwnedFolder
EnsureOwnedFolder(who, d) ==
    CASE d = Root -> "ok"
      [] d # Root /\ folders[d] = None -> "notfound"
      [] OTHER -> IF folders[d].owner = who THEN "ok" ELSE "forbidden"

ListFolders(who, d) ==
    {c \in FolderIds : folders[c] # None /\ folders[c].owner = who /\ folders[c].parent = d}
FilesIn(who, d) == {f \in FileIds : files[f] # None /\ files[f].owner = who /\ files[f].folder = d}

\* Slip: the folder is left out of the WHERE clause.
ListFilesAnywhere(who, d) ==
    LET all == {f \in FileIds : files[f] # None /\ files[f].owner = who}
    IN  {b \in SUBSET all : Cardinality(b) <= Batch /\ (Cardinality(b) = Batch \/ b = all)}

\* The listings LIMIT Batch may give: the newest, whichever these are.
ListFilesByOwner(who, d) ==
    LET all == FilesIn(who, d)
    IN  {b \in SUBSET all : Cardinality(b) <= Batch /\ (Cardinality(b) = Batch \/ b = all)}

FolderIsEmpty(d) ==
    /\ \A f \in FileIds : files[f] # None => files[f].folder # d
    /\ \A c \in FolderIds : folders[c] # None => folders[c].parent # d

\* Slip: without COALESCE two parents NULL are two different parents.
IndexHasNulls(row) ==
    \E d \in FolderIds : /\ folders[d] # None
                         /\ folders[d].owner.sub = row.owner.sub
                         /\ folders[d].parent = row.parent /\ row.parent # Root
                         /\ folders[d].name = row.name

\* The unique index (owner_sub, COALESCE(parent_id, ''), name), without org_id.
IndexHas(row) ==
    \E d \in FolderIds : /\ folders[d] # None
                         /\ folders[d].owner.sub = row.owner.sub
                         /\ folders[d].parent = row.parent
                         /\ folders[d].name = row.name

PgCreateFolder(row) ==
    CASE IndexHas(row) -> "conflict"
      [] ~IndexHas(row) /\ ~HasFolder(row.parent) -> "internal"
      [] OTHER -> "ok"
PgCreateFile(row) == IF HasFolder(row.folder) THEN "ok" ELSE "internal"

\* Slip: the error of the constraint goes through as it is.
PgDeleteFolderRaw(d) ==
    CASE folders[d] = None -> "notfound"
      [] folders[d] # None /\ ~FolderIsEmpty(d) -> "23503"
      [] OTHER -> "ok"

PgDeleteFolder(d) ==
    CASE folders[d] = None -> "notfound"
      [] folders[d] # None /\ ~FolderIsEmpty(d) -> "internal"
      [] OTHER -> "ok"

\* The in-memory store: no foreign keys, and names compared within the organisation.
MemCreateFolder(row) ==
    IF \E d \in FolderIds : folders[d] = row THEN "conflict" ELSE "ok"
MemDeleteFolder(d) == IF folders[d] = None THEN "notfound" ELSE "ok"

-----------------------------------------------------------------------------
(* Requests.                                                               *)

\* Whoever else is being served is no longer alone once a table changes.
Disturb(h) ==
    [g \in Handlers |-> IF g = h \/ req[g].pc \in {"idle", "done"} THEN req[g]
                                                                  ELSE [req[g] EXCEPT !.alone = FALSE]]
Update(h, r, changed) ==
    req' = [(IF changed THEN Disturb(h) ELSE req) EXCEPT ![h] = r]

\* The caller still knows what was asked for and what the answer is.
Answer(h, res) == [IdleReq EXCEPT !.op = req[h].op, !.pc = "done", !.target = req[h].target,
                                  !.res = res, !.alone = req[h].alone]

Accept(h, r) == req[h].pc = "idle" /\ Update(h, r, FALSE) /\ UNCHANGED <<tables, aborts>>
New(op, pc, who, target) == [IdleReq EXCEPT !.op = op, !.pc = pc, !.who = who, !.target = target]

\* CreateFolder and Presign, up to ensureOwnedFolder; a refusal changes nothing.
CreateStart(h) ==
    \E who \in Callers, d \in Places, name \in Names :
        /\ EnsureOwnedFolder(who, d) = "ok"
        /\ Accept(h, [New("create", "mk", who, d) EXCEPT !.name = name])

PresignStart(h) ==
    \E who \in Callers, d \in Places :
        /\ EnsureOwnedFolder(who, d) = "ok"
        /\ Accept(h, New("presign", "up", who, d))

\* id.New: never the same twice.  Nothing depends on which one it is.
NewId(ids) == CHOOSE i \in ids \ issued : TRUE

\* INSERT INTO folders: the folder checked before may be gone, the name taken.
CreateInsert(h) ==
    LET row == [owner |-> req[h].who, parent |-> req[h].target, name |-> req[h].name]
        res == PgCreateFolder(row)
    IN
    /\ req[h].pc = "mk"
    /\ \/ /\ res = "ok"
          /\ FolderIds \ issued # {}
          /\ folders' = [folders EXCEPT ![NewId(FolderIds)] = row]
          /\ issued' = issued \cup {NewId(FolderIds)}
          /\ Update(h, Answer(h, "ok"), TRUE)
       \/ res # "ok" /\ Update(h, Answer(h, res), FALSE) /\ UNCHANGED <<folders, issued>>
    /\ UNCHANGED <<files, aborts>>

PresignInsert(h) ==
    LET row == [owner |-> req[h].who, folder |-> req[h].target]
        res == PgCreateFile(row)
    IN
    /\ req[h].pc = "up"
    /\ \/ /\ res = "ok"
          /\ FileIds \ issued # {}
          /\ files' = [files EXCEPT ![NewId(FileIds)] = row]
          /\ issued' = issued \cup {NewId(FileIds)}
          /\ Update(h, Answer(h, "ok"), TRUE)
       \/ res # "ok" /\ Update(h, Answer(h, res), FALSE) /\ UNCHANGED <<files, issued>>
    /\ UNCHANGED <<folders, aborts>>

\* DeleteFolder: a folder that is not there is a success, somebody else's is not.
\* (Ids are random: nobody asks for one that was not handed out.)
DeleteFolderStart(h) ==
    \E who \in Callers, d \in FolderIds \cap issued :
        Accept(h, CASE EnsureOwnedFolder(who, d) = "notfound" ->
                           [New("folder", "done", who, d) EXCEPT !.res = "ok"]
                    [] EnsureOwnedFolder(who, d) = "forbidden" ->
                           [New("folder", "done", who, d) EXCEPT !.res = "forbidden"]
                    [] OTHER -> [New("folder", "dirs", who, d) EXCEPT !.stack = <<[dir |-> d, todo |-> {}]>>])

\* DeleteFile on its own: the file steps below with no folder around them.
DeleteFileStart(h) ==
    \E who \in Callers, f \in FileIds :
        /\ files[f] # None
        /\ files[f].owner = who
        /\ Accept(h, [New("file", "row", who, f) EXCEPT !.file = f])

\* The next child, or else the files, of the folder on top of the stack r has.
Descend(r) ==
    LET top == Last(r.stack) IN
    IF top.todo = {} THEN {[r EXCEPT !.pc = "files"]}
    ELSE {[r EXCEPT !.pc = "dirs",
                    !.stack = Append(Front(@), [top EXCEPT !.todo = @ \ {c}])
                                  \o <<[dir |-> c, todo |-> {}]>>] : c \in top.todo}

\* store.ListFolders in deleteFolderTree: once, before anything is deleted.
TreeListFolders(h) ==
    /\ req[h].pc = "dirs"
    /\ \E next \in Descend([req[h] EXCEPT !.stack =
                     Append(Front(@), [Top(h) EXCEPT !.todo = ListFolders(req[h].who, Top(h).dir)])]) :
          Update(h, next, FALSE)
    /\ UNCHANGED <<tables, aborts>>

\* store.ListFilesByOwner; an empty listing ends the loop.
TreeListFiles(h) ==
    /\ req[h].pc = "files"
    /\ \E b \in ListFilesByOwner(req[h].who, Top(h).dir) :
          Update(h, [req[h] EXCEPT !.pc = IF b = {} THEN "rmdir" ELSE "get",
                                   !.batch = b, !.full = Cardinality(b) = Batch], FALSE)
    /\ UNCHANGED <<tables, aborts>>

\* Slip: the files are listed once, as if there were one batch at most.
AfterFileOneBatch(h, r) ==
    CASE r.stack = <<>> -> Answer(h, "ok")
      [] r.stack # <<>> /\ r.batch # {} -> [r EXCEPT !.pc = "get", !.file = None]
      [] OTHER -> [r EXCEPT !.pc = "rmdir", !.file = None]

\* After a file: the next of the batch, the next batch, or the folder itself.
AfterFile(h, r) ==
    CASE r.stack = <<>> -> Answer(h, "ok")
      [] r.stack # <<>> /\ r.batch # {} -> [r EXCEPT !.pc = "get", !.file = None]
      [] OTHER -> [r EXCEPT !.pc = IF r.full THEN "files" ELSE "rmdir", !.file = None]

\* GetFile of DeleteFile: a listed file that is gone by now counts as deleted.
TreeGetFile(h) ==
    /\ req[h].pc = "get"
    /\ \E f \in req[h].batch :
          LET rest == [req[h] EXCEPT !.batch = @ \ {f}] IN
          Update(h, IF files[f] = None THEN AfterFile(h, rest)
                    ELSE [rest EXCEPT !.pc = "row", !.file = f], FALSE)
    /\ UNCHANGED <<tables, aborts>>

\* Slip: the row is only marked, and the listing does not mind the mark.
DeleteFileRowMarked(h) ==
    /\ req[h].pc = "row"
    /\ Update(h, AfterFile(h, req[h]), TRUE)
    /\ UNCHANGED <<tables, aborts>>

\* store.DeleteFile: a row that went after GetFile is ErrNotFound, for the tree too.
DeleteFileRow(h) ==
    LET f == req[h].file IN
    /\ req[h].pc = "row"
    /\ \/ files[f] # None /\ files' = [files EXCEPT ![f] = None] /\ Update(h, AfterFile(h, req[h]), TRUE)
       \/ files[f] = None /\ Update(h, Answer(h, "notfound"), FALSE) /\ UNCHANGED files
    /\ UNCHANGED <<folders, issued, aborts>>

\* Slip: the error of the last call is dropped.
TreeDeleteFolderQuietly(h) ==
    LET d == Top(h).dir IN
    /\ req[h].pc = "rmdir"
    /\ folders' = IF PgDeleteFolder(d) = "ok" THEN [folders EXCEPT ![d] = None] ELSE folders
    /\ IF Len(req[h].stack) = 1 THEN Update(h, Answer(h, "ok"), TRUE)
       ELSE \E next \in Descend([req[h] EXCEPT !.stack = Front(@)]) : Update(h, next, TRUE)
    /\ UNCHANGED <<files, issued, aborts>>

\* store.DeleteFolder, and the return into the call for the parent.
TreeDeleteFolder(h) ==
    LET d == Top(h).dir
        res == PgDeleteFolder(d)
    IN
    /\ req[h].pc = "rmdir"
    /\ \/ /\ res = "ok"
          /\ folders' = [folders EXCEPT ![d] = None]
          /\ IF Len(req[h].stack) = 1 THEN Update(h, Answer(h, "ok"), TRUE)
             ELSE \E next \in Descend([req[h] EXCEPT !.stack = Front(@)]) : Update(h, next, TRUE)
       \/ res # "ok" /\ Update(h, Answer(h, res), FALSE) /\ UNCHANGED folders
    /\ UNCHANGED <<files, issued, aborts>>

\* The reply reaches the caller.
Reply(h) ==
    /\ req[h].pc = "done"
    /\ Update(h, IdleReq, FALSE)
    /\ UNCHANGED <<tables, aborts>>

(* A call fails, the client hangs up or the API dies during a delete: what *)
(* was deleted stays deleted, and the caller is told at best that it       *)
(* failed.  (A creation that fails before its INSERT has changed nothing.) *)
Abort(h) ==
    /\ aborts < MaxAborts
    /\ aborts' = aborts + 1
    /\ req[h].pc \in {"dirs", "files", "get", "row", "rmdir"}
    /\ Update(h, [Answer(h, "internal") EXCEPT !.alone = FALSE], FALSE)
    /\ UNCHANGED tables

-----------------------------------------------------------------------------
FoldersInit ==
    /\ folders = [d \in FolderIds |-> None]
    /\ files = [f \in FileIds |-> None]
    /\ issued = {}
    /\ req = [h \in Handlers |-> IdleReq]
    /\ aborts = 0

Serve(h) ==
    \/ CreateInsert(h) \/ PresignInsert(h)
    \/ TreeListFolders(h) \/ TreeListFiles(h) \/ TreeGetFile(h)
    \/ DeleteFileRow(h) \/ TreeDeleteFolder(h)

FoldersNext ==
    \E h \in Handlers :
        \/ CreateStart(h) \/ PresignStart(h) \/ DeleteFolderStart(h) \/ DeleteFileStart(h)
        \/ Serve(h) \/ Reply(h) \/ Abort(h)

\* A handler that has taken a request runs to its end.
FoldersSpec ==
    /\ FoldersInit
    /\ [][FoldersNext]_foldersVars
    /\ \A h \in Handlers : WF_foldersVars(Serve(h))

-----------------------------------------------------------------------------
(* Properties                                                              *)

FoldersTypeOK ==
    /\ folders \in [FolderIds -> FolderRow \cup {None}]
    /\ files \in [FileIds -> FileRow \cup {None}]
    /\ issued \subseteq FolderIds \cup FileIds
    /\ req \in [Handlers -> Request]
    /\ aborts \in 0 .. MaxAborts

Deleting(h) == req[h].op = "folder"

(* A tree has one owner: what lies in a folder belongs to the folder's     *)
(* owner in the folder's organisation, although the check of the folder    *)
(* and the INSERT are two calls.  deleteFolderTree lists with the owner,   *)
(* so it could never empty a folder with anything else in it.              *)
TreeHasOneOwner ==
    /\ \A c \in FolderIds : folders[c] # None /\ folders[c].parent # Root =>
          HasFolder(folders[c].parent) /\ folders[folders[c].parent].owner = folders[c].owner
    /\ \A f \in FileIds : files[f] # None /\ files[f].folder # Root =>
          HasFolder(files[f].folder) /\ folders[files[f].folder].owner = files[f].owner

(* deleteFolderTree deletes files and folders of the tree it was asked for *)
(* and nothing else, whatever is created next to it.  (A folder t is d or  *)
(* above it when every way up from d comes to t: when t is in each set of  *)
(* places that has d and, with a folder, the folder it lies in.)           *)
Under(d, t) ==
    \A S \in SUBSET Places :
        d \in S /\ (\A c \in S \ {Root} : folders[c] # None => folders[c].parent \in S) => t \in S
OnlyTheTreeGoes ==
    [][/\ \A f \in FileIds : files[f] # None /\ files'[f] = None =>
            \E h \in Handlers : \/ req[h].target = f
                                \/ Deleting(h) /\ Under(files[f].folder, req[h].target)
       /\ \A d \in FolderIds : folders[d] # None /\ folders'[d] = None =>
            \E h \in Handlers : Deleting(h) /\ Under(d, req[h].target)]_foldersVars

(* A folder delete that no other request disturbs succeeds and leaves      *)
(* nothing, from whatever state earlier deletes that failed half-way and   *)
(* races have left: it can be repeated until it is through.                *)
UndisturbedDeleteSucceeds ==
    \A h \in Handlers :
        req[h].pc = "done" /\ Deleting(h) /\ req[h].alone /\ req[h].res # "forbidden" =>
            req[h].res = "ok" /\ folders[req[h].target] = None

(* A delete that was answered with success has removed its folder, raced   *)
(* by whom it may; and as ids are not used twice, it stays away.  (The     *)
(* drive page takes a 404 for a success too.  It is none: deleteFolderTree *)
(* passes on that a file of the tree was deleted by somebody else.)        *)
OkMeansGone ==
    \A h \in Handlers : req[h].pc = "done" /\ Deleting(h) /\ req[h].res = "ok" =>
        folders[req[h].target] = None

(* The service tests run on the in-memory store.  Whatever a request that  *)
(* nobody disturbs asks the store, both stores would answer alike: only    *)
(* races meet the foreign keys.  Except that a name taken in one           *)
(* organisation conflicts, in PostgreSQL alone, for the same subject in    *)
(* another one, as the unique index leaves out org_id.                     *)
TestStoreIsFaithful ==
    \A h \in Handlers : req[h].alone =>
        /\ req[h].pc = "mk" =>
              LET row == [owner |-> req[h].who, parent |-> req[h].target, name |-> req[h].name]
              IN  PgCreateFolder(row) = MemCreateFolder(row)
                     \/ \E org \in {c.org : c \in Callers} \ {row.owner.org} :
                            MemCreateFolder([row EXCEPT !.owner.org = org]) = "conflict"
        /\ req[h].pc = "up" => PgCreateFile([owner |-> req[h].who, folder |-> req[h].target]) = "ok"
        /\ req[h].pc = "rmdir" => PgDeleteFolder(Top(h).dir) = MemDeleteFolder(Top(h).dir)

(* Every folder delete comes to an end, although the files of a folder are *)
(* listed again after each full batch, so that what others upload and      *)
(* delete meanwhile is listed too (and finitely many uploads come).        *)
DeleteIsAnswered ==
    \A h \in Handlers : req[h].pc \in {"dirs", "files", "get", "row", "rmdir"} ~> req[h].pc = "done"
=============================================================================
