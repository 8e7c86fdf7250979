-------------------------------- MODULE Shares --------------------------------
(***************************************************************************)
(* Share links: made and revoked by a file's owner, opened by anybody who  *)
(* has the token and, if one was set, the password, until they expire.     *)
(* What a visitor gets are presigned URLs of the bucket, which nobody can  *)
(* take back.  The life of the file itself (Uploads, Processor) is here    *)
(* the environment.  One step is one call of the store, with all that is   *)
(* computed after it; signing a URL is no call.                            *)
(***************************************************************************)
EXTENDS Integers

CONSTANTS
    Owners,       \* the users of the drive
    FileIds,      \* files; each exists from the start until it is deleted
    Tokens,       \* tokens sharetoken.New() may return
    Passwords,    \* what may be typed as a password, "" included
    Trimmed,      \* strings.TrimSpace on Passwords
    Seconds,      \* the expiresInSeconds of the requests
    NsPerSecond,  \* int64(time.Second)
    Half,         \* an int64 is in -Half .. Half - 1
    DefaultTTL,   \* defaultShareTTL, in nanoseconds
    MaxTTL,       \* maxShareTTL
    PresignTTL,   \* how long a presigned URL works
    MaxLag,       \* bound: how long the API may take over a request
    MaxTime,      \* bound: the clock stops here
    MaxCost,      \* bound: how often the cost of a hash is raised
    Handlers,     \* API requests served at the same time
    None          \* absent row

ASSUME SharesAssumption ==
    /\ Passwords \subseteq STRING /\ "" \in Passwords
    /\ Trimmed \in [Passwords -> Passwords] /\ Trimmed[""] = ""
    /\ Seconds \subseteq Int
    /\ {NsPerSecond, Half, DefaultTTL, MaxTTL, MaxCost} \subseteq Nat \ {0}
    /\ DefaultTTL <= MaxTTL /\ MaxTTL < Half
    /\ {PresignTTL, MaxLag, MaxTime} \subseteq Nat
    /\ None \notin Owners \cup FileIds \cup Tokens

VARIABLES
    files,    \* table files: FileIds -> row or None
    links,    \* table share_links: Tokens -> row or None
    now,      \* time.Now()
    cost,     \* memoryKiB, timeCost and threads of the release that runs
    req,      \* Handlers -> the API request in flight
    granted,  \* Tokens -> until when a URL handed out through the link works
    ended     \* Tokens -> when a link that is gone was last good, or None

data == <<files, links, now, cost, granted, ended>>
sharesVars == <<data, req>>

VariantNames == {"orig", "detail", "thumb"}
FileStates == [status : {"pending", "ready", "failed"}, variants : {{}, VariantNames}]

(* password: the encoded hash names the cost it was computed with.         *)
IDKey(plain, with) == <<plain, with>>
Hash(plain) == [algo |-> "argon2id", cost |-> cost, sum |-> IDKey(plain, cost)]
ParsePHC(encoded) == encoded.algo = "argon2id" /\ encoded.cost > 0

\* Slip: the cost of the running release instead of the one in the hash.
VerifyNow(plain, encoded) == plain # "" /\ ParsePHC(encoded) /\ IDKey(plain, cost) = encoded.sum

Verify(plain, encoded) ==
    plain # "" /\ ParsePHC(encoded) /\ IDKey(plain, encoded.cost) = encoded.sum

Hashes == [algo : {"argon2id"}, cost : 1 .. MaxCost, sum : Passwords \X (1 .. MaxCost)]
FileRow == [owner : Owners, state : FileStates]
LinkRow == [file : FileIds, owner : Owners, hash : Hashes \cup {None},
            expires : Nat, created : Nat]

\* An absent row is no row, and no point in time.
ASSUME NoneAssumption == None \notin FileRow \cup LinkRow \cup Nat

Answers == {"ok", "invalid", "notfound", "forbidden", "expired", "required", "internal"}

(***************************************************************************)
(* A request.  link is the row read or about to be inserted, plain the     *)
(* password that was typed, since the time of the first call.  good: since *)
(* then the link was there, not expired, and its file had something to     *)
(* show.                                                                   *)
(***************************************************************************)
Request == [op : {"none", "create", "revoke", "view", "download"},
            pc : {"idle", "insert", "unlink", "file", "done"}, token : Tokens \cup {None},
            link : LinkRow \cup {None}, plain : Passwords, since : Nat, good : BOOLEAN, res : Answers]
IdleReq == [op |-> "none", pc |-> "idle", token |-> None, link |-> None, plain |-> "",
            since |-> 0, good |-> FALSE, res |-> "ok"]

-----------------------------------------------------------------------------
(* The store.                                                              *)

\* Slip: no foreign key, as in the in-memory store.
MemCreateShareLink(link) == "ok"

\* INSERT INTO share_links, whose file_id REFERENCES files.
PgCreateShareLink(link) == IF files[link.file] = None THEN "internal" ELSE "ok"

ListShareLinksByOwner(who) == {t \in Tokens : links[t] # None /\ links[t].owner = who}

\* Links that go at once, and when they were last good.
Remove(gone) ==
    /\ links' = [t \in Tokens |-> IF t \in gone THEN None ELSE links[t]]
    /\ ended' = [t \in Tokens |-> IF t \notin gone THEN ended[t]
                                  ELSE IF now < links[t].expires THEN now ELSE links[t].expires]

-----------------------------------------------------------------------------
(* What requests compute.                                                  *)

\* fileView: the variants a file has; the object as uploaded while it has none.
Shown(state) ==
    CASE state.variants # {} -> state.variants
      [] state.variants = {} /\ state.status = "failed" -> {}
      [] OTHER -> {"orig"}

\* int64 arithmetic wraps around.
Wrap(n) == ((n + Half) % (2 * Half)) - Half

\* Slip: only 0 stands for the default.
TTLOrDefault(s) ==
    LET ttl == Wrap(s * NsPerSecond) IN
    CASE ttl = 0 -> DefaultTTL
      [] ttl > MaxTTL -> None
      [] OTHER -> ttl

\* createShare and CreateShareLink; None is ErrInvalid.
TTLOf(s) ==
    LET ttl == Wrap(s * NsPerSecond) IN
    CASE ttl <= 0 -> DefaultTTL
      [] ttl > MaxTTL -> None
      [] OTHER -> ttl

\* sharePassword: the header is trimmed, unlike the password that was set.
SharePassword(plain) == Trimmed[plain]

\* Slip: the error of Verify decides, its verdict is not looked at.
SharePasswordParses(link, provided) ==
    CASE link.hash = None -> "ok"
      [] link.hash # None /\ provided = "" -> "required"
      [] OTHER -> IF ParsePHC(link.hash) THEN "ok" ELSE "forbidden"

SharePasswordOK(link, provided) ==
    CASE link.hash = None -> "ok"
      [] link.hash # None /\ provided = "" -> "required"
      [] OTHER -> CASE ~ParsePHC(link.hash) -> "internal"
                    [] Verify(provided, link.hash) -> "ok"
                    [] OTHER -> "forbidden"

Good(link, file, time) ==
    /\ link # None /\ time < link.expires
    /\ file # None /\ Shown(file.state) # {}
GoodNow(t) == links[t] # None /\ Good(links[t], files[links[t].file], now)

\* Requests on hold see whether their link goes on being good.
Watch == req' = [h \in Handlers |-> IF req[h].pc # "file" THEN req[h]
                                    ELSE [req[h] EXCEPT !.good = @ /\ Good(links'[req[h].token], files'[req[h].link.file], now')]]

Answer(h, op, res) == req' = [req EXCEPT ![h] = [IdleReq EXCEPT !.op = op, !.pc = "done", !.res = res]]

-----------------------------------------------------------------------------
(* CreateShareLink: GetFile, then INSERT.                                  *)

CreateStart(h) ==
    /\ req[h].pc = "idle"
    /\ \E who \in Owners, f \in FileIds, s \in Seconds, plain \in Passwords :
          LET hash == IF plain = "" THEN None ELSE Hash(plain) IN
          CASE TTLOf(s) = None -> Answer(h, "create", "invalid")
            [] TTLOf(s) # None /\ (files[f] = None \/ (files[f] # None /\ files[f].owner # who)) ->
                  Answer(h, "create", "notfound")
            [] OTHER -> IF files[f].state.status = "failed" THEN Answer(h, "create", "invalid")
                        ELSE req' = [req EXCEPT ![h] = [IdleReq EXCEPT !.op = "create", !.pc = "insert",
                                       !.since = now, !.link = [file |-> f, owner |-> who, hash |-> hash,
                                                                expires |-> now + TTLOf(s), created |-> now]]]
    /\ UNCHANGED data

CreateInsert(h) ==
    LET res == PgCreateShareLink(req[h].link) IN
    /\ req[h].pc = "insert"
    /\ \/ /\ res = "ok"
          /\ \E t \in Tokens : /\ links[t] = None /\ ended[t] = None
                               /\ links' = [links EXCEPT ![t] = req[h].link]
       \/ res # "ok" /\ UNCHANGED links
    /\ Answer(h, "create", res)
    /\ UNCHANGED <<files, now, cost, granted, ended>>

-----------------------------------------------------------------------------
(* DeleteShareLink: GetShareLinkByToken, then DELETE.                      *)

RevokeStart(h) ==
    /\ req[h].pc = "idle"
    /\ \E who \in Owners, t \in Tokens :
          IF t \in ListShareLinksByOwner(who)
          THEN req' = [req EXCEPT ![h] = [IdleReq EXCEPT !.op = "revoke", !.pc = "unlink",
                                                         !.token = t, !.since = now]]
          ELSE Answer(h, "revoke", "notfound")
    /\ UNCHANGED data

RevokeUnlink(h) ==
    LET t == req[h].token IN
    /\ req[h].pc = "unlink"
    /\ IF links[t] = None THEN Answer(h, "revoke", "notfound") /\ UNCHANGED <<links, ended>>
       ELSE Answer(h, "revoke", "ok") /\ Remove({t})
    /\ UNCHANGED <<files, now, cost, granted>>

-----------------------------------------------------------------------------
(* ResolveShare and ShareDownloadURL: GetShareLinkByToken, then GetFile.   *)

Expired(link) == now >= link.expires

ResolveLink(h) ==
    /\ req[h].pc = "idle"
    /\ \E t \in Tokens, plain \in Passwords, op \in {"view", "download"} :
          LET seen == [IdleReq EXCEPT !.op = op, !.token = t, !.link = links[t], !.plain = plain,
                                      !.good = GoodNow(t)]
              refused ==
                 CASE links[t] = None -> "notfound"
                   [] links[t] # None /\ Expired(links[t]) -> "expired"
                   [] OTHER -> SharePasswordOK(links[t], SharePassword(plain))
          IN req' = [req EXCEPT ![h] = IF refused = "ok" THEN [seen EXCEPT !.pc = "file", !.since = now]
                                       ELSE [seen EXCEPT !.pc = "done", !.res = refused]]
    /\ UNCHANGED data

\* Slip: the URLs are signed for as long as the link is good.
GrantUntil(link) == IF now < link.expires THEN link.expires ELSE now

\* PresignGet
Until(link) == now + PresignTTL

\* The view, or the URL asked for: a variant that is not there is made up for by another.
ResolveFile(h) ==
    LET t == req[h].token
        f == req[h].link.file
        shown == Shown(files[f].state)
        Done(res) == req' = [req EXCEPT ![h].pc = "done", ![h].since = 0, ![h].res = res]
    IN
    /\ req[h].pc = "file"
    /\ IF files[f] = None \/ (req[h].op = "download" /\ shown = {})
       THEN Done("notfound") /\ UNCHANGED granted
       ELSE /\ Done("ok")
            /\ granted' = IF shown = {} THEN granted ELSE [granted EXCEPT ![t] = Until(req[h].link)]
    /\ UNCHANGED <<files, links, now, cost, ended>>

\* The answer reaches the caller.
Reply(h) ==
    /\ req[h].pc = "done"
    /\ req' = [req EXCEPT ![h] = IdleReq]
    /\ UNCHANGED data

-----------------------------------------------------------------------------
(* The rest of the system.                                                 *)

\* A job fails, succeeds, is run again.
FileMoves(f) ==
    /\ files[f] # None
    /\ \E s \in FileStates :
          /\ s.variants \in {files[f].state.variants, VariantNames}
          /\ s.variants # files[f].state.variants => s.status = "ready"
          /\ files' = [files EXCEPT ![f].state = s]
    /\ UNCHANGED <<links, now, cost, granted, ended>>
    /\ Watch

\* DELETE FROM files; share_links.file_id is ON DELETE CASCADE.
DeleteFile(f) ==
    /\ files[f] # None
    /\ files' = [files EXCEPT ![f] = None]
    /\ Remove({t \in Tokens : links[t] # None /\ links[t].file = f})
    /\ UNCHANGED <<now, cost, granted>>
    /\ Watch

Tick ==
    /\ now < MaxTime
    /\ \A h \in Handlers : req[h].pc \in {"insert", "unlink", "file"} => now < req[h].since + MaxLag
    /\ now' = now + 1
    /\ UNCHANGED <<files, links, cost, granted, ended>>
    /\ Watch

\* A release that hashes at a higher cost.
RaiseCost ==
    /\ cost < MaxCost
    /\ cost' = cost + 1
    /\ UNCHANGED <<files, links, now, granted, ended, req>>

SharesInit ==
    /\ files \in [FileIds -> [owner : Owners, state : {[status |-> "pending", variants |-> {}]}]]
    /\ links = [t \in Tokens |-> None]
    /\ now = 0
    /\ cost = 1
    /\ req = [h \in Handlers |-> IdleReq]
    /\ granted = [t \in Tokens |-> 0]
    /\ ended = [t \in Tokens |-> None]

SharesNext ==
    \/ \E h \in Handlers :
          \/ CreateStart(h) \/ CreateInsert(h) \/ RevokeStart(h) \/ RevokeUnlink(h)
          \/ ResolveLink(h) \/ ResolveFile(h) \/ Reply(h)
    \/ \E f \in FileIds : FileMoves(f) \/ DeleteFile(f)
    \/ Tick
    \/ RaiseCost

SharesSpec == SharesInit /\ [][SharesNext]_sharesVars

-----------------------------------------------------------------------------
(* Properties                                                              *)

SharesTypeOK ==
    /\ files \in [FileIds -> FileRow \cup {None}]
    /\ links \in [Tokens -> LinkRow \cup {None}]
    /\ now \in 0 .. MaxTime /\ cost \in 1 .. MaxCost
    /\ req \in [Handlers -> Request]
    /\ granted \in [Tokens -> Nat] /\ ended \in [Tokens -> Nat \cup {None}]

(* The owner of a file sees every link to it in the list, and so can       *)
(* revoke it: no link outlives its file or belongs to anybody else, though *)
(* the file may go between the check of its owner and the INSERT.          *)
EveryLinkIsListed ==
    \A t \in Tokens : links[t] # None =>
        /\ files[links[t].file] # None
        /\ t \in ListShareLinksByOwner(files[links[t].file].owner)

(* Whatever number of seconds a client asks for, and however it wraps when *)
(* it is multiplied into nanoseconds, a link is good for some time and for *)
(* seven days at most.                                                     *)
LinksAreBounded ==
    \A t \in Tokens : links[t] # None =>
        /\ links[t].created < links[t].expires
        /\ links[t].expires <= links[t].created + MaxTTL

(* A URL handed out through a link cannot be taken back, but it stops      *)
(* working soon after the link is no longer good, for whatever reason: the *)
(* lifetime of a presigned URL later, and the time one request may take.   *)
GrantsEnd ==
    \A t \in Tokens : granted[t] # 0 =>
        granted[t] <= MaxLag + PresignTTL + (IF links[t] # None THEN links[t].expires ELSE ended[t])

Visited(h) == req[h].op \in {"view", "download"} /\ req[h].pc = "done"
PasswordOf(link) == IF link.hash = None THEN "" ELSE link.hash.sum[1]

(* Only the password that was set opens a link that has one.               *)
OnlyThePasswordOpens ==
    \A h \in Handlers : Visited(h) /\ req[h].res = "ok" =>
        PasswordOf(req[h].link) \in {"", SharePassword(req[h].plain)}

(* A link that is good for as long as the request takes is served to       *)
(* whoever types its password, also after the cost of hashing was raised   *)
(* -- unless the password begins or ends with a blank: the owner may set   *)
(* such a one, and nobody can open the link.                               *)
GoodLinkIsServed ==
    \A h \in Handlers : Visited(h) /\ req[h].good =>
        LET set == PasswordOf(req[h].link) IN
        set = "" \/ (req[h].plain = set /\ SharePassword(set) = set) => req[h].res = "ok"
=============================================================================
