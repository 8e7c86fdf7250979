--------------------------------- MODULE Auth ---------------------------------
(***************************************************************************)
(* Who is let in: the settings the API boots with, the middleware that     *)
(* authenticates a request, its cache of the identity provider's signing   *)
(* keys behind a read-write lock, and the end of the process.  A JWT is    *)
(* checked against the cached keys; what fails that check is shown to the  *)
(* provider's /userinfo, as opaque tokens are.  A step lasts to the next   *)
(* call of the provider or the next wait for the lock.  Keys that move,    *)
(* tokens that are revoked and calls that fail are the provider's doing.   *)
(***************************************************************************)
EXTENDS Naturals

CONSTANTS
    Settings,   \* the environments the API may be started in
    Lowered,    \* strings.ToLower of strings.TrimSpace, on what is in Settings
    Keys,       \* signing keys of the provider
    Tokens,     \* the bearer tokens in use
    Handlers,   \* API requests served at the same time
    CacheTTL,   \* how long the cached keys are used
    Patience,   \* how long Shutdown waits for requests
    MaxLag,     \* bound: how long an answer of the provider travels
    MaxTime,    \* bound: the clock stops here
    Dev, Bare,  \* credentials: a dev header naming a user, nothing at all
    None

(***************************************************************************)
(* A token: the key that signed it (None: opaque, expired, or of another   *)
(* issuer or audience), its claim org_id, and the org_id of /userinfo.     *)
(***************************************************************************)
Texts == {"", " ", "acme", "org-demo-a"}
Orgs == Texts \ {"", " "}

ASSUME AuthAssumption ==
    /\ Tokens \subseteq [key : Keys \cup {None}, org : Texts, info : Texts]
    /\ Settings \subseteq [env : STRING, dev : STRING, issuer : STRING, required : BOOLEAN]
    /\ Lowered \in [UNION {{s.env, s.dev, s.issuer} : s \in Settings} -> STRING]
    /\ {MaxLag, MaxTime, Patience} \subseteq Nat /\ CacheTTL \in Nat \ {0}
    /\ {Dev, Bare, None} \cap Tokens = {} /\ None \notin Keys /\ None \notin Handlers

VARIABLES
    proc,      \* the API process: what it does, what it was configured with
    now,       \* time.Now()
    cache,     \* jwks and jwksLoaded, or None
    writer,    \* the request that holds jwksMu for writing, or None
    req,       \* Handlers -> the request in flight
    listed,    \* keys at /.well-known/jwks.json
    unlisted,  \* Keys -> since when a key is no longer there, or None
    known      \* tokens /userinfo answers for

idp == <<listed, unlisted, known>>
authVars == <<proc, now, cache, writer, req, idp>>

-----------------------------------------------------------------------------
(* Settings.                                                               *)

NormalizeEnv(env) ==
    CASE Lowered[env] \in {"", "dev", "development", "local", "demo"} -> "development"
      [] Lowered[env] \in {"staging", "stage"} -> "staging"
      [] Lowered[env] \in {"production", "prod"} -> "production"
      [] OTHER -> Lowered[env]

\* A word that is not understood is as good as none.
EnvBool(v, fallback) ==
    CASE Lowered[v] \in {"1", "true", "yes", "on"} -> TRUE
      [] Lowered[v] \in {"0", "false", "no", "off"} -> FALSE
      [] OTHER -> fallback

Config(s) == [env |-> NormalizeEnv(s.env), devAuth |-> EnvBool(s.dev, TRUE),
              issuer |-> Lowered[s.issuer] # ""]

\* Slip: the raw text is compared, "prod" and "Production" are something else.
FromEnvRaw(s) ==
    LET live == s.env \in {"staging", "production"} IN
    /\ s.required
    /\ live => ~EnvBool(s.dev, TRUE) /\ Lowered[s.issuer] # ""
    /\ NormalizeEnv(s.env) \in {"development", "staging", "production"}

\* Settings FromEnv takes; required: the database, the processor's token and the numbers are fine.
FromEnv(s) ==
    LET live == NormalizeEnv(s.env) \in {"staging", "production"} IN
    /\ s.required
    /\ live => ~EnvBool(s.dev, TRUE) /\ Lowered[s.issuer] # ""
    /\ NormalizeEnv(s.env) \in {"development", "staging", "production"}

-----------------------------------------------------------------------------
(* Requests.                                                               *)

Caller == [via : {"dev", "jwt", "userinfo"}, org : Orgs]
Refused == [via |-> "refused", org |-> ""]
Pending == [via |-> "", org |-> ""]
Credentials == Tokens \cup {Dev, Bare}

(***************************************************************************)
(* since: when the provider sent the keys that are on their way (keys).    *)
(* vouched: the provider has answered for the token all along, naming an   *)
(* organisation, and no call of this request has failed.                   *)
(***************************************************************************)
Request == [pc : {"idle", "jwks", "lock", "fetch", "reply", "userinfo", "done"},
            cred : Credentials \cup {None}, keys : SUBSET Keys, since : Nat, vouched : BOOLEAN,
            res : Caller \cup {Refused, Pending}]
IdleReq == [pc |-> "idle", cred |-> None, keys |-> {}, since |-> 0, vouched |-> FALSE, res |-> Pending]

Set(h, r) == req' = [req EXCEPT ![h] = r]
Fresh == cache # None /\ now < cache.loaded + CacheTTL

\* Slip: a claim of blanks goes for an organisation.
TrimNothing(s) == s

TrimSpace(s) == IF s = " " THEN "" ELSE s

Done(r, res) == [IdleReq EXCEPT !.pc = "done", !.vouched = r.vouched, !.res = res]
Admit(r, via, org) ==
    Done(r, IF org = "" THEN Refused ELSE [via |-> via, org |-> org])

\* Slip: a JWT that is not accepted is not shown to /userinfo.
ParsedOnly(r, keys) ==
    IF r.cred.key \in keys THEN Admit(r, "jwt", TrimSpace(r.cred.org)) ELSE Done(r, Refused)

\* jwt.Parse and the claims; whatever is wrong with it, /userinfo is asked.
Parsed(r, keys) ==
    IF r.cred.key \in keys /\ TrimSpace(r.cred.org) # ""
    THEN Admit(r, "jwt", TrimSpace(r.cred.org))
    ELSE [r EXCEPT !.pc = "userinfo", !.keys = {}, !.since = 0]

\* authenticate, up to the first call or wait.
Arrive(h) ==
    /\ proc.state = "up"
    /\ req[h].pc = "idle"
    /\ \E cred \in Credentials, org \in Texts :
          LET r == [IdleReq EXCEPT !.cred = cred, !.vouched = /\ cred \in known
                                                              /\ proc.config.issuer
                                                              /\ TrimSpace(cred.info) # ""] IN
          CASE cred = Dev /\ proc.config.devAuth ->
                  Set(h, Admit(r, "dev", IF TrimSpace(org) = "" THEN "org-demo-a" ELSE org))
            [] cred \in Tokens /\ proc.config.issuer -> Set(h, [r EXCEPT !.pc = "jwks"])
            [] OTHER -> Set(h, Done(r, Refused))
    /\ UNCHANGED <<proc, now, cache, writer, idp>>

\* jwksSet under the read lock, which waits while somebody has the write lock.
ReadCache(h) ==
    /\ req[h].pc = "jwks"
    /\ writer = None
    /\ Set(h, IF Fresh THEN Parsed(req[h], cache.keys) ELSE [req[h] EXCEPT !.pc = "lock"])
    /\ UNCHANGED <<proc, now, cache, writer, idp>>

\* Slip: who waited for the lock fetches without looking again.
LockAndFetch(h) ==
    /\ req[h].pc = "lock"
    /\ writer = None
    /\ writer' = h
    /\ Set(h, [req[h] EXCEPT !.pc = "fetch"])
    /\ UNCHANGED <<proc, now, cache, idp>>

\* Under the write lock: somebody else may have fetched meanwhile.
LockCache(h) ==
    /\ req[h].pc = "lock"
    /\ writer = None
    /\ IF Fresh THEN Set(h, Parsed(req[h], cache.keys)) /\ UNCHANGED writer
       ELSE Set(h, [req[h] EXCEPT !.pc = "fetch"]) /\ writer' = h
    /\ UNCHANGED <<proc, now, cache, idp>>

\* jwk.Fetch is answered; the lock is held until the answer is stored.
KeysSent(h) ==
    /\ req[h].pc = "fetch"
    /\ Set(h, [req[h] EXCEPT !.pc = "reply", !.keys = listed, !.since = now])
    /\ UNCHANGED <<proc, now, cache, writer, idp>>

StoreKeys(h) ==
    /\ req[h].pc = "reply"
    /\ cache' = [keys |-> req[h].keys, loaded |-> now]
    /\ writer' = None
    /\ Set(h, Parsed(req[h], req[h].keys))
    /\ UNCHANGED <<proc, now, idp>>

\* Slips: the lock is kept when the fetch fails; the old keys are used for want of new ones.
FetchFailsLocked(h) ==
    /\ req[h].pc \in {"fetch", "reply"}
    /\ Set(h, [req[h] EXCEPT !.pc = "userinfo", !.keys = {}, !.since = 0, !.vouched = FALSE])
    /\ UNCHANGED <<proc, now, cache, writer, idp>>
FetchFailsUsed(h) ==
    /\ req[h].pc \in {"fetch", "reply"}
    /\ writer' = None
    /\ LET r == [req[h] EXCEPT !.pc = "userinfo", !.keys = {}, !.since = 0, !.vouched = FALSE]
       IN  Set(h, IF cache = None THEN r ELSE Parsed(r, cache.keys))
    /\ UNCHANGED <<proc, now, cache, idp>>

\* The fetch fails, or its client hangs up: the next in line tries again.
FetchFails(h) ==
    /\ req[h].pc \in {"fetch", "reply"}
    /\ writer' = None
    /\ Set(h, [req[h] EXCEPT !.pc = "userinfo", !.keys = {}, !.since = 0, !.vouched = FALSE])
    /\ UNCHANGED <<proc, now, cache, idp>>

\* authenticateUserInfo: one call, which may fail; an answer without org_id is no answer.
UserInfo(h) ==
    /\ req[h].pc = "userinfo"
    /\ \/ Set(h, IF req[h].cred \in known THEN Admit(req[h], "userinfo", TrimSpace(req[h].cred.info))
                                          ELSE Done(req[h], Refused))
       \/ Set(h, Done([req[h] EXCEPT !.vouched = FALSE], Refused))
    /\ UNCHANGED <<proc, now, cache, writer, idp>>

\* The handler behind the middleware has answered.
Leave(h) ==
    /\ req[h].pc = "done"
    /\ Set(h, IdleReq)
    /\ UNCHANGED <<proc, now, cache, writer, idp>>

-----------------------------------------------------------------------------
(* The process.                                                            *)

Down == [state |-> "down", config |-> None, stopped |-> 0]

\* main: FromEnv, then the connections; with anything amiss it ends.
Boot ==
    /\ proc.state = "down"
    /\ \E s \in Settings : FromEnv(s) /\ proc' = [state |-> "up", config |-> Config(s), stopped |-> 0]
    /\ UNCHANGED <<now, cache, writer, req, idp>>

\* SIGTERM: no new requests from now on.
Stop ==
    /\ proc.state = "up"
    /\ proc' = [proc EXCEPT !.state = "draining", !.stopped = now]
    /\ UNCHANGED <<now, cache, writer, req, idp>>

\* Slip: main does not wait for Shutdown.
ExitAtOnce ==
    /\ proc.state = "draining"
    /\ proc' = Down
    /\ cache' = None /\ writer' = None /\ req' = [h \in Handlers |-> IdleReq]
    /\ UNCHANGED <<now, idp>>

\* Shutdown returns when every request is answered or its time is up; main ends.
Exit ==
    /\ proc.state = "draining"
    /\ now >= proc.stopped + Patience \/ \A h \in Handlers : req[h].pc = "idle"
    /\ proc' = Down
    /\ cache' = None /\ writer' = None /\ req' = [h \in Handlers |-> IdleReq]
    /\ UNCHANGED <<now, idp>>

-----------------------------------------------------------------------------
(* The provider and time.                                                  *)

\* Keys come and go, and do not come back.
Publish(k) ==
    /\ k \notin listed /\ unlisted[k] = None
    /\ listed' = listed \cup {k}
    /\ UNCHANGED <<proc, now, cache, writer, req, unlisted, known>>

Retire(k) ==
    /\ k \in listed
    /\ listed' = listed \ {k}
    /\ unlisted' = [unlisted EXCEPT ![k] = now]
    /\ UNCHANGED <<proc, now, cache, writer, req, known>>

\* A session ends.
Revoke(t) ==
    /\ t \in known
    /\ known' = known \ {t}
    /\ req' = [h \in Handlers |-> IF req[h].cred = t
                                  THEN [req[h] EXCEPT !.vouched = FALSE] ELSE req[h]]
    /\ UNCHANGED <<proc, now, cache, writer, listed, unlisted>>

Tick ==
    /\ now < MaxTime
    /\ \A h \in Handlers : req[h].pc = "reply" => now < req[h].since + MaxLag
    /\ now' = now + 1
    /\ UNCHANGED <<proc, cache, writer, req, idp>>

-----------------------------------------------------------------------------
AuthInit ==
    /\ proc = Down
    /\ now = 0
    /\ cache = None
    /\ writer = None
    /\ req = [h \in Handlers |-> IdleReq]
    /\ listed = {}
    /\ unlisted = [k \in Keys |-> None]
    /\ known = Tokens

Call(h) == KeysSent(h) \/ StoreKeys(h) \/ FetchFails(h) \/ UserInfo(h)

AuthNext ==
    \/ \E h \in Handlers : Arrive(h) \/ ReadCache(h) \/ LockCache(h) \/ Call(h) \/ Leave(h)
    \/ Boot \/ Stop \/ Exit
    \/ \E k \in Keys : Publish(k) \/ Retire(k)
    \/ \E t \in Tokens : Revoke(t)
    \/ Tick

(* The lock is not withheld from anybody for ever (sync.RWMutex), and a    *)
(* call ends some day: the provider answers, the connection breaks or the  *)
(* client hangs up.  The API has no time-out of its own.                   *)
AuthSpec ==
    /\ AuthInit
    /\ [][AuthNext]_authVars
    /\ \A h \in Handlers :
          /\ WF_authVars(Call(h))
          /\ SF_authVars(ReadCache(h) \/ LockCache(h))

-----------------------------------------------------------------------------
(* Properties                                                              *)

\* Whoever is let in acts for an organisation: Caller has no blank one.
AuthTypeOK ==
    /\ proc \in [state : {"up", "draining"}, stopped : Nat,
                 config : {Config(s) : s \in Settings}] \cup {Down}
    /\ now \in 0 .. MaxTime
    /\ cache \in [keys : SUBSET Keys, loaded : Nat] \cup {None}
    /\ writer \in Handlers \cup {None}
    /\ req \in [Handlers -> Request]
    /\ listed \in SUBSET Keys /\ unlisted \in [Keys -> Nat \cup {None}] /\ known \subseteq Tokens

(* However many requests find the cache expired at once, the provider is   *)
(* asked for its keys once in five minutes: who waited for the lock looks  *)
(* again before it fetches.                                                *)
FetchesAreApart ==
    [][cache # None /\ cache' \notin {cache, None} => cache'.loaded >= cache.loaded + CacheTTL]_authVars

(* A key the provider has withdrawn opens nothing any more once the cache  *)
(* has had its five minutes and the answer it was filled from its journey; *)
(* in an outage of the provider the old keys are not used on.              *)
StaleKeysExpire ==
    [][\A h \in Handlers :
          req[h].pc # "done" /\ req'[h].pc = "done" /\ req'[h].res.via = "jwt" =>
              \/ req[h].cred.key \in listed
              \/ unlisted[req[h].cred.key] + CacheTTL + MaxLag > now]_authVars

(* A token the provider answers for is accepted although its key is not in *)
(* the cache yet or no longer listed, or it is no JWT at all, as long as   *)
(* the calls succeed and /userinfo names an organisation.                  *)
VouchedIsAccepted ==
    \A h \in Handlers :
        req[h].pc = "done" /\ req[h].vouched => req[h].res # Refused

(* In staging and production nobody is let in by naming a user in a header *)
(* and somebody with a token can be, however MEDIA_ENV and MEDIA_DEV_AUTH  *)
(* are spelled: other settings do not boot.                                *)
NoDevUserInProduction ==
    proc.state # "down" /\ proc.config.env \in {"staging", "production"} =>
        /\ proc.config.issuer
        /\ \A h \in Handlers : req[h].res \in Caller => req[h].res.via # "dev"

(* A request that was taken before SIGTERM is cut off only when the ten    *)
(* seconds Shutdown has are over.                                          *)
ShutdownIsPatient ==
    [][\A h \in Handlers :
          req[h].pc # "idle" /\ req'[h].pc = "idle" /\ req[h].pc # "done" =>
              now >= proc.stopped + Patience]_authVars

(* Nobody waits for ever behind the lock: every request is let in or       *)
(* refused, or the API goes down.                                          *)
EveryoneIsAnswered ==
    \A h \in Handlers : req[h].pc \notin {"idle", "done"} ~> req[h].pc \in {"idle", "done"}
=============================================================================
