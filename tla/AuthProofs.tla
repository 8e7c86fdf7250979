------------------------------ MODULE AuthProofs ------------------------------
(***************************************************************************)
(* Auth for any settings, spellings, keys, tokens and requests: types, who *)
(* is let in, how long a key opens anything, how often the provider is     *)
(* asked for them, and who is cut off at the end.                          *)
(***************************************************************************)
EXTENDS Auth, TLAPS

-----------------------------------------------------------------------------
(* The inductive invariant.                                                *)

\* A request that has not been answered yet has a bearer token.
Asking == {"jwks", "lock", "fetch", "reply", "userinfo"}
AskInv == \A h \in Handlers : req[h].pc \in Asking => req[h].cred \in Tokens

\* What vouched promises, of a request r.
Vouching(r) ==
    /\ r.vouched /\ r.pc \in Asking => r.cred \in known /\ TrimSpace(r.cred.info) # ""
    /\ r.vouched /\ r.pc = "done" => r.res # Refused

VouchInv == \A h \in Handlers : Vouching(req[h])

\* Whoever was let in by a header was so by this process, which allows it.
Naming(r) == r.res.via = "dev" => proc.state # "down" /\ proc.config.devAuth

SettingsInv ==
    /\ proc.state # "down" => \E s \in Settings : FromEnv(s) /\ proc.config = Config(s)
    /\ \A h \in Handlers : Naming(req[h])

\* The write lock is held for as long as the keys are fetched, which are needed.
LockInv ==
    /\ \A h \in Handlers : req[h].pc \in {"fetch", "reply"} <=> writer = h
    /\ cache # None => cache.loaded <= now
    /\ writer # None => ~Fresh

\* A key that is used was listed at a time t, or later.
ListedAt(k, t) == k \in listed \/ (unlisted[k] \in Nat /\ t <= unlisted[k])

\* Keys on their way were listed when they were sent, those in the cache MaxLag earlier.
Travelling(r) ==
    r.pc = "reply" => /\ r.since <= now /\ now <= r.since + MaxLag
                      /\ \A k \in r.keys : ListedAt(k, r.since)

KeysInv ==
    /\ \A h \in Handlers : Travelling(req[h])
    /\ cache # None => \A k \in cache.keys :
          k \in listed \/ (unlisted[k] \in Nat /\ cache.loaded <= unlisted[k] + MaxLag)

-----------------------------------------------------------------------------
(* The operators.                                                          *)

LEMMA NumbersTyped ==
  MaxLag \in Nat /\ MaxTime \in Nat /\ Patience \in Nat /\ CacheTTL \in Nat /\ CacheTTL > 0
  BY AuthAssumption

LEMMA TokensTyped ==
  /\ \A t \in Tokens : t.key \in Keys \cup {None} /\ t.org \in Texts /\ t.info \in Texts
  /\ Dev \notin Tokens /\ None \notin Keys /\ None \notin Handlers
  BY AuthAssumption

LEMMA TrimTyped ==
  ASSUME NEW s \in Texts PROVE TrimSpace(s) \in Orgs \cup {""}
  BY DEF TrimSpace, Texts, Orgs

LEMMA IdleTyped == IdleReq \in Request /\ IdleReq.pc = "idle" /\ IdleReq.res.via = ""
  BY DEF IdleReq, Request, Pending

\* An answer.
LEMMA DoneMade ==
  ASSUME NEW r \in Request, NEW res \in Caller \cup {Refused}
  PROVE  /\ Done(r, res) \in Request
         /\ Done(r, res).pc = "done" /\ Done(r, res).vouched = r.vouched /\ Done(r, res).res = res
  BY DEF Done, IdleReq, Request

LEMMA RefusedVia == Refused.via = "refused" /\ Refused.org = ""
  BY DEF Refused

\* Nobody is let in without an organisation.
LEMMA AdmitMade ==
  ASSUME NEW r \in Request, NEW via \in {"dev", "jwt", "userinfo"}
  PROVE  /\ Admit(r, via, "") = Done(r, Refused)
         /\ \A org \in Orgs : \E res \in Caller :
               Admit(r, via, org) = Done(r, res) /\ res # Refused /\ res.via = via
<1>1. Admit(r, via, "") = Done(r, Refused)
  BY DEF Admit
<1>2. ASSUME NEW org \in Orgs
      PROVE  \E res \in Caller : Admit(r, via, org) = Done(r, res) /\ res # Refused /\ res.via = via
  <2>1. PICK res : res = [via |-> via, org |-> org]
    OBVIOUS
  <2>2. res \in Caller /\ res.via = via /\ res.org = org
    BY <2>1 DEF Caller
  <2>3. org # ""
    BY DEF Orgs
  <2>4. res # Refused
    BY <2>2, <2>3, RefusedVia
  <2>5. Admit(r, via, org) = Done(r, res)
    BY <2>1, <2>3 DEF Admit
  <2>6. QED
    BY <2>2, <2>4, <2>5
<1>3. QED
  BY <1>1, <1>2

\* What is made of a token whose keys are known: a caller, or a question to /userinfo.
LEMMA ParsedMade ==
  ASSUME NEW r \in Request, r.cred \in Tokens, NEW keys \in SUBSET Keys
  PROVE  /\ Parsed(r, keys) \in Request /\ Parsed(r, keys).vouched = r.vouched
         /\ \/ /\ Parsed(r, keys).pc = "done" /\ r.cred.key \in keys
               /\ Parsed(r, keys).res.via = "jwt" /\ Parsed(r, keys).res # Refused
            \/ /\ Parsed(r, keys).pc = "userinfo" /\ Parsed(r, keys).cred = r.cred
               /\ Parsed(r, keys).res = r.res
<1>1. PICK org : org = TrimSpace(r.cred.org)
  OBVIOUS
<1>2. org \in Orgs \cup {""}
  BY <1>1, TokensTyped, TrimTyped
<1>3. PICK new : new = Parsed(r, keys)
  OBVIOUS
<1>4. CASE r.cred.key \in keys /\ org # ""
  <2>1. org \in Orgs
    BY <1>2, <1>4
  <2>2. new = Admit(r, "jwt", org)
    BY <1>1, <1>3, <1>4 DEF Parsed
  <2>3. PICK res \in Caller \cup {Refused} : new = Done(r, res) /\ res # Refused /\ res.via = "jwt"
    BY <2>1, <2>2, AdmitMade
  <2>4. new \in Request /\ new.pc = "done" /\ new.vouched = r.vouched /\ new.res = res
    BY <2>3, DoneMade
  <2>5. QED
    BY <1>3, <1>4, <2>3, <2>4
<1>5. CASE ~(r.cred.key \in keys /\ org # "")
  <2>1. new = [r EXCEPT !.pc = "userinfo", !.keys = {}, !.since = 0]
    BY <1>1, <1>3, <1>5 DEF Parsed
  <2>2. /\ new \in Request /\ new.vouched = r.vouched
        /\ new.pc = "userinfo" /\ new.cred = r.cred /\ new.res = r.res
    BY <2>1 DEF Request
  <2>3. QED
    BY <1>3, <2>2
<1>6. QED
  BY <1>4, <1>5

-----------------------------------------------------------------------------
(* What a request makes of itself.                                         *)

\* Of an answer by a key: the key was listed not long ago.
Opened(old, new) ==
    old.pc # "done" /\ new.pc = "done" /\ new.res.via = "jwt" =>
        \/ old.cred.key \in listed
        \/ unlisted[old.cred.key] \in Nat /\ unlisted[old.cred.key] + CacheTTL + MaxLag > now

\* All that the invariant says of a request, for one that goes on.
Sound(old, new) ==
    /\ new.pc \in Asking => new.cred \in Tokens
    /\ Vouching(new) /\ Naming(new) /\ Travelling(new)
    /\ Opened(old, new)
    /\ new.pc \in {"fetch", "reply"} => old.pc \in {"lock", "fetch"}
    /\ new.pc = "idle" => old.pc \in {"idle", "done"}

AuthInv == AuthTypeOK /\ AskInv /\ VouchInv /\ SettingsInv /\ LockInv /\ KeysInv

LEMMA ParsedSound ==
  ASSUME NEW old \in Request, old.pc \in Asking, old.cred \in Tokens, Vouching(old), Naming(old),
         NEW keys \in SUBSET Keys,
         \A k \in keys : k \in listed \/ (unlisted[k] \in Nat /\ unlisted[k] + CacheTTL + MaxLag > now)
  PROVE  Parsed(old, keys) \in Request /\ Sound(old, Parsed(old, keys))
<1>1. PICK new : new = Parsed(old, keys)
  OBVIOUS
<1>2. /\ new \in Request /\ new.vouched = old.vouched
      /\ \/ /\ new.pc = "done" /\ old.cred.key \in keys /\ new.res.via = "jwt" /\ new.res # Refused
         \/ new.pc = "userinfo" /\ new.cred = old.cred /\ new.res = old.res
  BY <1>1, ParsedMade
<1>3. CASE /\ new.pc = "done" /\ old.cred.key \in keys
           /\ new.res.via = "jwt" /\ new.res # Refused
  BY <1>1, <1>2, <1>3 DEF Sound, Asking, Vouching, Naming, Travelling, Opened
<1>4. CASE new.pc = "userinfo" /\ new.cred = old.cred /\ new.res = old.res
  BY <1>1, <1>2, <1>4 DEF Sound, Asking, Vouching, Naming, Travelling, Opened
<1>5. QED
  BY <1>2, <1>3, <1>4

\* What is in a fresh cache may still be used.
LEMMA FreshKeys ==
  ASSUME AuthInv, Fresh
  PROVE  /\ cache.keys \in SUBSET Keys
         /\ \A k \in cache.keys :
               k \in listed \/ (unlisted[k] \in Nat /\ unlisted[k] + CacheTTL + MaxLag > now)
<1>1. cache # None /\ cache \in [keys : SUBSET Keys, loaded : Nat] /\ now < cache.loaded + CacheTTL
  BY DEF AuthInv, AuthTypeOK, Fresh
<1>2. now \in Nat /\ cache.loaded \in Nat /\ cache.keys \in SUBSET Keys
  BY <1>1, NumbersTyped DEF AuthInv, AuthTypeOK
<1>3. ASSUME NEW k \in cache.keys, k \notin listed
      PROVE  unlisted[k] \in Nat /\ unlisted[k] + CacheTTL + MaxLag > now
  <2>1. unlisted[k] \in Nat /\ cache.loaded <= unlisted[k] + MaxLag
    BY <1>1, <1>3 DEF AuthInv, KeysInv
  <2>2. QED
    BY <1>1, <1>2, <2>1, NumbersTyped
<1>4. QED
  BY <1>2, <1>3

LEMMA ArriveSound ==
  ASSUME AuthInv, NEW h \in Handlers, Arrive(h)
  PROVE  \E new \in Request : req' = [req EXCEPT ![h] = new] /\ Sound(req[h], new)
<1>1. PICK cred \in Credentials, org \in Texts :
         LET r == [IdleReq EXCEPT !.cred = cred, !.vouched = /\ cred \in known
                                                             /\ proc.config.issuer
                                                             /\ TrimSpace(cred.info) # ""] IN
         CASE cred = Dev /\ proc.config.devAuth ->
                 Set(h, Admit(r, "dev", IF TrimSpace(org) = "" THEN "org-demo-a" ELSE org))
           [] cred \in Tokens /\ proc.config.issuer -> Set(h, [r EXCEPT !.pc = "jwks"])
           [] OTHER -> Set(h, Done(r, Refused))
  BY DEF Arrive
<1>2. PICK vouched \in BOOLEAN : vouched <=> cred \in known /\ proc.config.issuer /\ TrimSpace(cred.info) # ""
  OBVIOUS
<1>3. (cred \in known /\ proc.config.issuer /\ TrimSpace(cred.info) # "") = vouched
  BY <1>2
<1>4. PICK r : r = [IdleReq EXCEPT !.cred = cred, !.vouched = vouched]
  OBVIOUS
<1>5. PICK named : named = IF TrimSpace(org) = "" THEN "org-demo-a" ELSE org
  OBVIOUS
<1>6. (CASE cred = Dev /\ proc.config.devAuth -> Set(h, Admit(r, "dev", named))
         [] cred \in Tokens /\ proc.config.issuer -> Set(h, [r EXCEPT !.pc = "jwks"])
         [] OTHER -> Set(h, Done(r, Refused)))
  BY <1>1, <1>3, <1>4, <1>5
<1>7. r \in Request /\ r.pc = "idle" /\ r.cred = cred /\ r.vouched = vouched /\ r.res = Pending
  BY <1>4 DEF IdleReq, Request
<1>8. req[h].pc = "idle" /\ proc.state = "up"
  BY DEF Arrive
<1>9. CASE cred = Dev /\ proc.config.devAuth
  <2>1. cred \notin Tokens
    BY <1>9, TokensTyped
  <2>2. named \in Orgs
    BY <1>5 DEF TrimSpace, Texts, Orgs
  <2>3. Set(h, Admit(r, "dev", named))
    BY <1>6, <1>9, <2>1
  <2>4. PICK res \in Caller \cup {Refused} :
           Admit(r, "dev", named) = Done(r, res) /\ res # Refused /\ res.via = "dev"
    BY <1>7, <2>2, AdmitMade
  <2>5. PICK new : new = Done(r, res)
    OBVIOUS
  <2>6. new \in Request /\ new.pc = "done" /\ new.res = res
    BY <1>7, <2>5, DoneMade
  <2>7. Sound(req[h], new)
    BY <1>8, <1>9, <2>4, <2>6 DEF Sound, Asking, Vouching, Naming, Travelling, Opened
  <2>8. QED
    BY <2>3, <2>4, <2>5, <2>6, <2>7 DEF Set
<1>10. CASE cred \in Tokens /\ proc.config.issuer
  <2>1. cred # Dev
    BY <1>10, TokensTyped
  <2>2. req' = [req EXCEPT ![h] = [r EXCEPT !.pc = "jwks"]]
    BY <1>6, <1>10, <2>1 DEF Set
  <2>3. PICK new : new = [r EXCEPT !.pc = "jwks"]
    OBVIOUS
  <2>4. /\ new \in Request /\ new.pc = "jwks" /\ new.cred = cred /\ new.vouched = vouched
        /\ new.res = Pending /\ Pending.via = ""
    BY <1>7, <2>3 DEF Request, Pending
  <2>5. Sound(req[h], new)
    BY <1>2, <1>10, <2>4 DEF Sound, Asking, Vouching, Naming, Travelling, Opened
  <2>6. QED
    BY <2>2, <2>3, <2>4, <2>5
<1>11. CASE ~(cred = Dev /\ proc.config.devAuth) /\ ~(cred \in Tokens /\ proc.config.issuer)
  <2>1. req' = [req EXCEPT ![h] = Done(r, Refused)]
    BY <1>6, <1>11 DEF Set
  <2>2. PICK new : new = Done(r, Refused)
    OBVIOUS
  <2>3. new \in Request /\ new.pc = "done" /\ new.vouched = vouched /\ new.res = Refused
    BY <1>7, <2>2, DoneMade
  <2>4. ~vouched
    BY <1>2, <1>11 DEF AuthInv, AuthTypeOK
  <2>5. Sound(req[h], new)
    BY <2>3, <2>4, RefusedVia DEF Sound, Asking, Vouching, Naming, Travelling, Opened
  <2>6. QED
    BY <2>1, <2>2, <2>3, <2>5
<1>12. QED
  BY <1>9, <1>10, <1>11

LEMMA AskingSound ==
  ASSUME AuthInv, NEW h \in Handlers
  PROVE  /\ req[h] \in Request /\ Vouching(req[h]) /\ Naming(req[h])
         /\ req[h].pc \in Asking => req[h].cred \in Tokens
  BY DEF AuthInv, AuthTypeOK, AskInv, VouchInv, SettingsInv

\* Both looks at the cache: its keys, if it is fresh.
LEMMA LookSound ==
  ASSUME AuthInv, NEW h \in Handlers, req[h].pc \in Asking, Fresh
  PROVE  Parsed(req[h], cache.keys) \in Request /\ Sound(req[h], Parsed(req[h], cache.keys))
  BY AskingSound, FreshKeys, ParsedSound

\* A request that waits for something else.
LEMMA WaitSound ==
  ASSUME AuthInv, NEW h \in Handlers, NEW pc \in {"lock", "fetch"},
         req[h].pc = IF pc = "lock" THEN "jwks" ELSE "lock"
  PROVE  [req[h] EXCEPT !.pc = pc] \in Request /\ Sound(req[h], [req[h] EXCEPT !.pc = pc])
<1>1. PICK new : new = [req[h] EXCEPT !.pc = pc]
  OBVIOUS
<1>2. /\ new \in Request /\ new.pc = pc /\ new.cred = req[h].cred /\ new.vouched = req[h].vouched
      /\ new.res = req[h].res
  BY <1>1, AskingSound DEF Request, Asking
<1>3. Sound(req[h], new)
  BY <1>2, AskingSound DEF Sound, Asking, Vouching, Naming, Travelling, Opened
<1>4. QED
  BY <1>1, <1>2, <1>3

LEMMA StoreKeysSound ==
  ASSUME AuthInv, NEW h \in Handlers, StoreKeys(h)
  PROVE  \E new \in Request : req' = [req EXCEPT ![h] = new] /\ Sound(req[h], new)
<1>1. req[h].pc = "reply" /\ req' = [req EXCEPT ![h] = Parsed(req[h], req[h].keys)]
  BY DEF StoreKeys, Set
<1>2. /\ now \in Nat /\ req[h].since \in Nat /\ req[h].keys \in SUBSET Keys
      /\ now <= req[h].since + MaxLag /\ \A k \in req[h].keys : ListedAt(k, req[h].since)
  BY <1>1, AskingSound, NumbersTyped DEF AuthInv, AuthTypeOK, KeysInv, Travelling, Request
<1>3. ASSUME NEW k \in req[h].keys, k \notin listed
      PROVE  unlisted[k] \in Nat /\ unlisted[k] + CacheTTL + MaxLag > now
  <2>1. unlisted[k] \in Nat /\ req[h].since <= unlisted[k]
    BY <1>2, <1>3 DEF ListedAt
  <2>2. QED
    BY <1>2, <2>1, NumbersTyped
<1>4. QED
  BY <1>1, <1>2, <1>3, AskingSound, ParsedSound DEF Asking

LEMMA KeysSentSound ==
  ASSUME AuthInv, NEW h \in Handlers, KeysSent(h)
  PROVE  \E new \in Request : req' = [req EXCEPT ![h] = new] /\ Sound(req[h], new)
<1>1. PICK new : new = [req[h] EXCEPT !.pc = "reply", !.keys = listed, !.since = now]
  OBVIOUS
<1>2. now \in Nat /\ listed \in SUBSET Keys /\ req[h].pc = "fetch"
  BY NumbersTyped DEF AuthInv, AuthTypeOK, KeysSent
<1>3. /\ new \in Request /\ new.pc = "reply" /\ new.keys = listed /\ new.since = now
      /\ new.cred = req[h].cred /\ new.vouched = req[h].vouched /\ new.res = req[h].res
  BY <1>1, <1>2, AskingSound DEF Request
<1>4. Travelling(new)
  BY <1>2, <1>3, NumbersTyped DEF Travelling, ListedAt
<1>5. Sound(req[h], new)
  BY <1>2, <1>3, <1>4, AskingSound DEF Sound, Asking, Vouching, Naming, Opened
<1>6. QED
  BY <1>1, <1>3, <1>5 DEF KeysSent, Set

LEMMA FetchFailsSound ==
  ASSUME AuthInv, NEW h \in Handlers, FetchFails(h)
  PROVE  \E new \in Request : req' = [req EXCEPT ![h] = new] /\ Sound(req[h], new)
<1>1. PICK new : new = [req[h] EXCEPT !.pc = "userinfo", !.keys = {}, !.since = 0, !.vouched = FALSE]
  OBVIOUS
<1>2. req[h].pc \in {"fetch", "reply"}
  BY DEF FetchFails
<1>3. /\ new \in Request /\ new.pc = "userinfo" /\ new.vouched = FALSE
      /\ new.cred = req[h].cred /\ new.res = req[h].res
  BY <1>1, AskingSound DEF Request
<1>4. Sound(req[h], new)
  BY <1>2, <1>3, AskingSound DEF Sound, Asking, Vouching, Naming, Travelling, Opened
<1>5. QED
  BY <1>1, <1>3, <1>4 DEF FetchFails, Set

LEMMA UserInfoSound ==
  ASSUME AuthInv, NEW h \in Handlers, UserInfo(h)
  PROVE  \E new \in Request : req' = [req EXCEPT ![h] = new] /\ Sound(req[h], new)
<1>1. req[h].pc = "userinfo" /\ req[h] \in Request /\ req[h].cred \in Tokens
  BY AskingSound DEF UserInfo, Asking
<1>2. PICK org : org = TrimSpace(req[h].cred.info)
  OBVIOUS
<1>3. org \in Orgs \cup {""} /\ (req[h].vouched => req[h].cred \in known /\ org # "")
  BY <1>1, <1>2, TokensTyped, TrimTyped, AskingSound DEF Vouching, Asking
<1>4. CASE req[h].cred \in known /\ org \in Orgs /\ Set(h, Admit(req[h], "userinfo", org))
  <2>1. PICK res \in Caller : Admit(req[h], "userinfo", org) = Done(req[h], res)
                              /\ res # Refused /\ res.via = "userinfo"
    BY <1>1, <1>4, AdmitMade
  <2>2. PICK new : new = Done(req[h], res)
    OBVIOUS
  <2>3. new \in Request /\ new.pc = "done" /\ new.res = res
    BY <1>1, <2>2, DoneMade
  <2>4. Sound(req[h], new)
    BY <2>1, <2>3 DEF Sound, Asking, Vouching, Naming, Travelling, Opened
  <2>5. QED
    BY <1>4, <2>1, <2>2, <2>3, <2>4 DEF Set
<1>5. ASSUME NEW vouched \in {FALSE, req[h].vouched}, ~vouched,
             Set(h, Done([req[h] EXCEPT !.vouched = vouched], Refused))
      PROVE  \E new \in Request : req' = [req EXCEPT ![h] = new] /\ Sound(req[h], new)
  <2>1. PICK r : r = [req[h] EXCEPT !.vouched = vouched]
    OBVIOUS
  <2>2. vouched \in BOOLEAN
    BY <1>1, <1>5 DEF Request
  <2>3. r \in Request /\ r.vouched = vouched
    BY <1>1, <2>1, <2>2 DEF Request
  <2>4. PICK new : new = Done(r, Refused)
    OBVIOUS
  <2>5. new \in Request /\ new.pc = "done" /\ new.vouched = vouched /\ new.res = Refused
    BY <2>3, <2>4, DoneMade
  <2>6. Sound(req[h], new)
    BY <1>5, <2>5, RefusedVia DEF Sound, Asking, Vouching, Naming, Travelling, Opened
  <2>7. QED
    BY <1>5, <2>1, <2>4, <2>5, <2>6 DEF Set
<1>6. CASE ~req[h].vouched /\ Set(h, Done(req[h], Refused))
  <2>1. [req[h] EXCEPT !.vouched = req[h].vouched] = req[h]
    BY <1>1 DEF Request
  <2>2. QED
    BY <1>5, <1>6, <2>1
<1>7. CASE Set(h, Done([req[h] EXCEPT !.vouched = FALSE], Refused))
  BY <1>5, <1>7
<1>8. CASE Set(h, IF req[h].cred \in known THEN Admit(req[h], "userinfo", TrimSpace(req[h].cred.info))
                                          ELSE Done(req[h], Refused))
  <2>1. CASE req[h].cred \in known /\ org \in Orgs
    BY <1>2, <1>4, <1>8, <2>1
  <2>2. CASE req[h].cred \in known /\ org = ""
    BY <1>1, <1>2, <1>3, <1>6, <1>8, <2>2, AdmitMade
  <2>3. CASE req[h].cred \notin known
    BY <1>3, <1>6, <1>8, <2>3
  <2>4. QED
    BY <1>3, <2>1, <2>2, <2>3
<1>9. QED
  BY <1>7, <1>8 DEF UserInfo

\* One step of a request.
Serve(h) == Arrive(h) \/ ReadCache(h) \/ LockCache(h) \/ Call(h) \/ Leave(h)

LEMMA ServeSound ==
  ASSUME AuthInv, NEW h \in Handlers, Serve(h)
  PROVE  /\ \E new \in Request : req' = [req EXCEPT ![h] = new] /\ Sound(req[h], new)
         /\ UNCHANGED <<proc, now, idp>>
<1>1. UNCHANGED <<proc, now, idp>>
  BY DEF Serve, Arrive, ReadCache, LockCache, Call, KeysSent, StoreKeys, FetchFails, UserInfo, Leave, idp
<1>2. CASE ReadCache(h)
  BY <1>2, LookSound, WaitSound DEF ReadCache, Asking, Set
<1>3. CASE LockCache(h)
  BY <1>3, LookSound, WaitSound DEF LockCache, Asking, Set
<1>4. CASE Leave(h)
  <2>1. req' = [req EXCEPT ![h] = IdleReq] /\ req[h].pc = "done"
    BY <1>4 DEF Leave, Set
  <2>2. Sound(req[h], IdleReq)
    BY <2>1, IdleTyped DEF Sound, Asking, Vouching, Naming, Travelling, Opened
  <2>3. QED
    BY <1>1, <2>1, <2>2, IdleTyped
<1>5. QED
  BY <1>1, <1>2, <1>3, <1>4, ArriveSound, KeysSentSound, StoreKeysSound, FetchFailsSound, UserInfoSound
     DEF Serve, Call

-----------------------------------------------------------------------------
(* The steps preserve the invariant.                                       *)

\* The lock and the cache, when a request takes a step.
LEMMA ServeLocks ==
  ASSUME AuthInv, NEW h \in Handlers, Serve(h)
  PROVE  /\ cache' \in [keys : SUBSET Keys, loaded : Nat] \cup {None}
         /\ writer' \in Handlers \cup {None}
         /\ LockInv'
         /\ cache' # None => \A k \in cache'.keys :
               k \in listed \/ (unlisted[k] \in Nat /\ cache'.loaded <= unlisted[k] + MaxLag)
<1>1. PICK new \in Request : req' = [req EXCEPT ![h] = new] /\ Sound(req[h], new)
  BY ServeSound
<1>2. /\ \A g \in Handlers : req'[g] = IF g = h THEN new ELSE req[g]
      /\ UNCHANGED now /\ now \in Nat /\ None \notin Handlers
  BY <1>1, ServeSound, NumbersTyped, TokensTyped DEF AuthInv, AuthTypeOK
<1>3. /\ cache \in [keys : SUBSET Keys, loaded : Nat] \cup {None} /\ writer \in Handlers \cup {None}
      /\ LockInv
      /\ cache # None => \A k \in cache.keys :
            k \in listed \/ (unlisted[k] \in Nat /\ cache.loaded <= unlisted[k] + MaxLag)
  BY DEF AuthInv, AuthTypeOK, KeysInv
<1>4. CASE UNCHANGED <<cache, writer>> /\ (new.pc \in {"fetch", "reply"} <=> req[h].pc \in {"fetch", "reply"})
  BY <1>2, <1>3, <1>4 DEF LockInv, Fresh
<1>5. CASE LockCache(h) /\ ~Fresh
  <2>1. writer = None /\ writer' = h /\ UNCHANGED cache /\ new.pc = "fetch"
    BY <1>1, <1>5 DEF LockCache, Set, AuthInv, AuthTypeOK, Request
  <2>2. QED
    BY <1>2, <1>3, <1>5, <2>1 DEF LockInv, Fresh
<1>6. CASE StoreKeys(h)
  <2>1. /\ req[h] \in Request /\ req[h].pc = "reply" /\ req[h].cred \in Tokens
        /\ req[h].keys \in SUBSET Keys
    BY <1>6, AskingSound DEF StoreKeys, Request, Asking
  <2>2. new = Parsed(req[h], req[h].keys)
    BY <1>1, <1>6 DEF StoreKeys, Set, AuthInv, AuthTypeOK
  <2>3. new.pc \in {"done", "userinfo"}
    BY <2>1, <2>2, ParsedMade
  <2>4. PICK keys \in SUBSET Keys : keys = req[h].keys
    BY <2>1
  <2>5. cache' = [keys |-> keys, loaded |-> now] /\ writer' = None /\ writer = h
    BY <1>3, <1>6, <2>1, <2>4 DEF StoreKeys, LockInv
  <2>6. cache' \in [keys : SUBSET Keys, loaded : Nat] /\ cache'.loaded = now /\ cache'.keys = keys
    BY <1>2, <2>5
  <2>7. LockInv'
    BY <1>2, <1>3, <2>3, <2>5, <2>6 DEF LockInv
  <2>8. ASSUME NEW k \in keys, k \notin listed
        PROVE  unlisted[k] \in Nat /\ now <= unlisted[k] + MaxLag
    <3>1. /\ now <= req[h].since + MaxLag /\ req[h].since \in Nat
          /\ unlisted[k] \in Nat /\ req[h].since <= unlisted[k]
      BY <2>1, <2>4, <2>8 DEF AuthInv, KeysInv, Travelling, ListedAt, Request
    <3>2. QED
      BY <1>2, <3>1, NumbersTyped
  <2>9. QED
    BY <2>5, <2>6, <2>7, <2>8
<1>7. CASE FetchFails(h)
  <2>1. writer' = None /\ UNCHANGED cache /\ req[h].pc \in {"fetch", "reply"}
    BY <1>7 DEF FetchFails
  <2>2. new = [req[h] EXCEPT !.pc = "userinfo", !.keys = {}, !.since = 0, !.vouched = FALSE]
    BY <1>1, <1>7 DEF FetchFails, Set, AuthInv, AuthTypeOK
  <2>3. new.pc = "userinfo"
    BY <2>2, AskingSound DEF Request
  <2>4. writer = h
    BY <1>3, <2>1 DEF LockInv
  <2>5. QED
    BY <1>2, <1>3, <2>1, <2>3, <2>4 DEF LockInv
<1>8. CASE Arrive(h) \/ ReadCache(h) \/ UserInfo(h) \/ Leave(h)
  <2>1. UNCHANGED <<cache, writer>> /\ req[h].pc \in {"idle", "jwks", "userinfo", "done"}
    BY <1>8 DEF Arrive, ReadCache, UserInfo, Leave
  <2>2. new.pc \notin {"fetch", "reply"}
    BY <1>1, <2>1 DEF Sound
  <2>3. QED
    BY <1>4, <2>1, <2>2
<1>9. CASE KeysSent(h)
  <2>1. UNCHANGED <<cache, writer>> /\ req[h].pc = "fetch"
    BY <1>9 DEF KeysSent
  <2>2. new = [req[h] EXCEPT !.pc = "reply", !.keys = listed, !.since = now]
    BY <1>1, <1>9 DEF KeysSent, Set, AuthInv, AuthTypeOK
  <2>3. new.pc = "reply"
    BY <2>2, AskingSound DEF Request
  <2>4. QED
    BY <1>4, <2>1, <2>3
<1>10. CASE LockCache(h) /\ Fresh
  <2>1. /\ UNCHANGED <<cache, writer>> /\ req[h].pc = "lock"
        /\ req[h] \in Request /\ req[h].cred \in Tokens
    BY <1>10, AskingSound DEF LockCache, Asking
  <2>2. new = Parsed(req[h], cache.keys)
    BY <1>1, <1>10 DEF LockCache, Set, AuthInv, AuthTypeOK
  <2>3. new.pc \in {"done", "userinfo"}
    BY <1>10, <2>1, <2>2, FreshKeys, ParsedMade
  <2>4. QED
    BY <1>4, <2>1, <2>3
<1>11. QED
  BY <1>5, <1>6, <1>7, <1>8, <1>9, <1>10 DEF Serve, Call

LEMMA ServeStep ==
  ASSUME AuthInv, NEW h \in Handlers, Serve(h) PROVE AuthInv'
<1>1. PICK new \in Request : req' = [req EXCEPT ![h] = new] /\ Sound(req[h], new)
  BY ServeSound
<1>2. UNCHANGED <<proc, now, listed, unlisted, known>>
  BY ServeSound DEF idp
<1>3. req' \in [Handlers -> Request] /\ \A g \in Handlers : req'[g] = IF g = h THEN new ELSE req[g]
  BY <1>1 DEF AuthInv, AuthTypeOK
<1>4. AuthTypeOK'
  BY <1>2, <1>3, ServeLocks DEF AuthInv, AuthTypeOK
<1>5. AskInv' /\ VouchInv'
  BY <1>1, <1>2, <1>3 DEF AuthInv, AskInv, VouchInv, Vouching, Sound
<1>6. SettingsInv'
  BY <1>1, <1>2, <1>3 DEF AuthInv, SettingsInv, Naming, Sound
<1>7. \A g \in Handlers : Travelling(req[g])'
  BY <1>1, <1>2, <1>3 DEF AuthInv, KeysInv, Travelling, ListedAt, Sound
<1>8. KeysInv'
  BY <1>2, <1>7, ServeLocks DEF KeysInv
<1>9. QED
  BY <1>4, <1>5, <1>6, <1>8, ServeLocks DEF AuthInv

\* The process starts with nobody let in, and keeps its settings until it ends.
LEMMA ProcessStep ==
  ASSUME AuthInv, Boot \/ Stop \/ Exit PROVE AuthInv'
<1>1. CASE Boot
  <2>1. PICK s \in Settings : FromEnv(s) /\ proc' = [state |-> "up", config |-> Config(s), stopped |-> 0]
    BY <1>1 DEF Boot
  <2>2. UNCHANGED <<now, cache, writer, req, listed, unlisted, known>> /\ proc.state = "down"
    BY <1>1 DEF Boot, idp
  <2>3. AuthTypeOK' /\ AskInv' /\ VouchInv' /\ LockInv' /\ KeysInv'
    BY <2>1, <2>2 DEF AuthInv, AuthTypeOK, AskInv, VouchInv, Vouching, LockInv, Fresh,
                      KeysInv, Travelling, ListedAt
  <2>4. SettingsInv'
    BY <2>1, <2>2 DEF AuthInv, SettingsInv, Naming
  <2>5. QED
    BY <2>3, <2>4 DEF AuthInv
<1>2. CASE Stop
  <2>1. /\ UNCHANGED <<now, cache, writer, req, listed, unlisted, known>>
        /\ proc.state = "up" /\ proc' = [proc EXCEPT !.state = "draining", !.stopped = now]
    BY <1>2 DEF Stop, idp
  <2>2. proc \in [state : {"up", "draining"}, stopped : Nat, config : {Config(s) : s \in Settings}]
    BY <2>1 DEF AuthInv, AuthTypeOK, Down
  <2>3. /\ proc' \in [state : {"up", "draining"}, stopped : Nat, config : {Config(s) : s \in Settings}]
        /\ proc'.state = "draining" /\ proc'.config = proc.config
    <3>1. now \in Nat
      BY NumbersTyped DEF AuthInv, AuthTypeOK
    <3>2. PICK configs : configs = {Config(s) : s \in Settings}
      OBVIOUS
    <3>3. QED
      BY <2>1, <2>2, <3>1, <3>2
  <2>4. AuthTypeOK' /\ AskInv' /\ VouchInv' /\ LockInv' /\ KeysInv'
    BY <2>1, <2>3 DEF AuthInv, AuthTypeOK, AskInv, VouchInv, Vouching, LockInv, Fresh,
                      KeysInv, Travelling, ListedAt
  <2>5. SettingsInv'
    BY <2>1, <2>3 DEF AuthInv, SettingsInv, Naming
  <2>6. QED
    BY <2>4, <2>5 DEF AuthInv
<1>3. CASE Exit
  <2>1. /\ proc' = Down /\ cache' = None /\ writer' = None
        /\ req' = [h \in Handlers |-> IdleReq] /\ UNCHANGED <<now, listed, unlisted, known>>
    BY <1>3 DEF Exit, idp
  <2>2. AuthTypeOK'
    BY <2>1, IdleTyped DEF AuthInv, AuthTypeOK
  <2>3. AskInv' /\ VouchInv' /\ SettingsInv' /\ LockInv' /\ KeysInv'
    BY <2>1, IdleTyped, TokensTyped DEF Asking, AskInv, VouchInv, Vouching, SettingsInv, Naming, Down,
                                        LockInv, KeysInv, Travelling
  <2>4. QED
    BY <2>2, <2>3 DEF AuthInv
<1>4. QED
  BY <1>1, <1>2, <1>3

\* Keys come and go; what was sent or stored was listed then.
LEMMA KeyStep ==
  ASSUME AuthInv, NEW k \in Keys, Publish(k) \/ Retire(k) PROVE AuthInv'
<1>1. UNCHANGED <<proc, now, cache, writer, req, known>>
  BY DEF Publish, Retire
<1>2. /\ listed' \in SUBSET Keys /\ unlisted' \in [Keys -> Nat \cup {None}]
      /\ \A j \in Keys : /\ j \notin listed' /\ j \notin listed => unlisted'[j] = unlisted[j]
                         /\ j \notin listed' /\ j \in listed => unlisted'[j] = now
  BY NumbersTyped DEF Publish, Retire, AuthInv, AuthTypeOK
<1>3. AuthTypeOK' /\ AskInv' /\ VouchInv' /\ SettingsInv' /\ LockInv'
  BY <1>1, <1>2 DEF AuthInv, AuthTypeOK, AskInv, VouchInv, Vouching, SettingsInv, Naming, LockInv, Fresh
<1>4. now \in Nat /\ \A h \in Handlers : req[h].keys \in SUBSET Keys
  BY NumbersTyped DEF AuthInv, AuthTypeOK, Request
<1>5. \A h \in Handlers : Travelling(req[h])'
  BY <1>1, <1>2, <1>4 DEF AuthInv, KeysInv, Travelling, ListedAt
<1>6. ASSUME cache # None, NEW j \in cache.keys, j \notin listed'
      PROVE  unlisted'[j] \in Nat /\ cache.loaded <= unlisted'[j] + MaxLag
  <2>1. j \in Keys /\ cache.loaded \in Nat /\ cache.loaded <= now
    BY <1>6 DEF AuthInv, AuthTypeOK, LockInv
  <2>2. CASE j \in listed
    BY <1>2, <1>4, <1>6, <2>1, <2>2, NumbersTyped
  <2>3. CASE j \notin listed
    BY <1>2, <1>6, <2>1, <2>3 DEF AuthInv, KeysInv
  <2>4. QED
    BY <2>2, <2>3
<1>7. KeysInv'
  BY <1>1, <1>5, <1>6 DEF KeysInv
<1>8. QED
  BY <1>3, <1>7 DEF AuthInv

LEMMA RevokeStep ==
  ASSUME AuthInv, NEW t \in Tokens, Revoke(t) PROVE AuthInv'
<1>1. /\ UNCHANGED <<proc, now, cache, writer, listed, unlisted>> /\ known' = known \ {t}
      /\ req' = [h \in Handlers |-> IF req[h].cred = t
                                    THEN [req[h] EXCEPT !.vouched = FALSE] ELSE req[h]]
  BY DEF Revoke
<1>2. ASSUME NEW h \in Handlers
      PROVE  /\ req'[h] \in Request
             /\ req'[h].pc = req[h].pc /\ req'[h].cred = req[h].cred /\ req'[h].res = req[h].res
             /\ req'[h].keys = req[h].keys /\ req'[h].since = req[h].since
             /\ req'[h].vouched => req[h].vouched /\ req[h].cred # t
  <2>1. req[h] \in Request
    BY DEF AuthInv, AuthTypeOK
  <2>2. CASE req[h].cred = t
    BY <1>1, <2>1, <2>2 DEF Request
  <2>3. CASE req[h].cred # t
    BY <1>1, <2>1, <2>3
  <2>4. QED
    BY <2>2, <2>3
<1>3. req' \in [Handlers -> Request]
  BY <1>1, <1>2
<1>4. AuthTypeOK'
  BY <1>1, <1>3 DEF AuthInv, AuthTypeOK
<1>5. AskInv' /\ VouchInv' /\ SettingsInv'
  BY <1>1, <1>2 DEF AuthInv, AskInv, VouchInv, Vouching, SettingsInv, Naming
<1>6. LockInv' /\ KeysInv'
  BY <1>1, <1>2 DEF AuthInv, LockInv, Fresh, KeysInv, Travelling, ListedAt
<1>7. QED
  BY <1>4, <1>5, <1>6 DEF AuthInv

LEMMA TickStep ==
  ASSUME AuthInv, Tick PROVE AuthInv'
<1>1. UNCHANGED <<proc, cache, writer, req, listed, unlisted, known>> /\ now' = now + 1 /\ now < MaxTime
  BY DEF Tick, idp
<1>2. now \in Nat
  BY NumbersTyped DEF AuthInv, AuthTypeOK
<1>3. AuthTypeOK'
  BY <1>1, <1>2, NumbersTyped DEF AuthInv, AuthTypeOK
<1>4. AskInv' /\ VouchInv' /\ SettingsInv'
  BY <1>1 DEF AuthInv, AskInv, VouchInv, Vouching, SettingsInv, Naming
<1>5. cache # None => cache.loaded \in Nat
  BY DEF AuthInv, AuthTypeOK
<1>6. LockInv'
  BY <1>1, <1>2, <1>5, NumbersTyped DEF AuthInv, LockInv, Fresh
<1>7. ASSUME NEW h \in Handlers PROVE Travelling(req[h])'
  <2>1. req[h].since \in Nat
    BY DEF AuthInv, AuthTypeOK, Request
  <2>2. req[h].pc = "reply" => now < req[h].since + MaxLag
    BY DEF Tick
  <2>3. QED
    BY <1>1, <1>2, <2>1, <2>2, NumbersTyped DEF AuthInv, KeysInv, Travelling, ListedAt
<1>8. KeysInv'
  BY <1>1, <1>7 DEF AuthInv, KeysInv
<1>9. QED
  BY <1>3, <1>4, <1>6, <1>8 DEF AuthInv

-----------------------------------------------------------------------------
(* The theorems.                                                           *)

(* The strengthening: what a request has seen of the settings, of the cache *)
(* and of the lock stays true while others load keys or the process stops. *)
THEOREM AuthInductive == AuthSpec => []AuthInv
<1>1. AuthInit => AuthInv
  <2> SUFFICES ASSUME AuthInit PROVE AuthInv
    OBVIOUS
  <2>1. AuthTypeOK
    <3>1. proc = Down /\ now \in 0 .. MaxTime /\ cache = None /\ writer = None
      BY NumbersTyped DEF AuthInit
    <3>2. req \in [Handlers -> Request] /\ listed \in SUBSET Keys
          /\ unlisted \in [Keys -> Nat \cup {None}] /\ known \subseteq Tokens
      BY IdleTyped DEF AuthInit
    <3>3. QED
      BY <3>1, <3>2 DEF AuthTypeOK
  <2>2. AskInv /\ VouchInv /\ SettingsInv /\ LockInv /\ KeysInv
    BY IdleTyped, TokensTyped DEF AuthInit, Asking, AskInv, VouchInv, Vouching, SettingsInv, Naming, Down,
                                  LockInv, KeysInv, Travelling
  <2>3. QED
    BY <2>1, <2>2 DEF AuthInv
<1>2. AuthInv /\ [AuthNext]_authVars => AuthInv'
  <2> SUFFICES ASSUME AuthInv, [AuthNext]_authVars PROVE AuthInv'
    OBVIOUS
  <2>1. CASE AuthNext
    BY <2>1, ServeStep, ProcessStep, KeyStep, RevokeStep, TickStep DEF AuthNext, Serve
  <2>2. CASE UNCHANGED authVars
    BY <2>2 DEF authVars, idp, AuthInv, AuthTypeOK, AskInv, VouchInv, Vouching, SettingsInv, Naming,
                LockInv, Fresh, KeysInv, Travelling, ListedAt
  <2>3. QED
    BY <2>1, <2>2
<1>3. QED
  BY <1>1, <1>2, PTL DEF AuthSpec

(* Cache, lock and requests are always of their types, and whoever is let  *)
(* in acts for an organisation.                                            *)
THEOREM AuthTyping == AuthSpec => []AuthTypeOK
<1>1. AuthInv => AuthTypeOK
  BY DEF AuthInv
<1>2. QED
  BY <1>1, AuthInductive, PTL

(* A token the provider answers for is accepted, as long as no call fails. *)
THEOREM VouchedAreLetIn == AuthSpec => []VouchedIsAccepted
<1>1. AuthInv => VouchedIsAccepted
  BY DEF AuthInv, VouchInv, Vouching, VouchedIsAccepted
<1>2. QED
  BY <1>1, AuthInductive, PTL

(* However the settings are spelled, in staging and production a header    *)
(* lets nobody in, and a token can.                                        *)
THEOREM HeadersNameNobody == AuthSpec => []NoDevUserInProduction
<1>1. ASSUME AuthInv PROVE NoDevUserInProduction
  <2> SUFFICES ASSUME proc.state # "down", proc.config.env \in {"staging", "production"}
               PROVE  /\ proc.config.issuer
                      /\ \A h \in Handlers : req[h].res \in Caller => req[h].res.via # "dev"
    BY DEF NoDevUserInProduction
  <2>1. PICK s \in Settings : FromEnv(s) /\ proc.config = Config(s)
    BY <1>1 DEF AuthInv, SettingsInv
  <2>2. PICK issuer \in BOOLEAN : issuer <=> Lowered[s.issuer] # ""
    OBVIOUS
  <2>3. (Lowered[s.issuer] # "") = issuer
    BY <2>2
  <2>4. proc.config = [env |-> NormalizeEnv(s.env), devAuth |-> EnvBool(s.dev, TRUE), issuer |-> issuer]
    BY <2>1, <2>3 DEF Config
  <2>5. /\ proc.config.env = NormalizeEnv(s.env)
        /\ proc.config.devAuth = EnvBool(s.dev, TRUE) /\ proc.config.issuer = issuer
    BY <2>4
  <2>6. ~EnvBool(s.dev, TRUE) /\ issuer
    BY <2>1, <2>2, <2>5 DEF FromEnv
  <2>7. QED
    BY <1>1, <2>5, <2>6 DEF AuthInv, SettingsInv, Naming
<1>2. QED
  BY <1>1, AuthInductive, PTL

(* However many requests find the cache expired, the provider is asked for *)
(* its keys once in the lifetime of the cache.                             *)
THEOREM KeysAreFetchedOnce == AuthSpec => FetchesAreApart
<1>1. ASSUME AuthInv, [AuthNext]_authVars, cache # None, cache' \notin {cache, None}
      PROVE  cache'.loaded >= cache.loaded + CacheTTL
  <2>1. PICK h \in Handlers : StoreKeys(h)
    BY <1>1 DEF AuthNext, Call, Arrive, ReadCache, LockCache, KeysSent, FetchFails, UserInfo, Leave,
                Boot, Stop, Exit, Publish, Retire, Revoke, Tick, authVars
  <2>2. ~Fresh
    BY <1>1, <2>1, TokensTyped DEF StoreKeys, AuthInv, LockInv
  <2>3. cache'.loaded = now
    BY <2>1 DEF StoreKeys
  <2>4. now \in Nat /\ cache.loaded \in Nat
    BY <1>1, NumbersTyped DEF AuthInv, AuthTypeOK
  <2>5. QED
    BY <1>1, <2>2, <2>3, <2>4, NumbersTyped DEF Fresh
<1>2. AuthInv /\ [AuthNext]_authVars =>
         [cache # None /\ cache' \notin {cache, None} => cache'.loaded >= cache.loaded + CacheTTL]_authVars
  BY <1>1
<1>3. QED
  BY <1>2, AuthInductive, PTL DEF AuthSpec, FetchesAreApart

(* A key opens nothing any more once it was withdrawn, its answer has      *)
(* travelled and the cache has had its time.                               *)
THEOREM WithdrawnKeysExpire == AuthSpec => StaleKeysExpire
<1> DEFINE Expiry ==
       \A h \in Handlers :
          req[h].pc # "done" /\ req'[h].pc = "done" /\ req'[h].res.via = "jwt" =>
              \/ req[h].cred.key \in listed
              \/ unlisted[req[h].cred.key] + CacheTTL + MaxLag > now
<1>1. ASSUME AuthInv, AuthNext PROVE Expiry
  <2>1. ASSUME NEW g \in Handlers, Serve(g) PROVE Expiry
    <3>1. PICK new \in Request : req' = [req EXCEPT ![g] = new] /\ Sound(req[g], new)
      BY <1>1, <2>1, ServeSound
    <3>2. \A h \in Handlers : req'[h] = IF h = g THEN new ELSE req[h]
      BY <1>1, <3>1 DEF AuthInv, AuthTypeOK
    <3>3. QED
      BY <3>1, <3>2 DEF Sound, Opened
  <2>2. CASE \E t \in Tokens : Revoke(t)
    <3>1. \A h \in Handlers : req[h] \in Request
      BY <1>1 DEF AuthInv, AuthTypeOK
    <3>2. \A h \in Handlers : req'[h] = req[h] \/ req'[h] = [req[h] EXCEPT !.vouched = FALSE]
      BY <2>2 DEF Revoke
    <3>3. \A h \in Handlers : req'[h].pc = req[h].pc
      BY <3>1, <3>2 DEF Request
    <3>4. QED
      BY <3>3
  <2>3. CASE Exit
    <3>1. \A h \in Handlers : req'[h].pc = "idle"
      BY <2>3, IdleTyped DEF Exit
    <3>2. QED
      BY <3>1
  <2>4. CASE UNCHANGED req
    BY <2>4
  <2>5. QED
    BY <1>1, <2>1, <2>2, <2>3, <2>4 DEF AuthNext, Serve, Boot, Stop, Publish, Retire, Tick
<1>2. AuthInv /\ [AuthNext]_authVars => [Expiry]_authVars
  BY <1>1
<1>3. QED
  BY <1>2, AuthInductive, PTL DEF AuthSpec, StaleKeysExpire

(* A request is cut off only when Shutdown has waited its time.            *)
THEOREM ShutdownWaits == AuthSpec => ShutdownIsPatient
<1> DEFINE Patient ==
       \A h \in Handlers :
          req[h].pc # "idle" /\ req'[h].pc = "idle" /\ req[h].pc # "done" =>
              now >= proc.stopped + Patience
<1>1. ASSUME AuthInv, AuthNext PROVE Patient
  <2>1. ASSUME NEW g \in Handlers, Serve(g) PROVE Patient
    <3>1. PICK new \in Request : req' = [req EXCEPT ![g] = new] /\ Sound(req[g], new)
      BY <1>1, <2>1, ServeSound
    <3>2. \A h \in Handlers : req'[h] = IF h = g THEN new ELSE req[h]
      BY <1>1, <3>1 DEF AuthInv, AuthTypeOK
    <3>3. QED
      BY <3>1, <3>2 DEF Sound
  <2>2. CASE \E t \in Tokens : Revoke(t)
    <3>1. \A h \in Handlers : req[h] \in Request
      BY <1>1 DEF AuthInv, AuthTypeOK
    <3>2. \A h \in Handlers : req'[h] = req[h] \/ req'[h] = [req[h] EXCEPT !.vouched = FALSE]
      BY <2>2 DEF Revoke
    <3>3. \A h \in Handlers : req'[h].pc = req[h].pc
      BY <3>1, <3>2 DEF Request
    <3>4. QED
      BY <3>3
  <2>3. CASE Exit
    BY <2>3 DEF Exit
  <2>4. CASE UNCHANGED req
    BY <2>4
  <2>5. QED
    BY <1>1, <2>1, <2>2, <2>3, <2>4 DEF AuthNext, Serve, Boot, Stop, Publish, Retire, Tick
<1>2. AuthInv /\ [AuthNext]_authVars => [Patient]_authVars
  BY <1>1
<1>3. QED
  BY <1>2, AuthInductive, PTL DEF AuthSpec, ShutdownIsPatient
=============================================================================
