----------------------------- MODULE SharesProofs -----------------------------
(***************************************************************************)
(* Shares for any number of owners, files, tokens, passwords and requests, *)
(* any lifetimes and any width of an integer: types, whose links there     *)
(* are, how long they and the URLs handed out through them are good, and   *)
(* who is let in.                                                          *)
(***************************************************************************)
EXTENDS Shares, TLAPS

-----------------------------------------------------------------------------
(* The inductive invariant.                                                *)

\* A hash that a release has made: of a password, at its own cost.
OwnHash(hash) == hash # None => hash.sum[1] # "" /\ hash.sum = <<hash.sum[1], hash.cost>>

\* The rows and tokens a request carries from one call to the next.
Shaped(r) ==
    /\ r.pc \in {"insert", "file"} => r.link \in LinkRow /\ OwnHash(r.link.hash)
    /\ r.pc \in {"unlink", "file"} => r.token \in Tokens
    /\ r.pc = "file" => r.op \in {"view", "download"}

ShapeInv ==
    /\ \A h \in Handlers : Shaped(req[h])
    /\ \A t \in Tokens : links[t] # None => OwnHash(links[t].hash)

\* A link that is about to be made, and every link that was.
Lasting(link) == link.created < link.expires /\ link.expires <= link.created + MaxTTL
Owned(link) == files[link.file] # None => files[link.file].owner = link.owner

LinkInv ==
    /\ \A t \in Tokens : links[t] # None =>
          Lasting(links[t]) /\ Owned(links[t]) /\ files[links[t].file] # None
    /\ \A h \in Handlers : req[h].pc = "insert" => Lasting(req[h].link) /\ Owned(req[h].link)

(***************************************************************************)
(* A visitor is answered at most MaxLag after the link was looked at,      *)
(* which had not expired then; and a token that was taken back is never    *)
(* given again.                                                            *)
(***************************************************************************)
EndOf(t) == IF links[t] # None THEN links[t].expires ELSE ended[t]

GrantInv ==
    /\ \A t \in Tokens : links[t] # None => ended[t] = None
    /\ \A t \in Tokens : granted[t] # 0 =>
          /\ EndOf(t) \in Nat
          /\ granted[t] <= now + PresignTTL
          /\ granted[t] <= MaxLag + PresignTTL + EndOf(t)
    /\ \A h \in Handlers : req[h].pc = "file" =>
          /\ req[h].since <= now /\ now <= req[h].since + MaxLag
          /\ EndOf(req[h].token) \in Nat /\ EndOf(req[h].token) >= req[h].since

\* What a visitor was let in for, and what there still is to show.
Admits(r) == PasswordOf(r.link) \in {"", SharePassword(r.plain)}
Expects(r) == PasswordOf(r.link) = "" \/ (r.plain = PasswordOf(r.link) /\ SharePassword(r.plain) = r.plain)
Shows(f) == files[f] # None /\ Shown(files[f].state) # {}

ServeInv ==
    \A h \in Handlers :
        /\ req[h].pc = "file" => Admits(req[h])
        /\ req[h].pc = "file" /\ req[h].good => Shows(req[h].link.file)
        /\ Visited(h) /\ req[h].res = "ok" => Admits(req[h])
        /\ Visited(h) /\ req[h].good /\ Expects(req[h]) => req[h].res = "ok"

-----------------------------------------------------------------------------
(* The operators.                                                          *)

LEMMA NumbersTyped ==
  /\ {NsPerSecond, Half, DefaultTTL, MaxTTL, MaxCost} \subseteq Nat \ {0}
  /\ DefaultTTL <= MaxTTL /\ {PresignTTL, MaxLag, MaxTime} \subseteq Nat
  /\ Seconds \subseteq Int
  BY Zenon, SharesAssumption

\* Whatever a multiplication wraps to, a link is given a time to live.
LEMMA LifetimeBounded ==
  ASSUME NEW s \in Seconds, TTLOf(s) # None PROVE TTLOf(s) \in 1 .. MaxTTL
<1>1. \A n \in Int : Wrap(n) \in Int
  <2>1. Half \in Int /\ 2 * Half \in Nat \ {0}
    BY NumbersTyped
  <2>2. \A a \in Int, b \in Nat \ {0} : a % b \in Int
    BY SMT
  <2>3. QED
    BY <2>1, <2>2 DEF Wrap
<1>2. s * NsPerSecond \in Int
  <2>1. s \in Int /\ NsPerSecond \in Int
    BY NumbersTyped
  <2>2. QED
    BY <2>1
<1>3. PICK ttl \in Int : ttl = Wrap(s * NsPerSecond)
  BY <1>1, <1>2
<1>4. TTLOf(s) = CASE ttl <= 0 -> DefaultTTL [] ttl > MaxTTL -> None [] OTHER -> ttl
  BY <1>3 DEF TTLOf
<1>5. QED
  BY <1>3, <1>4, NumbersTyped

\* The hash of a password is one that this release has made.
LEMMA HashMade ==
  ASSUME SharesTypeOK, NEW plain \in Passwords
  PROVE  Hash(plain) \in Hashes /\ (plain # "" => OwnHash(Hash(plain)))
<1>1. IDKey(plain, cost) = <<plain, cost>> /\ cost \in 1 .. MaxCost
  BY DEF SharesTypeOK, IDKey
<1>2. PICK digest : digest = <<plain, cost>>
  OBVIOUS
<1>3. Hash(plain) = [algo |-> "argon2id", cost |-> cost, sum |-> digest]
  BY <1>1, <1>2 DEF Hash
<1>4. digest \in Passwords \X (1 .. MaxCost)
  BY <1>1, <1>2
<1>5. Hash(plain) \in Hashes
  BY <1>1, <1>3, <1>4 DEF Hashes
<1>6. Hash(plain).sum = digest /\ Hash(plain).cost = cost
  BY <1>3
<1>7. digest[1] = plain
  BY <1>2
<1>8. QED
  BY <1>2, <1>5, <1>6, <1>7 DEF OwnHash

\* A release verifies what any release has hashed, and nothing else.
LEMMA VerifyExact ==
  ASSUME NEW hash \in Hashes, hash # None, OwnHash(hash), NEW plain \in Passwords
  PROVE  ParsePHC(hash) /\ (Verify(plain, hash) <=> plain = hash.sum[1])
<1>1. hash.algo = "argon2id" /\ hash.cost \in 1 .. MaxCost /\ hash.sum \in Passwords \X (1 .. MaxCost)
  BY DEF Hashes
<1>2. ParsePHC(hash)
  BY <1>1, NumbersTyped DEF ParsePHC
<1>3. PICK p : p = hash.sum[1]
  OBVIOUS
<1>4. p # "" /\ hash.sum = <<p, hash.cost>>
  BY <1>3 DEF OwnHash
<1>5. <<plain, hash.cost>> = <<p, hash.cost>> <=> plain = p
  OBVIOUS
<1>6. IDKey(plain, hash.cost) = hash.sum <=> plain = p
  BY <1>4, <1>5 DEF IDKey
<1>7. QED
  BY <1>2, <1>3, <1>4, <1>6 DEF Verify

\* Who is let in has the password, and who has it is let in.
LEMMA PasswordDecides ==
  ASSUME NEW link \in LinkRow, OwnHash(link.hash), NEW plain \in Passwords
  PROVE  /\ SharePasswordOK(link, plain) \in Answers
         /\ SharePasswordOK(link, plain) = "ok" <=> PasswordOf(link) \in {"", plain}
<1>1. link.hash \in Hashes \cup {None}
  BY DEF LinkRow
<1>2. CASE link.hash = None
  BY <1>2 DEF SharePasswordOK, PasswordOf, Answers
<1>3. CASE link.hash # None
  <2>1. PasswordOf(link) = link.hash.sum[1] /\ PasswordOf(link) # ""
    BY <1>3 DEF PasswordOf, OwnHash
  <2>2. CASE plain = ""
    BY <1>3, <2>1, <2>2 DEF SharePasswordOK, Answers
  <2>3. CASE plain # ""
    <3>1. ParsePHC(link.hash) /\ (Verify(plain, link.hash) <=> plain = link.hash.sum[1])
      BY <1>1, <1>3, VerifyExact
    <3>2. SharePasswordOK(link, plain) = IF plain = link.hash.sum[1] THEN "ok" ELSE "forbidden"
      BY <1>3, <2>3, <3>1 DEF SharePasswordOK
    <3>3. QED
      BY <2>1, <3>2 DEF Answers
  <2>4. QED
    BY <2>2, <2>3
<1>4. QED
  BY <1>2, <1>3

-----------------------------------------------------------------------------
(* What the requests make of themselves.                                   *)

\* An owner's request, which never waits for a file to show.
Owning(new) ==
    /\ Shaped(new) /\ new.op \notin {"view", "download"} /\ new.pc # "file"
    /\ new.pc = "insert" => Lasting(new.link) /\ Owned(new.link)

LEMMA NoPassword == "" \in Passwords
  BY Zenon, SharesAssumption

LEMMA IdleTyped == IdleReq \in Request /\ Owning(IdleReq)
  BY NoPassword DEF IdleReq, Request, Owning, Shaped, Answers

LEMMA AnswerMade ==
  ASSUME NEW h \in Handlers, NEW op \in {"create", "revoke"}, NEW res \in Answers, Answer(h, op, res)
  PROVE  \E new \in Request : req' = [req EXCEPT ![h] = new] /\ Owning(new)
<1> DEFINE new == [IdleReq EXCEPT !.op = op, !.pc = "done", !.res = res]
<1>1. new \in Request /\ Owning(new)
  BY NoPassword DEF IdleReq, Request, Owning, Shaped
<1>2. req' = [req EXCEPT ![h] = new]
  BY DEF Answer
<1>3. QED
  BY <1>1, <1>2

LEMMA CreateStartMade ==
  ASSUME SharesTypeOK, NEW h \in Handlers, CreateStart(h)
  PROVE  \E new \in Request : req' = [req EXCEPT ![h] = new] /\ Owning(new)
<1>1. PICK who \in Owners, f \in FileIds, s \in Seconds, plain \in Passwords :
         LET hash == IF plain = "" THEN None ELSE Hash(plain) IN
         CASE TTLOf(s) = None -> Answer(h, "create", "invalid")
           [] TTLOf(s) # None /\ (files[f] = None \/ (files[f] # None /\ files[f].owner # who)) ->
                 Answer(h, "create", "notfound")
           [] OTHER -> IF files[f].state.status = "failed" THEN Answer(h, "create", "invalid")
                       ELSE req' = [req EXCEPT ![h] = [IdleReq EXCEPT !.op = "create", !.pc = "insert",
                                      !.since = now, !.link = [file |-> f, owner |-> who, hash |-> hash,
                                                               expires |-> now + TTLOf(s), created |-> now]]]
  BY DEF CreateStart
<1>2. CASE Answer(h, "create", "invalid") \/ Answer(h, "create", "notfound")
  BY <1>2, AnswerMade DEF Answers
<1>3. CASE ~(Answer(h, "create", "invalid") \/ Answer(h, "create", "notfound"))
  <2> DEFINE hash == IF plain = "" THEN None ELSE Hash(plain)
             link == [file |-> f, owner |-> who, hash |-> hash,
                      expires |-> now + TTLOf(s), created |-> now]
             new  == [IdleReq EXCEPT !.op = "create", !.pc = "insert", !.since = now, !.link = link]
  <2>1. /\ TTLOf(s) # None /\ files[f] # None /\ files[f].owner = who
        /\ req' = [req EXCEPT ![h] = new]
    BY <1>1, <1>3
  <2>2. hash \in Hashes \cup {None} /\ OwnHash(hash)
    <3>1. CASE plain = ""
      BY <3>1 DEF OwnHash
    <3>2. CASE plain # ""
      BY <3>2, HashMade
    <3>3. QED
      BY <3>1, <3>2
  <2>3. PICK ttl \in 1 .. MaxTTL : ttl = TTLOf(s)
    BY <2>1, LifetimeBounded
  <2>4. now \in Nat /\ MaxTTL \in Nat /\ now + ttl \in Nat
    BY <2>3, NumbersTyped DEF SharesTypeOK
  <2> HIDE DEF hash
  <2>5. link \in LinkRow
    BY <2>2, <2>3, <2>4 DEF LinkRow
  <2>6. OwnHash(link.hash) /\ Lasting(link) /\ Owned(link)
    BY <2>1, <2>2, <2>3, <2>4 DEF Lasting, Owned
  <2> HIDE DEF link
  <2>7. new \in Request /\ new.link = link /\ new.pc = "insert" /\ new.op = "create"
    BY <2>4, <2>5, NoPassword DEF IdleReq, Request, Answers
  <2> HIDE DEF new
  <2>8. Owning(new)
    BY <2>5, <2>6, <2>7 DEF Owning, Shaped
  <2>9. QED
    BY <2>1, <2>7, <2>8
<1>4. QED
  BY <1>2, <1>3

LEMMA OwnerMade ==
  ASSUME SharesTypeOK, ShapeInv, NEW h \in Handlers,
         CreateStart(h) \/ CreateInsert(h) \/ RevokeStart(h) \/ RevokeUnlink(h) \/ Reply(h)
  PROVE  \E new \in Request : req' = [req EXCEPT ![h] = new] /\ Owning(new)
<1>1. CASE CreateStart(h)
  BY <1>1, CreateStartMade
<1>2. CASE CreateInsert(h)
  BY <1>2, AnswerMade DEF CreateInsert, PgCreateShareLink, Answers
<1>3. CASE RevokeStart(h)
  <2>1. CASE Answer(h, "revoke", "notfound")
    BY <2>1, AnswerMade DEF Answers
  <2>2. CASE ~Answer(h, "revoke", "notfound")
    <3>1. PICK t \in Tokens : req' = [req EXCEPT ![h] = [IdleReq EXCEPT !.op = "revoke", !.pc = "unlink",
                                                                        !.token = t, !.since = now]]
      BY <1>3, <2>2 DEF RevokeStart
    <3> DEFINE new == [IdleReq EXCEPT !.op = "revoke", !.pc = "unlink", !.token = t, !.since = now]
    <3>2. now \in Nat
      BY NumbersTyped DEF SharesTypeOK
    <3>3. new \in Request
      BY <3>2, NoPassword DEF IdleReq, Request, Answers
    <3>4. new.op = "revoke" /\ new.pc = "unlink" /\ new.token = t
      BY DEF IdleReq
    <3> HIDE DEF new
    <3>5. QED
      BY <3>1, <3>3, <3>4 DEF Owning, Shaped, new
  <2>3. QED
    BY <2>1, <2>2
<1>4. CASE RevokeUnlink(h)
  BY <1>4, AnswerMade DEF RevokeUnlink, Answers
<1>5. CASE Reply(h)
  BY <1>5, IdleTyped DEF Reply
<1>6. QED
  BY <1>1, <1>2, <1>3, <1>4, <1>5

\* A visitor who is let in, and one who is turned away.
Entering(new) ==
    /\ new.op \in {"view", "download"} /\ new.pc \in {"file", "done"}
    /\ new.pc = "file" =>
          /\ new.since = now /\ new.token \in Tokens
          /\ links[new.token] # None /\ new.link = links[new.token] /\ now < new.link.expires
          /\ Admits(new) /\ (new.good => Shows(new.link.file))
    /\ new.pc = "done" => new.res # "ok" /\ ~(new.good /\ Expects(new))

LEMMA ResolveLinkMade ==
  ASSUME SharesTypeOK, ShapeInv, NEW h \in Handlers, ResolveLink(h)
  PROVE  \E new \in Request : req' = [req EXCEPT ![h] = new] /\ Shaped(new) /\ Entering(new)
<1>1. PICK t \in Tokens, plain \in Passwords, op \in {"view", "download"} :
         LET seen == [IdleReq EXCEPT !.op = op, !.token = t, !.link = links[t], !.plain = plain,
                                     !.good = GoodNow(t)]
             refused ==
                CASE links[t] = None -> "notfound"
                  [] links[t] # None /\ Expired(links[t]) -> "expired"
                  [] OTHER -> SharePasswordOK(links[t], SharePassword(plain))
         IN req' = [req EXCEPT ![h] = IF refused = "ok" THEN [seen EXCEPT !.pc = "file", !.since = now]
                                      ELSE [seen EXCEPT !.pc = "done", !.res = refused]]
  BY DEF ResolveLink
<1> DEFINE refused == CASE links[t] = None -> "notfound"
                        [] links[t] # None /\ Expired(links[t]) -> "expired"
                        [] OTHER -> SharePasswordOK(links[t], SharePassword(plain))
           seen == [IdleReq EXCEPT !.op = op, !.token = t, !.link = links[t], !.plain = plain,
                                   !.good = GoodNow(t)]
           new  == IF refused = "ok" THEN [seen EXCEPT !.pc = "file", !.since = now]
                                     ELSE [seen EXCEPT !.pc = "done", !.res = refused]
<1>2. req' = [req EXCEPT ![h] = new]
  BY <1>1
<1>3. links[t] \in LinkRow \cup {None} /\ now \in Nat /\ (links[t] # None => OwnHash(links[t].hash))
  BY DEF SharesTypeOK, ShapeInv
<1>4. SharePassword(plain) \in Passwords
  BY SharesAssumption DEF SharePassword
<1>5. links[t] # None => links[t].expires \in Nat
  BY <1>3 DEF LinkRow
<1>6. links[t] # None =>
         /\ SharePasswordOK(links[t], SharePassword(plain)) \in Answers
         /\ SharePasswordOK(links[t], SharePassword(plain)) = "ok"
               <=> PasswordOf(links[t]) \in {"", SharePassword(plain)}
  BY <1>3, <1>4, PasswordDecides
<1>7. GoodNow(t) \in BOOLEAN /\ (GoodNow(t) => links[t] # None /\ now < links[t].expires
                                              /\ Shows(links[t].file))
  BY DEF GoodNow, Good, Shows
<1>8. refused \in Answers
  BY <1>6 DEF Answers
<1>9. refused = "ok" <=> links[t] # None /\ now < links[t].expires
                         /\ PasswordOf(links[t]) \in {"", SharePassword(plain)}
  <2>1. CASE links[t] = None
    BY <2>1
  <2>2. CASE links[t] # None /\ Expired(links[t])
    <3>1. refused = "expired"
      BY <2>2
    <3>2. now >= links[t].expires
      BY <2>2 DEF Expired
    <3>3. ~(now < links[t].expires)
      BY <1>5, <1>3, <2>2, <3>2
    <3> HIDE DEF refused
    <3>4. QED
      BY <3>1, <3>3
  <2>3. CASE links[t] # None /\ ~Expired(links[t])
    <3>1. refused = SharePasswordOK(links[t], SharePassword(plain))
      BY <2>3
    <3>2. now < links[t].expires
      BY <1>5, <1>3, <2>3 DEF Expired
    <3> HIDE DEF refused
    <3>3. QED
      BY <1>6, <2>3, <3>1, <3>2
  <2>4. QED
    BY <2>1, <2>2, <2>3
<1>10. PICK good \in BOOLEAN : good = GoodNow(t)
  BY <1>7
<1> HIDE DEF refused
<1>11. /\ new \in Request
       /\ new.op = op /\ new.token = t /\ new.link = links[t] /\ new.plain = plain
       /\ new.good = good
       /\ refused = "ok" => new.pc = "file" /\ new.since = now
       /\ refused # "ok" => new.pc = "done" /\ new.res = refused
  BY <1>3, <1>8, <1>10, NoPassword DEF IdleReq, Request, Answers
<1> HIDE DEF new
<1>12. Admits(new) <=> PasswordOf(links[t]) \in {"", SharePassword(plain)}
  BY <1>11 DEF Admits
<1>13. Expects(new) => Admits(new)
  BY DEF Expects, Admits
<1>14. Shaped(new)
  BY <1>3, <1>9, <1>11 DEF Shaped
<1>15. Entering(new)
  BY <1>7, <1>9, <1>10, <1>11, <1>12, <1>13 DEF Entering
<1>16. QED
  BY <1>2, <1>11, <1>14, <1>15

\* A visitor who was let in is answered.
Leaving(old, new) ==
    /\ Shaped(new) /\ new.pc = "done" /\ new.op = old.op /\ new.link = old.link
    /\ new.plain = old.plain /\ new.good = old.good
    /\ new.res = "ok" \/ ~Shows(old.link.file)

LEMMA ResolveFileMade ==
  ASSUME SharesTypeOK, NEW h \in Handlers, ResolveFile(h)
  PROVE  \E new \in Request : req' = [req EXCEPT ![h] = new] /\ Leaving(req[h], new)
<1>1. PICK res \in {"ok", "notfound"} :
         /\ req' = [req EXCEPT ![h].pc = "done", ![h].since = 0, ![h].res = res]
         /\ res = "ok" \/ ~Shows(req[h].link.file)
  BY DEF ResolveFile, Shows
<1>2. req[h] \in Request
  BY DEF SharesTypeOK
<1> DEFINE new == [req[h] EXCEPT !.pc = "done", !.since = 0, !.res = res]
<1>3. req' = [req EXCEPT ![h] = new]
  BY <1>1 DEF SharesTypeOK
<1>4. new \in Request /\ Leaving(req[h], new)
  BY <1>1, <1>2 DEF Request, Answers, Leaving, Shaped
<1>5. QED
  BY <1>3, <1>4

-----------------------------------------------------------------------------
(* Types.                                                                  *)

\* The request of one handler goes on.
LEMMA RequestTyped ==
  ASSUME SharesTypeOK, ShapeInv, NEW h \in Handlers, NEW new \in Request, Shaped(new),
         req' = [req EXCEPT ![h] = new]
  PROVE  /\ req' \in [Handlers -> Request] /\ req'[h] = new
         /\ \A g \in Handlers : g # h => req'[g] = req[g]
         /\ \A g \in Handlers : Shaped(req'[g])
<1>1. /\ req' \in [Handlers -> Request] /\ req'[h] = new
      /\ \A g \in Handlers : g # h => req'[g] = req[g]
  BY DEF SharesTypeOK
<1>2. QED
  BY <1>1 DEF ShapeInv

\* What a request on hold learns is whether its link is still good.
Same(old, new) ==
    /\ new.op = old.op /\ new.pc = old.pc /\ new.token = old.token /\ new.link = old.link
    /\ new.plain = old.plain /\ new.since = old.since /\ new.res = old.res
    /\ old.pc # "file" => new.good = old.good

LEMMA WatchKeeps ==
  ASSUME SharesTypeOK, Watch
  PROVE  /\ req' \in [Handlers -> Request]
         /\ \A g \in Handlers :
               /\ Same(req[g], req'[g])
               /\ req[g].pc = "file" /\ req'[g].good
                     => files'[req[g].link.file] # None /\ Shown(files'[req[g].link.file].state) # {}
<1>1. req' = [g \in Handlers |-> IF req[g].pc # "file" THEN req[g]
                ELSE [req[g] EXCEPT !.good = @ /\ Good(links'[req[g].token], files'[req[g].link.file], now')]]
  BY DEF Watch
<1>2. ASSUME NEW g \in Handlers
      PROVE  /\ req'[g] \in Request /\ Same(req[g], req'[g])
             /\ req[g].pc = "file" /\ req'[g].good
                   => files'[req[g].link.file] # None /\ Shown(files'[req[g].link.file].state) # {}
  <2>1. req[g] \in Request
    BY DEF SharesTypeOK
  <2>2. CASE req[g].pc # "file"
    BY <1>1, <2>1, <2>2 DEF Same
  <2>3. CASE req[g].pc = "file"
    <3>1. PICK good \in BOOLEAN :
             good <=> req[g].good /\ Good(links'[req[g].token], files'[req[g].link.file], now')
      OBVIOUS
    <3>2. req'[g] = [req[g] EXCEPT !.good = req[g].good /\ Good(links'[req[g].token], files'[req[g].link.file], now')]
      BY <1>1, <2>3
    <3>3. (req[g].good /\ Good(links'[req[g].token], files'[req[g].link.file], now')) = good
      BY <3>1
    <3>4. req'[g] = [req[g] EXCEPT !.good = good]
      BY <3>2, <3>3
    <3>5. req'[g] \in Request /\ Same(req[g], req'[g]) /\ req'[g].good = good
      BY <2>1, <2>3, <3>4 DEF Request, Same
    <3>6. QED
      BY <3>1, <3>5 DEF Good
  <2>4. QED
    BY <2>2, <2>3
<1>3. DOMAIN req' = Handlers
  BY <1>1
<1>4. QED
  BY <1>1, <1>2

LEMMA SameShaped ==
  ASSUME NEW old, NEW new, Same(old, new), Shaped(old) PROVE Shaped(new)
  BY DEF Same, Shaped

\* Links go, and when they were last good is noted.
LEMMA RemoveTyped ==
  ASSUME SharesTypeOK, NEW gone, gone \subseteq {t \in Tokens : links[t] # None}, Remove(gone)
  PROVE  /\ links' \in [Tokens -> LinkRow \cup {None}] /\ ended' \in [Tokens -> Nat \cup {None}]
         /\ \A t \in Tokens \ gone : links'[t] = links[t] /\ ended'[t] = ended[t]
         /\ \A t \in gone : /\ links'[t] = None /\ ended'[t] \in Nat
                            /\ ended'[t] = IF now < links[t].expires THEN now ELSE links[t].expires
<1>1. now \in Nat
  BY NumbersTyped DEF SharesTypeOK
<1>2. \A t \in gone : links[t].expires \in Nat
  BY DEF SharesTypeOK, LinkRow
<1>3. QED
  BY <1>1, <1>2 DEF Remove, SharesTypeOK

LEMMA TypeInit == SharesInit => SharesTypeOK /\ ShapeInv
<1> SUFFICES ASSUME SharesInit PROVE SharesTypeOK /\ ShapeInv
  OBVIOUS
<1>1. files \in [FileIds -> FileRow \cup {None}]
  BY DEF SharesInit, FileRow, FileStates
<1>2. now \in 0 .. MaxTime /\ cost \in 1 .. MaxCost
  BY NumbersTyped DEF SharesInit
<1>3. req \in [Handlers -> Request] /\ \A h \in Handlers : Shaped(req[h])
  BY IdleTyped DEF SharesInit, Owning
<1>4. QED
  BY <1>1, <1>2, <1>3 DEF SharesInit, SharesTypeOK, ShapeInv

\* Nothing of the store is typed anew but what the action writes.
LEMMA TypeStep ==
  ASSUME SharesTypeOK, ShapeInv, SharesNext PROVE SharesTypeOK' /\ ShapeInv'
<1> USE DEF data
<1>1. ASSUME NEW h \in Handlers, CreateStart(h) \/ RevokeStart(h) \/ Reply(h)
      PROVE  SharesTypeOK' /\ ShapeInv'
  <2>1. UNCHANGED data
    BY <1>1 DEF CreateStart, RevokeStart, Reply
  <2>2. PICK new \in Request : req' = [req EXCEPT ![h] = new] /\ Owning(new)
    BY <1>1, OwnerMade
  <2>3. req' \in [Handlers -> Request] /\ \A g \in Handlers : Shaped(req'[g])
    BY <2>2, RequestTyped DEF Owning
  <2>4. QED
    BY <2>1, <2>3 DEF SharesTypeOK, ShapeInv
<1>2. ASSUME NEW h \in Handlers, CreateInsert(h) PROVE SharesTypeOK' /\ ShapeInv'
  <2>1. PICK new \in Request : req' = [req EXCEPT ![h] = new] /\ Owning(new)
    BY <1>2, OwnerMade
  <2>2. req' \in [Handlers -> Request] /\ \A g \in Handlers : Shaped(req'[g])
    BY <2>1, RequestTyped DEF Owning
  <2>3. PICK link : link = req[h].link
    OBVIOUS
  <2>4. link \in LinkRow /\ OwnHash(link.hash)
    BY <1>2, <2>3 DEF CreateInsert, ShapeInv, Shaped
  <2>5. links' = links \/ \E t \in Tokens : links' = [links EXCEPT ![t] = link]
    BY <1>2, <2>3 DEF CreateInsert
  <2>6. links' \in [Tokens -> LinkRow \cup {None}]
    BY <2>4, <2>5 DEF SharesTypeOK
  <2>7. \A t \in Tokens : links'[t] # None => OwnHash(links'[t].hash)
    BY <2>4, <2>5 DEF SharesTypeOK, ShapeInv
  <2>8. UNCHANGED <<files, now, cost, granted, ended>>
    BY <1>2 DEF CreateInsert
  <2>9. QED
    BY <2>2, <2>6, <2>7, <2>8 DEF SharesTypeOK, ShapeInv
<1>3. ASSUME NEW h \in Handlers, RevokeUnlink(h) PROVE SharesTypeOK' /\ ShapeInv'
  <2>1. PICK new \in Request : req' = [req EXCEPT ![h] = new] /\ Owning(new)
    BY <1>3, OwnerMade
  <2>2. req' \in [Handlers -> Request] /\ \A g \in Handlers : Shaped(req'[g])
    BY <2>1, RequestTyped DEF Owning
  <2>3. PICK t \in Tokens : t = req[h].token
    BY <1>3 DEF RevokeUnlink, ShapeInv, Shaped
  <2>4. \/ UNCHANGED <<links, ended>>
        \/ links[t] # None /\ Remove({t})
    BY <1>3, <2>3 DEF RevokeUnlink
  <2>5. /\ links' \in [Tokens -> LinkRow \cup {None}] /\ ended' \in [Tokens -> Nat \cup {None}]
        /\ \A u \in Tokens : links'[u] \in {None, links[u]}
    <3>1. CASE UNCHANGED <<links, ended>>
      BY <3>1 DEF SharesTypeOK
    <3>2. CASE links[t] # None /\ Remove({t})
      BY <3>2, RemoveTyped
    <3>3. QED
      BY <2>4, <3>1, <3>2
  <2>6. UNCHANGED <<files, now, cost, granted>>
    BY <1>3 DEF RevokeUnlink
  <2>7. QED
    BY <2>2, <2>5, <2>6 DEF SharesTypeOK, ShapeInv
<1>4. ASSUME NEW h \in Handlers, ResolveLink(h) PROVE SharesTypeOK' /\ ShapeInv'
  <2>1. UNCHANGED data
    BY <1>4 DEF ResolveLink
  <2>2. PICK new \in Request : req' = [req EXCEPT ![h] = new] /\ Shaped(new)
    BY <1>4, ResolveLinkMade
  <2>3. req' \in [Handlers -> Request] /\ \A g \in Handlers : Shaped(req'[g])
    BY <2>2, RequestTyped
  <2>4. QED
    BY <2>1, <2>3 DEF SharesTypeOK, ShapeInv
<1>5. ASSUME NEW h \in Handlers, ResolveFile(h) PROVE SharesTypeOK' /\ ShapeInv'
  <2>1. PICK new \in Request : req' = [req EXCEPT ![h] = new] /\ Shaped(new)
    BY <1>5, ResolveFileMade DEF Leaving
  <2>2. req' \in [Handlers -> Request] /\ \A g \in Handlers : Shaped(req'[g])
    BY <2>1, RequestTyped
  <2>3. now + PresignTTL \in Nat
    BY NumbersTyped DEF SharesTypeOK
  <2>4. granted' = granted \/ \E t \in Tokens : granted' = [granted EXCEPT ![t] = now + PresignTTL]
    BY <1>5 DEF ResolveFile, Until, ShapeInv, Shaped
  <2>5. granted' \in [Tokens -> Nat]
    BY <2>3, <2>4 DEF SharesTypeOK
  <2>6. UNCHANGED <<files, links, now, cost, ended>>
    BY <1>5 DEF ResolveFile
  <2>7. QED
    BY <2>2, <2>5, <2>6 DEF SharesTypeOK, ShapeInv
<1>6. ASSUME NEW f \in FileIds, FileMoves(f) PROVE SharesTypeOK' /\ ShapeInv'
  <2>1. req' \in [Handlers -> Request] /\ \A g \in Handlers : Shaped(req'[g])
    BY <1>6, WatchKeeps, SameShaped DEF FileMoves, ShapeInv
  <2>2. PICK s \in FileStates : files[f] # None /\ files' = [files EXCEPT ![f].state = s]
    BY <1>6 DEF FileMoves
  <2>3. files' \in [FileIds -> FileRow \cup {None}]
    BY <2>2 DEF SharesTypeOK, FileRow
  <2>4. UNCHANGED <<links, now, cost, granted, ended>>
    BY <1>6 DEF FileMoves
  <2>5. QED
    BY <2>1, <2>3, <2>4 DEF SharesTypeOK, ShapeInv
<1>7. ASSUME NEW f \in FileIds, DeleteFile(f) PROVE SharesTypeOK' /\ ShapeInv'
  <2>1. req' \in [Handlers -> Request] /\ \A g \in Handlers : Shaped(req'[g])
    BY <1>7, WatchKeeps, SameShaped DEF DeleteFile, ShapeInv
  <2>2. PICK gone : gone = {t \in Tokens : links[t] # None /\ links[t].file = f}
    OBVIOUS
  <2>3. /\ links' \in [Tokens -> LinkRow \cup {None}] /\ ended' \in [Tokens -> Nat \cup {None}]
        /\ \A t \in Tokens : links'[t] \in {None, links[t]}
    BY <1>7, <2>2, RemoveTyped DEF DeleteFile
  <2>4. files' \in [FileIds -> FileRow \cup {None}] /\ UNCHANGED <<now, cost, granted>>
    BY <1>7 DEF DeleteFile, SharesTypeOK
  <2>5. QED
    BY <2>1, <2>3, <2>4 DEF SharesTypeOK, ShapeInv
<1>8. ASSUME Tick PROVE SharesTypeOK' /\ ShapeInv'
  <2>1. req' \in [Handlers -> Request] /\ \A g \in Handlers : Shaped(req'[g])
    BY <1>8, WatchKeeps, SameShaped DEF Tick, ShapeInv
  <2>2. now' \in 0 .. MaxTime /\ UNCHANGED <<files, links, cost, granted, ended>>
    BY <1>8, NumbersTyped DEF Tick, SharesTypeOK
  <2>3. QED
    BY <2>1, <2>2 DEF SharesTypeOK, ShapeInv
<1>9. ASSUME RaiseCost PROVE SharesTypeOK' /\ ShapeInv'
  <2>1. cost' \in 1 .. MaxCost /\ UNCHANGED <<files, links, now, granted, ended, req>>
    BY <1>9, NumbersTyped DEF RaiseCost, SharesTypeOK
  <2>2. QED
    BY <2>1 DEF SharesTypeOK, ShapeInv
<1>10. QED
  BY <1>1, <1>2, <1>3, <1>4, <1>5, <1>6, <1>7, <1>8, <1>9 DEF SharesNext

-----------------------------------------------------------------------------
(* The links there are.                                                    *)

\* Nobody is given a file that was somebody else's, or back from the dead.
OwnersKept == \A f \in FileIds : files'[f] # None => files[f] # None /\ files'[f].owner = files[f].owner

LEMMA LinksKept ==
  ASSUME SharesTypeOK, ShapeInv, LinkInv, OwnersKept,
         \A t \in Tokens : links'[t] # None =>
            links'[t] = links[t] /\ (files[links[t].file] # None => files'[links[t].file] # None),
         \A g \in Handlers : req'[g].pc = "insert" =>
            /\ req'[g].link \in LinkRow /\ Lasting(req'[g].link)
            /\ files[req'[g].link.file] # None => files[req'[g].link.file].owner = req'[g].link.owner
  PROVE  LinkInv'
<1>1. ASSUME NEW t \in Tokens, links'[t] # None
      PROVE  Lasting(links[t])' /\ Owned(links[t])' /\ files'[links'[t].file] # None
  <2>1. links'[t] = links[t] /\ links[t] \in LinkRow
    BY <1>1 DEF SharesTypeOK
  <2>2. links[t].file \in FileIds
    BY <2>1 DEF LinkRow
  <2>3. Lasting(links[t]) /\ Owned(links[t]) /\ files[links[t].file] # None
    BY <1>1, <2>1 DEF LinkInv
  <2>4. QED
    BY <1>1, <2>1, <2>2, <2>3 DEF Lasting, Owned, OwnersKept
<1>2. ASSUME NEW g \in Handlers, req'[g].pc = "insert"
      PROVE  Lasting(req[g].link)' /\ Owned(req[g].link)'
  <2>1. req'[g].link.file \in FileIds
    BY <1>2 DEF LinkRow
  <2>2. QED
    BY <1>2, <2>1 DEF Lasting, Owned, OwnersKept
<1>3. QED
  BY <1>1, <1>2 DEF LinkInv

\* A request that is not a visitor's and was not yet on its way to the INSERT.
LEMMA InsertsKept ==
  ASSUME SharesTypeOK, ShapeInv, LinkInv, NEW h \in Handlers, NEW new \in Request, Shaped(new),
         new.pc = "insert" => Lasting(new.link) /\ Owned(new.link), req' = [req EXCEPT ![h] = new]
  PROVE  \A g \in Handlers : req'[g].pc = "insert" =>
            /\ req'[g].link \in LinkRow /\ Lasting(req'[g].link)
            /\ files[req'[g].link.file] # None => files[req'[g].link.file].owner = req'[g].link.owner
<1> TAKE g \in Handlers
<1>1. CASE g = h
  BY <1>1, RequestTyped DEF Shaped, Lasting, Owned
<1>2. CASE g # h
  BY <1>2, RequestTyped DEF ShapeInv, Shaped, Lasting, Owned, LinkInv
<1>3. QED
  BY <1>1, <1>2

LEMMA WatchedInsertsKept ==
  ASSUME SharesTypeOK, ShapeInv, LinkInv, Watch
  PROVE  \A g \in Handlers : req'[g].pc = "insert" =>
            /\ req'[g].link \in LinkRow /\ Lasting(req'[g].link)
            /\ files[req'[g].link.file] # None => files[req'[g].link.file].owner = req'[g].link.owner
  BY WatchKeeps DEF Same, ShapeInv, Shaped, Lasting, Owned, LinkInv

LEMMA LinkStep ==
  ASSUME SharesTypeOK, ShapeInv, LinkInv, SharesNext PROVE LinkInv'
<1> USE DEF data
<1>1. ASSUME NEW h \in Handlers, CreateStart(h) \/ RevokeStart(h) \/ RevokeUnlink(h) \/ Reply(h)
      PROVE  LinkInv'
  <2>1. UNCHANGED files /\ \A t \in Tokens : links'[t] # None => links'[t] = links[t]
    <3>1. CASE UNCHANGED <<files, links>>
      BY <3>1
    <3>2. CASE RevokeUnlink(h)
      BY <3>2 DEF RevokeUnlink, Remove
    <3>3. QED
      BY <1>1, <3>1, <3>2 DEF CreateStart, RevokeStart, Reply
  <2>2. PICK new \in Request : req' = [req EXCEPT ![h] = new] /\ Owning(new)
    BY <1>1, OwnerMade
  <2>3. QED
    BY <2>1, <2>2, InsertsKept, LinksKept DEF Owning, OwnersKept
<1>2. ASSUME NEW h \in Handlers, CreateInsert(h) PROVE LinkInv'
  <2>1. PICK new \in Request : req' = [req EXCEPT ![h] = new] /\ Owning(new)
    BY <1>2, OwnerMade
  <2>2. PICK link : link = req[h].link
    OBVIOUS
  <2>3. link \in LinkRow /\ Lasting(link) /\ Owned(link)
    BY <1>2, <2>2 DEF CreateInsert, ShapeInv, Shaped, LinkInv
  <2>4. /\ UNCHANGED files
        /\ \/ UNCHANGED links
           \/ files[link.file] # None /\ \E t \in Tokens : links' = [links EXCEPT ![t] = link]
    BY <1>2, <2>2 DEF CreateInsert, PgCreateShareLink
  <2>5. CASE UNCHANGED links
    BY <2>1, <2>4, <2>5, InsertsKept, LinksKept DEF Owning, OwnersKept
  <2>6. ASSUME files[link.file] # None, NEW t \in Tokens, links' = [links EXCEPT ![t] = link]
        PROVE  LinkInv'
    <3>1. links'[t] = link /\ \A u \in Tokens : u # t => links'[u] = links[u]
      BY <2>6 DEF SharesTypeOK
    <3>2. \A u \in Tokens : links'[u] # None =>
             Lasting(links'[u]) /\ Owned(links'[u]) /\ files[links'[u].file] # None
      BY <2>3, <2>6, <3>1 DEF LinkInv
    <3>3. \A g \in Handlers : req'[g].pc = "insert" => Lasting(req'[g].link) /\ Owned(req'[g].link)
      BY <2>1, InsertsKept DEF Owning, Owned
    <3>4. QED
      BY <2>4, <3>2, <3>3 DEF LinkInv, Lasting, Owned
  <2>7. QED
    BY <2>4, <2>5, <2>6
<1>3. ASSUME NEW h \in Handlers, ResolveLink(h) \/ ResolveFile(h) PROVE LinkInv'
  <2>1. UNCHANGED <<files, links>>
    BY <1>3 DEF ResolveLink, ResolveFile
  <2>2. PICK new \in Request : req' = [req EXCEPT ![h] = new] /\ Shaped(new) /\ new.pc # "insert"
    BY <1>3, ResolveLinkMade, ResolveFileMade DEF Entering, Leaving
  <2>3. QED
    BY <2>1, <2>2, InsertsKept, LinksKept DEF OwnersKept
<1>4. ASSUME NEW f \in FileIds, FileMoves(f) PROVE LinkInv'
  <2>1. PICK s \in FileStates : files[f] # None /\ files' = [files EXCEPT ![f].state = s]
    BY <1>4 DEF FileMoves
  <2>2. \A g \in FileIds : (files'[g] # None <=> files[g] # None) /\ (files[g] # None => files'[g].owner = files[g].owner)
    <3>1. files[f] \in FileRow
      BY <2>1 DEF SharesTypeOK
    <3>2. files'[f] \in FileRow /\ files'[f].owner = files[f].owner
      BY <2>1, <3>1 DEF SharesTypeOK, FileRow
    <3>3. None \notin FileRow
      BY NoneAssumption
    <3>4. QED
      BY <2>1, <3>2, <3>3 DEF SharesTypeOK
  <2>3. UNCHANGED links /\ Watch
    BY <1>4 DEF FileMoves
  <2>4. \A t \in Tokens : links[t] # None => links[t].file \in FileIds
    BY DEF SharesTypeOK, LinkRow
  <2>5. QED
    BY <2>2, <2>3, <2>4, WatchedInsertsKept, LinksKept DEF OwnersKept
<1>5. ASSUME NEW f \in FileIds, DeleteFile(f) PROVE LinkInv'
  <2>1. files' = [files EXCEPT ![f] = None] /\ Watch
    BY <1>5 DEF DeleteFile
  <2>2. \A t \in Tokens : links'[t] # None => links'[t] = links[t] /\ links[t].file # f
    BY <1>5 DEF DeleteFile, Remove
  <2>3. \A t \in Tokens : links[t] # None => links[t].file \in FileIds
    BY DEF SharesTypeOK, LinkRow
  <2>4. OwnersKept /\ \A g \in FileIds : g # f => files'[g] = files[g]
    BY <2>1 DEF OwnersKept, SharesTypeOK
  <2>5. QED
    BY <2>1, <2>2, <2>3, <2>4, WatchedInsertsKept, LinksKept
<1>6. ASSUME Tick PROVE LinkInv'
  BY <1>6, WatchedInsertsKept, LinksKept DEF Tick, OwnersKept
<1>7. ASSUME RaiseCost PROVE LinkInv'
  BY <1>7 DEF RaiseCost, LinkInv, Lasting, Owned
<1>8. QED
  BY <1>1, <1>2, <1>3, <1>4, <1>5, <1>6, <1>7 DEF SharesNext

-----------------------------------------------------------------------------
(* The URLs that were handed out.                                          *)

LEMMA EndTyped ==
  ASSUME SharesTypeOK
  PROVE  /\ now \in Nat /\ \A t \in Tokens : EndOf(t) \in Nat \cup {None} /\ granted[t] \in Nat
         /\ \A t \in Tokens : links[t] # None => EndOf(t) \in Nat
         /\ \A g \in Handlers : req[g].since \in Nat
         /\ None \notin Nat
  BY NumbersTyped, NoneAssumption DEF SharesTypeOK, EndOf, LinkRow, Request

\* No link is good for longer than it was, and a visitor who is let in comes in time.
LEMMA GrantsKept ==
  ASSUME SharesTypeOK, ShapeInv, GrantInv, UNCHANGED granted, now' \in Nat, now <= now',
         \A t \in Tokens : links'[t] # None => ended'[t] = None,
         \A t \in Tokens : EndOf(t) \in Nat =>
            EndOf(t)' = EndOf(t) \/ (EndOf(t)' = now /\ now <= EndOf(t)),
         \A g \in Handlers : req'[g].pc = "file" =>
            \/ /\ req[g].pc = "file" /\ now' <= req[g].since + MaxLag
               /\ req'[g].since = req[g].since /\ req'[g].token = req[g].token
            \/ /\ req'[g].since = now /\ now' = now /\ req'[g].token \in Tokens
               /\ EndOf(req'[g].token) \in Nat /\ now <= EndOf(req'[g].token)
  PROVE  GrantInv'
<1>1. /\ now \in Nat /\ MaxLag \in Nat /\ PresignTTL \in Nat
      /\ \A t \in Tokens : granted[t] \in Nat
      /\ \A g \in Handlers : req[g].since \in Nat
  BY EndTyped, NumbersTyped
<1>2. ASSUME NEW t \in Tokens, granted'[t] # 0
      PROVE  /\ EndOf(t)' \in Nat /\ granted'[t] <= now' + PresignTTL
             /\ granted'[t] <= MaxLag + PresignTTL + EndOf(t)'
  <2>1. /\ EndOf(t) \in Nat /\ granted[t] <= now + PresignTTL
        /\ granted[t] <= MaxLag + PresignTTL + EndOf(t)
    BY <1>2 DEF GrantInv
  <2>2. EndOf(t)' = EndOf(t) \/ (EndOf(t)' = now /\ now <= EndOf(t))
    BY <2>1
  <2>3. QED
    BY <1>1, <2>1, <2>2
<1>3. ASSUME NEW g \in Handlers, req'[g].pc = "file"
      PROVE  /\ req'[g].since <= now' /\ now' <= req'[g].since + MaxLag
             /\ EndOf(req[g].token)' \in Nat /\ EndOf(req[g].token)' >= req'[g].since
  <2>1. PICK t : t = req'[g].token
    OBVIOUS
  <2>2. CASE req[g].pc = "file" /\ now' <= req[g].since + MaxLag
             /\ req'[g].since = req[g].since /\ req'[g].token = req[g].token
    <3>1. t \in Tokens
      BY <2>1, <2>2 DEF ShapeInv, Shaped
    <3>2. req[g].since <= now /\ EndOf(t) \in Nat /\ EndOf(t) >= req[g].since
      BY <2>1, <2>2 DEF GrantInv
    <3>3. EndOf(t)' = EndOf(t) \/ (EndOf(t)' = now /\ now <= EndOf(t))
      BY <3>1, <3>2
    <3>4. EndOf(t)' \in Nat /\ EndOf(t)' >= req[g].since
      BY <1>1, <3>2, <3>3
    <3>5. EndOf(req[g].token)' = EndOf(t)'
      BY <2>1 DEF EndOf
    <3>6. QED
      BY <1>1, <2>2, <3>2, <3>4, <3>5
  <2>3. CASE req'[g].since = now /\ now' = now /\ t \in Tokens /\ EndOf(t) \in Nat /\ now <= EndOf(t)
    <3>1. EndOf(t)' = EndOf(t) \/ (EndOf(t)' = now /\ now <= EndOf(t))
      BY <2>3
    <3>2. EndOf(req[g].token)' = EndOf(t)'
      BY <2>1 DEF EndOf
    <3>3. QED
      BY <1>1, <2>3, <3>1, <3>2
  <2>4. QED
    BY <1>3, <2>1, <2>2, <2>3
<1>4. QED
  BY <1>2, <1>3 DEF GrantInv

\* A link that is gone was last good now, or when it expired.
LEMMA RemoveEnds ==
  ASSUME SharesTypeOK, GrantInv, NEW gone, gone \subseteq {t \in Tokens : links[t] # None}, Remove(gone)
  PROVE  /\ \A t \in Tokens : links'[t] # None => ended'[t] = None
         /\ \A t \in Tokens : EndOf(t) \in Nat =>
               EndOf(t)' = EndOf(t) \/ (EndOf(t)' = now /\ now <= EndOf(t))
<1> SUFFICES ASSUME NEW t \in Tokens
             PROVE  /\ links'[t] # None => ended'[t] = None
                    /\ EndOf(t)' = EndOf(t) \/ (EndOf(t)' = now /\ now <= EndOf(t))
  OBVIOUS
<1>1. CASE t \in gone
  <2>1. /\ links[t] # None /\ links'[t] = None
        /\ ended'[t] = IF now < links[t].expires THEN now ELSE links[t].expires
    BY <1>1, RemoveTyped
  <2>2. now \in Nat /\ links[t].expires \in Nat
    BY <2>1, EndTyped DEF EndOf
  <2>3. QED
    BY <2>1, <2>2 DEF EndOf
<1>2. CASE t \notin gone
  BY <1>2, RemoveTyped DEF EndOf, GrantInv
<1>3. QED
  BY <1>1, <1>2

LEMMA GrantStep ==
  ASSUME SharesTypeOK, ShapeInv, GrantInv, SharesNext PROVE GrantInv'
<1> USE DEF data
<1>0. now \in Nat
  BY EndTyped
<1>1. ASSUME NEW h \in Handlers, CreateStart(h) \/ RevokeStart(h) \/ RevokeUnlink(h) \/ Reply(h)
      PROVE  GrantInv'
  <2>1. UNCHANGED <<now, granted>>
    BY <1>1 DEF CreateStart, RevokeStart, RevokeUnlink, Reply
  <2>2. /\ \A t \in Tokens : links'[t] # None => ended'[t] = None
        /\ \A t \in Tokens : EndOf(t) \in Nat =>
              EndOf(t)' = EndOf(t) \/ (EndOf(t)' = now /\ now <= EndOf(t))
    <3>1. CASE UNCHANGED <<links, ended>>
      BY <3>1 DEF GrantInv, EndOf
    <3>2. CASE RevokeUnlink(h) /\ ~UNCHANGED <<links, ended>>
      <4>1. PICK t \in Tokens : t = req[h].token
        BY <3>2 DEF RevokeUnlink, ShapeInv, Shaped
      <4>2. links[t] # None /\ Remove({t})
        BY <3>2, <4>1 DEF RevokeUnlink
      <4>3. QED
        BY <4>2, RemoveEnds
    <3>3. QED
      BY <1>1, <3>1, <3>2 DEF CreateStart, RevokeStart, Reply
  <2>3. PICK new \in Request : req' = [req EXCEPT ![h] = new] /\ Owning(new)
    BY <1>1, OwnerMade
  <2>4. \A g \in Handlers : req'[g].pc = "file" => req'[g] = req[g] /\ req[g].pc = "file"
    BY <2>3 DEF SharesTypeOK, Owning
  <2>5. QED
    BY <1>0, <2>1, <2>2, <2>4, GrantsKept DEF GrantInv
<1>2. ASSUME NEW h \in Handlers, CreateInsert(h) PROVE GrantInv'
  <2>1. UNCHANGED <<now, granted, ended>>
    BY <1>2 DEF CreateInsert
  <2>2. \/ UNCHANGED links
        \/ \E t \in Tokens : /\ links[t] = None /\ ended[t] = None
                             /\ links' = [links EXCEPT ![t] = req[h].link]
    BY <1>2 DEF CreateInsert
  <2>3. \A t \in Tokens : links'[t] # None => ended'[t] = None
    BY <2>1, <2>2 DEF GrantInv, SharesTypeOK
  <2>4. \A t \in Tokens : EndOf(t) \in Nat => EndOf(t)' = EndOf(t)
    BY <2>1, <2>2, EndTyped DEF EndOf, SharesTypeOK
  <2>5. PICK new \in Request : req' = [req EXCEPT ![h] = new] /\ Owning(new)
    BY <1>2, OwnerMade
  <2>6. \A g \in Handlers : req'[g].pc = "file" => req'[g] = req[g] /\ req[g].pc = "file"
    BY <2>5 DEF SharesTypeOK, Owning
  <2>7. QED
    BY <1>0, <2>1, <2>3, <2>4, <2>6, GrantsKept DEF GrantInv
<1>3. ASSUME NEW h \in Handlers, ResolveLink(h) PROVE GrantInv'
  <2>1. UNCHANGED <<files, links, now, cost, granted, ended>>
    BY <1>3 DEF ResolveLink
  <2>2. PICK new \in Request : req' = [req EXCEPT ![h] = new] /\ Entering(new)
    BY <1>3, ResolveLinkMade
  <2>3. \A g \in Handlers : req'[g] = IF g = h THEN new ELSE req[g]
    BY <2>2 DEF SharesTypeOK
  <2>4. ASSUME new.pc = "file"
        PROVE  /\ new.since = now /\ new.token \in Tokens
               /\ EndOf(new.token) \in Nat /\ now <= EndOf(new.token)
    <3>1. PICK t \in Tokens : t = new.token /\ links[t] # None /\ now < links[t].expires
      BY <2>2, <2>4 DEF Entering
    <3>2. EndOf(t) = links[t].expires /\ EndOf(t) \in Nat
      BY <3>1, EndTyped DEF EndOf
    <3>3. QED
      BY <1>0, <2>2, <2>4, <3>1, <3>2 DEF Entering
  <2>5. \A t \in Tokens : EndOf(t)' = EndOf(t)
    BY <2>1 DEF EndOf
  <2>6. \A g \in Handlers : req'[g].pc = "file" =>
            \/ /\ req[g].pc = "file" /\ now' <= req[g].since + MaxLag
               /\ req'[g].since = req[g].since /\ req'[g].token = req[g].token
            \/ /\ req'[g].since = now /\ now' = now /\ req'[g].token \in Tokens
               /\ EndOf(req'[g].token) \in Nat /\ now <= EndOf(req'[g].token)
    BY <2>1, <2>3, <2>4 DEF GrantInv
  <2>7. QED
    BY <1>0, <2>1, <2>5, <2>6, GrantsKept DEF GrantInv
<1>4. ASSUME NEW h \in Handlers, ResolveFile(h) PROVE GrantInv'
  <2>1. UNCHANGED <<files, links, now, cost, ended>>
    BY <1>4 DEF ResolveFile
  <2>2. PICK new \in Request : req' = [req EXCEPT ![h] = new] /\ Leaving(req[h], new)
    BY <1>4, ResolveFileMade
  <2>3. \A g \in Handlers : req'[g].pc = "file" => req'[g] = req[g] /\ req[g].pc = "file"
    BY <2>2 DEF SharesTypeOK, Leaving
  <2>4. PICK t \in Tokens : t = req[h].token
    BY <1>4 DEF ResolveFile, ShapeInv, Shaped
  <2>5. /\ req[h].since \in Nat /\ MaxLag \in Nat /\ PresignTTL \in Nat
        /\ now <= req[h].since + MaxLag /\ EndOf(t) \in Nat /\ EndOf(t) >= req[h].since
    BY <1>4, <2>4, EndTyped, NumbersTyped DEF ResolveFile, GrantInv
  <2>6. granted' = granted \/ granted' = [granted EXCEPT ![t] = now + PresignTTL]
    BY <1>4, <2>4 DEF ResolveFile, Until
  <2>7. ASSUME NEW u \in Tokens, granted'[u] # 0
        PROVE  /\ EndOf(u) \in Nat /\ granted'[u] <= now + PresignTTL
               /\ granted'[u] <= MaxLag + PresignTTL + EndOf(u)
    <3>1. CASE granted'[u] = granted[u]
      BY <2>7, <3>1 DEF GrantInv
    <3>2. CASE u = t /\ granted'[u] = now + PresignTTL
      BY <1>0, <2>5, <3>2
    <3>3. QED
      BY <2>6, <3>1, <3>2 DEF SharesTypeOK
  <2>8. \A u \in Tokens : EndOf(u)' = EndOf(u)
    BY <2>1 DEF EndOf
  <2>9. \A u \in Tokens : granted'[u] # 0 =>
           EndOf(u)' \in Nat /\ granted'[u] <= now' + PresignTTL
           /\ granted'[u] <= MaxLag + PresignTTL + EndOf(u)'
    BY <2>1, <2>7, <2>8
  <2>10. \A g \in Handlers : req'[g].pc = "file" =>
           /\ req'[g].since <= now' /\ now' <= req'[g].since + MaxLag
           /\ EndOf(req[g].token)' \in Nat /\ EndOf(req[g].token)' >= req'[g].since
    BY <2>1, <2>3 DEF EndOf, GrantInv
  <2>11. QED
    BY <2>1, <2>9, <2>10 DEF GrantInv
<1>5. ASSUME NEW f \in FileIds, FileMoves(f) PROVE GrantInv'
  <2>1. UNCHANGED <<links, now, cost, granted, ended>> /\ Watch
    BY <1>5 DEF FileMoves
  <2>2. \A t \in Tokens : EndOf(t)' = EndOf(t)
    BY <2>1 DEF EndOf
  <2>3. QED
    BY <1>0, <2>1, <2>2, WatchKeeps, GrantsKept DEF GrantInv, Same
<1>6. ASSUME NEW f \in FileIds, DeleteFile(f) PROVE GrantInv'
  <2>1. UNCHANGED <<now, cost, granted>> /\ Watch
    BY <1>6 DEF DeleteFile
  <2>2. PICK gone : gone = {t \in Tokens : links[t] # None /\ links[t].file = f}
    OBVIOUS
  <2>3. /\ \A t \in Tokens : links'[t] # None => ended'[t] = None
        /\ \A t \in Tokens : EndOf(t) \in Nat =>
              EndOf(t)' = EndOf(t) \/ (EndOf(t)' = now /\ now <= EndOf(t))
    BY <1>6, <2>2, RemoveEnds DEF DeleteFile
  <2>4. QED
    BY <1>0, <2>1, <2>3, WatchKeeps, GrantsKept DEF GrantInv, Same
<1>7. ASSUME Tick PROVE GrantInv'
  <2>1. UNCHANGED <<files, links, cost, granted, ended>> /\ Watch /\ now' = now + 1
    BY <1>7 DEF Tick
  <2>2. \A t \in Tokens : EndOf(t)' = EndOf(t)
    BY <2>1 DEF EndOf
  <2>3. \A g \in Handlers : req[g].pc = "file" => now' <= req[g].since + MaxLag
    <3> TAKE g \in Handlers
    <3>1. req[g].since \in Nat /\ MaxLag \in Nat
      BY EndTyped, NumbersTyped
    <3>2. req[g].pc = "file" => now < req[g].since + MaxLag
      BY <1>7 DEF Tick
    <3>3. QED
      BY <1>0, <2>1, <3>1, <3>2
  <2>4. now' \in Nat /\ now <= now'
    BY <1>0, <2>1
  <2>5. \A t \in Tokens : links'[t] # None => ended'[t] = None
    BY <2>1 DEF GrantInv
  <2>6. \A g \in Handlers : req'[g].pc = "file" =>
           /\ req[g].pc = "file" /\ now' <= req[g].since + MaxLag
           /\ req'[g].since = req[g].since /\ req'[g].token = req[g].token
    BY <2>1, <2>3, WatchKeeps DEF Same
  <2>7. QED
    BY <2>1, <2>2, <2>4, <2>5, <2>6, GrantsKept
<1>8. ASSUME RaiseCost PROVE GrantInv'
  BY <1>8 DEF RaiseCost, GrantInv, EndOf
<1>9. QED
  BY <1>1, <1>2, <1>3, <1>4, <1>5, <1>6, <1>7, <1>8 DEF SharesNext

-----------------------------------------------------------------------------
(* Who is let in.                                                          *)

\* The four claims about a visitor whose request is r.
Served(r) ==
    /\ r.pc = "file" => Admits(r)
    /\ r.op \in {"view", "download"} /\ r.pc = "done" /\ r.res = "ok" => Admits(r)
    /\ r.op \in {"view", "download"} /\ r.pc = "done" /\ r.good /\ Expects(r) => r.res = "ok"

LEMMA ServedIs ==
  ServeInv <=> \A h \in Handlers :
                  Served(req[h]) /\ (req[h].pc = "file" /\ req[h].good => Shows(req[h].link.file))
  BY DEF ServeInv, Served, Visited

LEMMA ServedKept ==
  ASSUME \A h \in Handlers :
            Served(req'[h]) /\ (req'[h].pc = "file" /\ req'[h].good =>
               files'[req'[h].link.file] # None /\ Shown(files'[req'[h].link.file].state) # {})
  PROVE  ServeInv'
  BY DEF ServeInv, Served, Visited, Admits, Expects, Shows, PasswordOf, SharePassword, Shown

\* While no file moves, what the other requests wait for stays as it is.
LEMMA OthersServed ==
  ASSUME SharesTypeOK, ServeInv, UNCHANGED files, NEW h \in Handlers, NEW new, Served(new),
         req' = [req EXCEPT ![h] = new],
         new.pc = "file" /\ new.good => Shows(new.link.file)
  PROVE  ServeInv'
<1>1. \A g \in Handlers : req'[g] = IF g = h THEN new ELSE req[g]
  BY DEF SharesTypeOK
<1>2. \A g \in Handlers :
         Served(req[g]) /\ (req[g].pc = "file" /\ req[g].good => Shows(req[g].link.file))
  BY ServedIs
<1>3. \A g \in Handlers :
         Served(req'[g]) /\ (req'[g].pc = "file" /\ req'[g].good =>
            files'[req'[g].link.file] # None /\ Shown(files'[req'[g].link.file].state) # {})
  BY <1>1, <1>2 DEF Shows
<1>4. QED
  BY <1>3, ServedKept

LEMMA ServeStep ==
  ASSUME SharesTypeOK, ShapeInv, ServeInv, SharesNext PROVE ServeInv'
<1> USE DEF data
<1>1. ASSUME NEW h \in Handlers,
             CreateStart(h) \/ CreateInsert(h) \/ RevokeStart(h) \/ RevokeUnlink(h) \/ Reply(h)
      PROVE  ServeInv'
  <2>1. UNCHANGED files
    BY <1>1 DEF CreateStart, CreateInsert, RevokeStart, RevokeUnlink, Reply
  <2>2. PICK new \in Request : req' = [req EXCEPT ![h] = new] /\ Owning(new)
    BY <1>1, OwnerMade
  <2>3. Served(new) /\ new.pc # "file"
    BY <2>2 DEF Owning, Served
  <2>4. QED
    BY <2>1, <2>2, <2>3, OthersServed
<1>2. ASSUME NEW h \in Handlers, ResolveLink(h) PROVE ServeInv'
  <2>1. UNCHANGED files
    BY <1>2 DEF ResolveLink
  <2>2. PICK new \in Request : req' = [req EXCEPT ![h] = new] /\ Entering(new)
    BY <1>2, ResolveLinkMade
  <2>3. Served(new) /\ (new.pc = "file" /\ new.good => Shows(new.link.file))
    BY <2>2 DEF Entering, Served
  <2>4. QED
    BY <2>1, <2>2, <2>3, OthersServed
<1>3. ASSUME NEW h \in Handlers, ResolveFile(h) PROVE ServeInv'
  <2>1. UNCHANGED files /\ req[h].pc = "file"
    BY <1>3 DEF ResolveFile
  <2>2. PICK new \in Request : req' = [req EXCEPT ![h] = new] /\ Leaving(req[h], new)
    BY <1>3, ResolveFileMade
  <2>3. Admits(req[h]) /\ (req[h].good => Shows(req[h].link.file))
    BY <2>1 DEF ServeInv
  <2>4. Admits(new) <=> Admits(req[h])
    BY <2>2 DEF Leaving, Admits
  <2>5. Served(new) /\ new.pc # "file"
    BY <2>2, <2>3, <2>4 DEF Leaving, Served
  <2>6. QED
    BY <2>1, <2>2, <2>5, OthersServed
<1>4. ASSUME Watch PROVE ServeInv'
  <2>1. ASSUME NEW g \in Handlers
        PROVE  Served(req'[g]) /\ (req'[g].pc = "file" /\ req'[g].good =>
                  files'[req'[g].link.file] # None /\ Shown(files'[req'[g].link.file].state) # {})
    <3>1. Served(req[g]) /\ Same(req[g], req'[g])
      BY <1>4, ServedIs, WatchKeeps
    <3>2. Served(req'[g])
      BY <3>1 DEF Served, Same, Admits, Expects
    <3>3. QED
      BY <1>4, <3>1, <3>2, WatchKeeps DEF Same
  <2>2. QED
    BY <2>1, ServedKept
<1>5. ASSUME RaiseCost PROVE ServeInv'
  BY <1>5, ServedIs, ServedKept DEF RaiseCost, Shows
<1>6. QED
  BY <1>1, <1>2, <1>3, <1>4, <1>5 DEF SharesNext, FileMoves, DeleteFile, Tick

-----------------------------------------------------------------------------
(* The theorems.                                                           *)

SharesInv == SharesTypeOK /\ ShapeInv /\ LinkInv /\ GrantInv /\ ServeInv

(* The strengthening: what links promise, what was handed out under them   *)
(* and what a visitor was told hang together.                              *)
THEOREM SharesInductive == SharesSpec => []SharesInv
<1>1. SharesInit => SharesInv
  <2> SUFFICES ASSUME SharesInit PROVE SharesInv
    OBVIOUS
  <2>1. SharesTypeOK /\ ShapeInv
    BY TypeInit
  <2>2. LinkInv /\ GrantInv /\ ServeInv
    BY DEF SharesInit, IdleReq, LinkInv, GrantInv, ServeInv, Visited
  <2>3. QED
    BY <2>1, <2>2 DEF SharesInv
<1>2. SharesInv /\ [SharesNext]_sharesVars => SharesInv'
  <2> SUFFICES ASSUME SharesInv, [SharesNext]_sharesVars PROVE SharesInv'
    OBVIOUS
  <2>1. CASE SharesNext
    BY <2>1, TypeStep, LinkStep, GrantStep, ServeStep DEF SharesInv
  <2>2. CASE UNCHANGED sharesVars
    <3>1. SharesTypeOK' /\ ShapeInv'
      BY <2>2 DEF SharesInv, sharesVars, data, SharesTypeOK, ShapeInv
    <3>2. LinkInv' /\ GrantInv'
      BY <2>2 DEF SharesInv, sharesVars, data, LinkInv, Lasting, Owned, GrantInv, EndOf
    <3>3. ServeInv'
      BY <2>2, ServedIs, ServedKept DEF SharesInv, sharesVars, data, Shows
    <3>4. QED
      BY <3>1, <3>2, <3>3 DEF SharesInv
  <2>3. QED
    BY <2>1, <2>2
<1>3. QED
  BY <1>1, <1>2, PTL DEF SharesSpec

(* Rows, links, hashes and requests are always of their types, whatever    *)
(* number of seconds is asked for.                                         *)
THEOREM SharesTyping == SharesSpec => []SharesTypeOK
<1>1. SharesInv => SharesTypeOK
  BY DEF SharesInv
<1>2. QED
  BY <1>1, SharesInductive, PTL

(* The owner of a file sees, and so can revoke, every link there is to it. *)
THEOREM OwnersSeeTheirLinks == SharesSpec => []EveryLinkIsListed
<1>1. SharesInv => EveryLinkIsListed
  BY DEF SharesInv, LinkInv, Owned, EveryLinkIsListed, ListShareLinksByOwner
<1>2. QED
  BY <1>1, SharesInductive, PTL

(* A link lasts for some time and for the longest allowed at most, however *)
(* the seconds of the request wrapped.                                     *)
THEOREM LinksEnd == SharesSpec => []LinksAreBounded
<1>1. SharesInv => LinksAreBounded
  BY DEF SharesInv, LinkInv, Lasting, LinksAreBounded
<1>2. QED
  BY <1>1, SharesInductive, PTL

(* A URL handed out through a link stops working soon after the link is no *)
(* longer good, because it expired, was revoked or its file was deleted.   *)
THEOREM GrantsStop == SharesSpec => []GrantsEnd
<1>1. SharesInv => GrantsEnd
  BY DEF SharesInv, GrantInv, EndOf, GrantsEnd
<1>2. QED
  BY <1>1, SharesInductive, PTL

(* Only the password that was set opens a link that has one.               *)
THEOREM PasswordsGuard == SharesSpec => []OnlyThePasswordOpens
<1>1. SharesInv => OnlyThePasswordOpens
  BY DEF SharesInv, ServeInv, Admits, OnlyThePasswordOpens
<1>2. QED
  BY <1>1, SharesInductive, PTL

(* Who has the password is served while the link is good, whatever a       *)
(* release did to the cost of a hash.                                      *)
THEOREM GoodLinksServe == SharesSpec => []GoodLinkIsServed
<1>1. SharesInv => GoodLinkIsServed
  <2> SUFFICES ASSUME SharesInv, NEW h \in Handlers, Visited(h), req[h].good,
                      PasswordOf(req[h].link) = ""
                         \/ (req[h].plain = PasswordOf(req[h].link)
                             /\ SharePassword(PasswordOf(req[h].link)) = PasswordOf(req[h].link))
               PROVE  req[h].res = "ok"
    BY DEF GoodLinkIsServed
  <2>1. Expects(req[h])
    BY DEF Expects
  <2>2. QED
    BY <2>1 DEF SharesInv, ServeInv
<1>2. QED
  BY <1>1, SharesInductive, PTL
=============================================================================
