---------------------------- MODULE FoldersProofs ----------------------------
(***************************************************************************)
(* Folders for any callers, folders, files, names, requests and size of a  *)
(* batch: types, whose tree it is, what a delete that was answered with    *)
(* success has removed, that one which nobody disturbs is answered so,     *)
(* that the store of the tests is like PostgreSQL to it, and that no       *)
(* delete takes away what is not of its tree.                              *)
(***************************************************************************)
EXTENDS Folders, FiniteSetTheorems, SequenceTheorems, TLAPS

-----------------------------------------------------------------------------
(* The inductive invariant.                                                *)

TreePCs == {"dirs", "files", "get", "row", "rmdir"}

\* What a request carries from one call to the next.
Shaped(r) ==
    /\ r.pc \in {"mk", "up"} \cup TreePCs => r.who \in Callers
    /\ r.pc = "mk" => r.name \in Names /\ r.op = "create"
    /\ r.pc = "up" => r.op = "presign"
    /\ r.pc \in {"mk", "up"} => r.target \in Places
    /\ r.pc \in TreePCs \ {"row"} => r.stack # <<>>
    /\ r.pc = "row" => r.file \in FileIds
    /\ r.pc \in TreePCs => \/ r.op = "folder" /\ r.stack # <<>> /\ r.stack[1].dir = r.target
                           \/ r.op = "file" /\ r.stack = <<>>
    /\ r.pc = "idle" => r.op = "none"
    /\ r.op = "folder" => r.target \in FolderIds

ShapeInv == \A h \in Handlers : Shaped(req[h])

(***************************************************************************)
(* An id is used once: the folder a request has looked up is either the    *)
(* one it saw or gone for good.                                            *)
(***************************************************************************)
Known(r) ==
    /\ r.pc \in {"mk", "up"} /\ r.target # Root =>
          r.target \in issued /\ (folders[r.target] # None => folders[r.target].owner = r.who)
    /\ r.op = "folder" => r.target \in issued
    /\ r.op = "folder" /\ r.pc = "done" /\ r.res = "ok" => folders[r.target] = None

(***************************************************************************)
(* What a delete has listed lies where it was listed, or is gone: a row    *)
(* never moves.                                                            *)
(***************************************************************************)
Within(F, c, d) == F[c] # None => F[c].parent = d
Climbs(F, s) ==
    /\ \A i \in 1 .. Len(s) - 1 : Within(F, s[i+1].dir, s[i].dir)
    /\ \A i \in 1 .. Len(s) : \A c \in s[i].todo : Within(F, c, s[i].dir)
Handed(s) == \A i \in 1 .. Len(s) : s[i].dir \in issued /\ s[i].todo \subseteq issued
Lies(f, d) == f \in issued /\ (files[f] # None => files[f].folder = d)
Traced(r) ==
    /\ r.op = "folder" /\ r.pc \in TreePCs =>
          /\ Climbs(folders, r.stack) /\ Handed(r.stack)
          /\ r.pc \in {"get", "row"} => \A f \in r.batch : Lies(f, Last(r.stack).dir)
          /\ r.pc = "row" => Lies(r.file, Last(r.stack).dir)
    /\ r.op = "file" /\ r.pc = "row" => r.file = r.target

TraceInv == \A h \in Handlers : Traced(req[h])

IdsInv ==
    /\ \A d \in FolderIds : folders[d] # None => d \in issued
    /\ \A f \in FileIds : files[f] # None => f \in issued
    /\ \A h \in Handlers : Known(req[h])

\* The folders of a table F are a forest: in no set of them has every member its parent.
Forest(F) ==
    \A S \in SUBSET FolderIds :
        S # {} /\ (\A d \in S : F[d] # None) => \E d \in S : F[d].parent \notin S

ForestInv == Forest(folders)

\* The calls of an undisturbed delete, each for a child of the one before, and what they have listed.
Kids(F, who, d) == {c \in FolderIds : F[c] # None /\ F[c].owner = who /\ F[c].parent = d}
Chain(F, s, who) ==
    /\ \A i \in 1 .. Len(s) : F[s[i].dir] # None /\ F[s[i].dir].owner = who
    /\ \A i \in 1 .. Len(s) - 1 : /\ Kids(F, who, s[i].dir) = s[i].todo \cup {s[i+1].dir}
                                  /\ s[i+1].dir \notin s[i].todo
    /\ \A i, j \in 1 .. Len(s) : s[i].dir = s[j].dir => i = j

Undisturbed(r) ==
    /\ r.pc \in {"mk", "up"} => HasFolder(r.target)
    /\ r.op = "folder" /\ r.pc \in TreePCs =>
          LET d == Last(r.stack).dir IN
          /\ Chain(folders, r.stack, r.who)
          /\ r.pc # "dirs" => ListFolders(r.who, d) = {}
          /\ r.pc = "get" => /\ r.batch \subseteq FilesIn(r.who, d)
                             /\ ~r.full => FilesIn(r.who, d) \subseteq r.batch
          /\ r.pc = "row" => /\ r.batch \subseteq FilesIn(r.who, d) \ {r.file} /\ files[r.file] # None
                             /\ ~r.full => FilesIn(r.who, d) \subseteq r.batch \cup {r.file}
          /\ r.pc = "rmdir" => FilesIn(r.who, d) = {}
    /\ r.op = "folder" /\ r.pc = "done" => r.res \in {"ok", "forbidden"}

AloneInv == \A h \in Handlers : req[h].alone => Undisturbed(req[h])

FoldersInv ==
    FoldersTypeOK /\ ShapeInv /\ IdsInv /\ TraceInv /\ TreeHasOneOwner /\ ForestInv /\ AloneInv

-----------------------------------------------------------------------------
(* The stack.                                                              *)

LEMMA LastIn ==
  ASSUME NEW s \in Seq(Frame), s # <<>>
  PROVE  /\ Len(s) \in Nat \ {0} /\ Last(s) = s[Len(s)]
         /\ \A i \in 1 .. Len(s) : s[i] \in Frame /\ s[i].dir \in FolderIds /\ s[i].todo \subseteq FolderIds
<1>1. Len(s) \in Nat \ {0} /\ \A i \in 1 .. Len(s) : s[i] \in Frame
  OBVIOUS
<1>2. QED
  BY <1>1 DEF Last, Frame

LEMMA Popped ==
  ASSUME NEW s \in Seq(Frame), s # <<>>
  PROVE  /\ Front(s) \in Seq(Frame) /\ Len(Front(s)) = Len(s) - 1
         /\ \A i \in 1 .. Len(s) - 1 : Front(s)[i] = s[i]
<1>1. Len(s) \in Nat \ {0}
  BY LastIn
<1>2. PICK n \in Nat : n = Len(s) - 1
  BY <1>1
<1>3. \A i \in 1 .. n : s[i] \in Frame
  BY <1>1, <1>2, LastIn
<1>4. /\ SubSeq(s, 1, n) \in Seq(Frame) /\ Len(SubSeq(s, 1, n)) = n
      /\ \A i \in 1 .. n : SubSeq(s, 1, n)[i] = s[i]
  BY <1>1, <1>2, <1>3
<1>5. QED
  BY <1>2, <1>4 DEF Front

LEMMA TopReplaced ==
  ASSUME NEW s \in Seq(Frame), s # <<>>, NEW x \in Frame
  PROVE  \E t \in Seq(Frame) : /\ t = Append(Front(s), x)
                               /\ t # <<>> /\ Len(t) = Len(s) /\ t[Len(s)] = x
                               /\ \A i \in 1 .. Len(s) - 1 : t[i] = s[i]
<1>1. PICK u \in Seq(Frame) : u = Front(s)
  BY Popped
<1>2. Len(u) = Len(s) - 1 /\ Len(s) \in Nat \ {0} /\ \A i \in 1 .. Len(s) - 1 : u[i] = s[i]
  BY <1>1, Popped, LastIn
<1>3. PICK t : t = Append(u, x)
  OBVIOUS
<1>4. t \in Seq(Frame) /\ Len(t) = Len(u) + 1 /\ t[Len(u) + 1] = x /\ \A i \in 1 .. Len(u) : t[i] = u[i]
  BY <1>3
<1>5. QED
  BY <1>1, <1>2, <1>3, <1>4

LEMMA Pushed ==
  ASSUME NEW s \in Seq(Frame), NEW x \in Frame, NEW t, t = s \o <<x>>
  PROVE  /\ t \in Seq(Frame) /\ Len(t) = Len(s) + 1 /\ t[Len(s) + 1] = x
         /\ \A i \in 1 .. Len(s) : t[i] = s[i]
<1>1. <<x>> \in Seq(Frame) /\ Len(<<x>>) = 1 /\ <<x>>[1] = x
  OBVIOUS
<1>2. QED
  BY <1>1

\* The call for the child c, which is struck off the list of its parent.
Nested(s, c, t) ==
    /\ t \in Seq(Frame) /\ Len(t) = Len(s) + 1
    /\ \A i \in 1 .. Len(s) - 1 : t[i] = s[i]
    /\ t[Len(s)] = [dir |-> Last(s).dir, todo |-> Last(s).todo \ {c}]
    /\ t[Len(s) + 1] = [dir |-> c, todo |-> {}]

LEMMA Nests ==
  ASSUME NEW s \in Seq(Frame), s # <<>>, NEW c \in FolderIds
  PROVE  Nested(s, c, Append(Front(s), [Last(s) EXCEPT !.todo = @ \ {c}]) \o <<[dir |-> c, todo |-> {}]>>)
<1>1. PICK top : top = [Last(s) EXCEPT !.todo = @ \ {c}]
  OBVIOUS
<1>2. PICK child : child = [dir |-> c, todo |-> {}]
  OBVIOUS
<1>3. Last(s) \in Frame /\ Len(s) \in Nat \ {0}
  BY LastIn
<1>4. top \in Frame /\ child \in Frame
  BY <1>1, <1>2, <1>3 DEF Frame
<1>5. top = [dir |-> Last(s).dir, todo |-> Last(s).todo \ {c}]
  BY <1>1, <1>3 DEF Frame
<1>6. PICK u \in Seq(Frame) : /\ u = Append(Front(s), top)
                              /\ u # <<>> /\ Len(u) = Len(s) /\ u[Len(s)] = top
                              /\ \A i \in 1 .. Len(s) - 1 : u[i] = s[i]
  BY <1>4, TopReplaced
<1>7. /\ u \in Seq(Frame) /\ Len(u) = Len(s) /\ u[Len(s)] = top
      /\ \A i \in 1 .. Len(s) - 1 : u[i] = s[i]
  BY <1>6
<1>8. PICK t : t = u \o <<child>>
  OBVIOUS
<1>9. /\ t \in Seq(Frame) /\ Len(t) = Len(u) + 1 /\ t[Len(u) + 1] = child
      /\ \A i \in 1 .. Len(u) : t[i] = u[i]
  BY <1>4, <1>7, <1>8, Pushed
<1>10. t[Len(s)] = top /\ \A i \in 1 .. Len(s) - 1 : t[i] = s[i]
  BY <1>3, <1>7, <1>9
<1>11. Nested(s, c, t)
  BY <1>2, <1>5, <1>7, <1>9, <1>10 DEF Nested
<1>12. QED
  BY <1>1, <1>2, <1>6, <1>8, <1>11

\* The fields that make a request what it is.
Kept(r, new) ==
    /\ new.op = r.op /\ new.who = r.who /\ new.target = r.target /\ new.alone = r.alone
    /\ new.name = r.name /\ new.res = r.res

\* The next child, or else the files.
LEMMA Descended ==
  ASSUME NEW r \in Request, r.stack # <<>>, NEW next \in Descend(r)
  PROVE  /\ next \in Request /\ Kept(r, next)
         /\ \/ Last(r.stack).todo = {} /\ next.pc = "files" /\ next.stack = r.stack
            \/ next.pc = "dirs" /\ \E c \in Last(r.stack).todo : Nested(r.stack, c, next.stack)
<1>1. PICK s \in Seq(Frame) : s = r.stack
  BY DEF Request
<1>2. Last(s).todo \subseteq FolderIds /\ s # <<>>
  BY <1>1, LastIn
<1>3. CASE Last(s).todo = {}
  <2>1. next = [r EXCEPT !.pc = "files"]
    BY <1>1, <1>3 DEF Descend
  <2>2. next \in Request /\ Kept(r, next) /\ next.pc = "files" /\ next.stack = r.stack
    BY <2>1 DEF Request, ReqPCs, Kept
  <2>3. QED
    BY <1>1, <1>3, <2>2
<1>4. CASE Last(s).todo # {}
  <2>1. PICK c \in Last(s).todo :
           next = [r EXCEPT !.pc = "dirs",
                            !.stack = Append(Front(@), [Last(s) EXCEPT !.todo = @ \ {c}])
                                          \o <<[dir |-> c, todo |-> {}]>>]
    BY <1>1, <1>4 DEF Descend
  <2>2. PICK t : t = Append(Front(s), [Last(s) EXCEPT !.todo = @ \ {c}]) \o <<[dir |-> c, todo |-> {}]>>
    OBVIOUS
  <2>3. Nested(s, c, t)
    BY <1>2, <2>2, Nests
  <2>4. next = [r EXCEPT !.pc = "dirs", !.stack = t]
    BY <1>1, <2>1, <2>2
  <2>5. next \in Request /\ Kept(r, next) /\ next.pc = "dirs" /\ next.stack = t
    BY <2>3, <2>4 DEF Request, ReqPCs, Kept, Nested
  <2>6. QED
    BY <1>1, <2>1, <2>3, <2>5
<1>5. QED
  BY <1>3, <1>4

\* The call at the bottom of the stack stays the one for the folder that was asked for.
LEMMA NestedShape ==
  ASSUME NEW s \in Seq(Frame), s # <<>>, NEW c, NEW t, Nested(s, c, t)
  PROVE  t # <<>> /\ t[1].dir = s[1].dir
<1>1. Len(s) \in Nat \ {0} /\ Last(s) = s[Len(s)] /\ Len(t) = Len(s) + 1
  BY LastIn DEF Nested
<1>2. CASE Len(s) = 1
  BY <1>1, <1>2 DEF Nested
<1>3. CASE Len(s) # 1
  BY <1>1, <1>3 DEF Nested
<1>4. QED
  BY <1>1, <1>2, <1>3

-----------------------------------------------------------------------------
(* The chain of an undisturbed delete, in any table of folders.            *)

\* A child that is gone into is none of the folders on the stack.
LEMMA ChainNests ==
  ASSUME NEW F, Forest(F), NEW s \in Seq(Frame), s # <<>>, NEW who, Chain(F, s, who),
         Kids(F, who, Last(s).dir) = Last(s).todo,
         NEW c \in Last(s).todo, NEW t, Nested(s, c, t)
  PROVE  Chain(F, t, who)
<1>1. /\ Len(s) \in Nat \ {0} /\ Last(s) = s[Len(s)] /\ Len(t) = Len(s) + 1
      /\ \A i \in 1 .. Len(s) : s[i].dir \in FolderIds
  BY LastIn DEF Nested
<1>2. F[c] # None /\ F[c].owner = who /\ F[c].parent = s[Len(s)].dir /\ c \in FolderIds
  BY <1>1 DEF Kids
<1>3. \A i \in 1 .. Len(s) : t[i].dir = s[i].dir
  <2> TAKE i \in 1 .. Len(s)
  <2>1. CASE i = Len(s)
    BY <1>1, <2>1 DEF Nested
  <2>2. CASE i # Len(s)
    BY <1>1, <2>2 DEF Nested
  <2>3. QED
    BY <2>1, <2>2
<1>4. t[Len(s) + 1].dir = c /\ t[Len(s)].todo = s[Len(s)].todo \ {c}
  BY <1>1 DEF Nested
<1>5. \A i \in 1 .. Len(s) - 1 :
         F[s[i+1].dir].parent = s[i].dir /\ s[i+1].dir \in FolderIds
  BY DEF Chain, Kids
<1>6. ASSUME NEW j \in 1 .. Len(s), s[j].dir = c PROVE FALSE
  <2>1. CASE j > 1
    <3>1. PICK i \in 1 .. Len(s) - 1 : j = i + 1
      BY <1>1, <2>1
    <3>2. s[i].dir = s[Len(s)].dir
      BY <1>2, <1>5, <1>6, <3>1
    <3>3. i = Len(s)
      BY <1>1, <3>1, <3>2 DEF Chain
    <3>4. QED
      BY <1>1, <3>1, <3>3
  <2>2. CASE j = 1
    <3>1. PICK S : S = {s[i].dir : i \in 1 .. Len(s)}
      OBVIOUS
    <3>2. S \in SUBSET FolderIds /\ S # {} /\ \A d \in S : F[d] # None
      BY <1>1, <3>1 DEF Chain
    <3>3. PICK d \in S : F[d].parent \notin S
      BY <3>2 DEF Forest
    <3>4. PICK i \in 1 .. Len(s) : d = s[i].dir
      BY <3>1
    <3>5. CASE i = 1
      BY <1>1, <1>2, <1>6, <2>2, <3>1, <3>3, <3>4, <3>5
    <3>6. CASE i > 1
      <4>1. PICK n \in 1 .. Len(s) - 1 : i = n + 1
        <5>1. i - 1 \in 1 .. Len(s) - 1 /\ i = (i - 1) + 1
          BY <1>1, <3>4, <3>6
        <5>2. QED
          BY <5>1
      <4>2. F[d].parent = s[n].dir
        BY <1>5, <3>4, <4>1
      <4>3. QED
        BY <1>1, <3>1, <3>3, <4>1, <4>2
    <3>7. QED
      BY <3>5, <3>6
  <2>3. QED
    BY <2>1, <2>2
<1>7. \A i \in 1 .. Len(t) : F[t[i].dir] # None /\ F[t[i].dir].owner = who
  <2> TAKE i \in 1 .. Len(t)
  <2>1. CASE i = Len(s) + 1
    BY <1>2, <1>4, <2>1
  <2>2. CASE i \in 1 .. Len(s)
    BY <1>3, <2>2 DEF Chain
  <2>3. QED
    BY <1>1, <2>1, <2>2
<1>8. ASSUME NEW i \in 1 .. Len(t) - 1
      PROVE  Kids(F, who, t[i].dir) = t[i].todo \cup {t[i+1].dir} /\ t[i+1].dir \notin t[i].todo
  <2>1. CASE i = Len(s)
    BY <1>1, <1>3, <1>4, <2>1
  <2>2. CASE i \in 1 .. Len(s) - 1
    <3>1. t[i] = s[i] /\ t[i+1].dir = s[i+1].dir
      BY <1>1, <1>3, <2>2 DEF Nested
    <3>2. QED
      BY <2>2, <3>1 DEF Chain
  <2>3. QED
    BY <1>1, <2>1, <2>2
<1>9. \A i, j \in 1 .. Len(t) : t[i].dir = t[j].dir => i = j
  <2> TAKE i, j \in 1 .. Len(t)
  <2>1. CASE i \in 1 .. Len(s) /\ j \in 1 .. Len(s)
    BY <1>3, <2>1 DEF Chain
  <2>2. CASE i = Len(s) + 1 /\ j \in 1 .. Len(s)
    BY <1>3, <1>4, <1>6, <2>2
  <2>3. CASE i \in 1 .. Len(s) /\ j = Len(s) + 1
    BY <1>3, <1>4, <1>6, <2>3
  <2>4. QED
    BY <1>1, <2>1, <2>2, <2>3
<1>10. QED
  BY <1>7, <1>8, <1>9 DEF Chain

\* The folder on top goes; the call below it has listed what is left of its children.
LEMMA ChainPops ==
  ASSUME NEW F, NEW G, NEW s \in Seq(Frame), Len(s) > 1, NEW who, Chain(F, s, who),
         \A d \in FolderIds : G[d] = IF d = Last(s).dir THEN None ELSE F[d]
  PROVE  Chain(G, Front(s), who) /\ Kids(G, who, Last(Front(s)).dir) = Last(Front(s)).todo
<1>1. PICK u \in Seq(Frame) : u = Front(s)
  BY Popped
<1>2. PICK n \in Nat \ {0} : n = Len(u)
  BY <1>1, Popped, LastIn
<1>3. Len(s) = n + 1 /\ \A i \in 1 .. n : u[i] = s[i]
  BY <1>1, <1>2, Popped
<1>4. PICK top : top = s[n + 1].dir
  OBVIOUS
<1>5. top = Last(s).dir /\ top \in FolderIds /\ \A i \in 1 .. n : s[i].dir \in FolderIds
  BY <1>3, <1>4, LastIn
<1>6. \A i \in 1 .. n : s[i].dir # top
  BY <1>3, <1>4 DEF Chain
<1>7. \A i \in 1 .. n : F[s[i].dir] # None /\ F[s[i].dir].owner = who
  BY <1>3 DEF Chain
<1>8. \A i \in 1 .. n : Kids(F, who, s[i].dir) = s[i].todo \cup {s[i+1].dir} /\ s[i+1].dir \notin s[i].todo
  BY <1>3 DEF Chain
<1>9. \A i, j \in 1 .. n : s[i].dir = s[j].dir => i = j
  BY <1>3 DEF Chain
<1>10. \A d : Kids(G, who, d) = Kids(F, who, d) \ {top}
  BY <1>5 DEF Kids
<1>11. top \in Kids(F, who, s[n].dir)
  BY <1>4, <1>8
<1>12. ASSUME NEW i \in 1 .. n - 1 PROVE top \notin Kids(F, who, s[i].dir)
  <2>1. s[i].dir # s[n].dir
    BY <1>9
  <2>2. QED
    BY <1>11, <2>1 DEF Kids
<1>13. ASSUME NEW i \in 1 .. n - 1
       PROVE  Kids(G, who, u[i].dir) = u[i].todo \cup {u[i+1].dir} /\ u[i+1].dir \notin u[i].todo
  BY <1>3, <1>8, <1>10, <1>12
<1>14. Kids(G, who, u[n].dir) = u[n].todo
  <2>1. u[n] = s[n]
    BY <1>3
  <2>2. Kids(F, who, s[n].dir) = s[n].todo \cup {top} /\ top \notin s[n].todo
    BY <1>4, <1>8
  <2>3. Kids(G, who, s[n].dir) = Kids(F, who, s[n].dir) \ {top}
    BY <1>10
  <2>4. Kids(G, who, s[n].dir) = s[n].todo
    BY <2>2, <2>3
  <2>5. QED
    BY <2>1, <2>4
<1>15. \A i \in 1 .. n : G[u[i].dir] # None /\ G[u[i].dir].owner = who
  BY <1>3, <1>5, <1>6, <1>7
<1>16. Chain(G, u, who)
  BY <1>2, <1>3, <1>9, <1>13, <1>15 DEF Chain
<1>17. QED
  BY <1>1, <1>2, <1>14, <1>16 DEF Last

-----------------------------------------------------------------------------
(* The parts of the invariant that are about the tables alone.             *)

TablesInv ==
    /\ folders \in [FolderIds -> FolderRow \cup {None}]
    /\ files \in [FileIds -> FileRow \cup {None}]
    /\ issued \subseteq FolderIds \cup FileIds
    /\ \A d \in FolderIds : folders[d] # None => d \in issued
    /\ \A f \in FileIds : files[f] # None => f \in issued
    /\ TreeHasOneOwner
    /\ ForestInv

\* What a request that knows an id may rely on, whoever is served next to it.
IdsKept ==
    /\ issued \subseteq issued'
    /\ \A d \in FolderIds \cap issued : folders'[d] \in {folders[d], None}
    /\ \A f \in FileIds \cap issued : files'[f] \in {files[f], None}

LEMMA UnchangedTables ==
  ASSUME TablesInv, UNCHANGED tables
  PROVE  TablesInv' /\ IdsKept
  BY DEF TablesInv, IdsKept, tables, TreeHasOneOwner, HasFolder, ForestInv, Forest

LEMMA UndisturbedSame ==
  ASSUME NEW r, UNCHANGED tables
  PROVE  Undisturbed(r)' <=> Undisturbed(r)
  BY DEF Undisturbed, tables, HasFolder, Chain, Kids, ListFolders, FilesIn

LEMMA TracedKept ==
  ASSUME IdsKept, NEW r \in Request, Shaped(r), Traced(r)
  PROVE  Traced(r)'
<1>1. CASE r.op = "folder" /\ r.pc \in TreePCs
  <2>1. PICK s \in Seq(Frame) : s = r.stack /\ s # <<>>
    BY <1>1 DEF Request, Shaped
  <2>2. /\ Len(s) \in Nat \ {0} /\ Last(s) = s[Len(s)]
        /\ \A i \in 1 .. Len(s) : s[i].dir \in FolderIds /\ s[i].todo \subseteq FolderIds
    BY <2>1, LastIn
  <2>3. Climbs(folders, s) /\ Handed(s)
    BY <1>1, <2>1 DEF Traced
  <2>4. Handed(s)'
    BY <2>3 DEF Handed, IdsKept
  <2>5. \A i \in 1 .. Len(s) - 1 : folders'[s[i+1].dir] \in {folders[s[i+1].dir], None}
    BY <2>2, <2>3 DEF Handed, IdsKept
  <2>6. \A i \in 1 .. Len(s) : \A c \in s[i].todo : folders'[c] \in {folders[c], None}
    BY <2>2, <2>3 DEF Handed, IdsKept
  <2>7. Climbs(folders, s)'
    BY <2>3, <2>5, <2>6 DEF Climbs, Within
  <2>8. \A f \in FileIds : \A d : Lies(f, d) => Lies(f, d)'
    BY DEF Lies, IdsKept
  <2>9. r.batch \subseteq FileIds /\ (r.pc = "row" => r.file \in FileIds)
    BY DEF Request, Shaped
  <2>10. QED
    BY <1>1, <2>1, <2>4, <2>7, <2>8, <2>9 DEF Traced
<1>2. CASE ~(r.op = "folder" /\ r.pc \in TreePCs)
  BY <1>2 DEF Traced
<1>3. QED
  BY <1>1, <1>2

-----------------------------------------------------------------------------
(* What a step does to the other requests.                                 *)

LEMMA Updated ==
  ASSUME req \in [Handlers -> Request], NEW h \in Handlers, NEW new \in Request,
         NEW changed \in BOOLEAN, Update(h, new, changed)
  PROVE  /\ req' \in [Handlers -> Request] /\ req'[h] = new
         /\ \A g \in Handlers \ {h} :
               \/ req'[g] = req[g] /\ (changed => req[g].pc \in {"idle", "done"})
               \/ req'[g] = [req[g] EXCEPT !.alone = FALSE] /\ changed
<1>1. CASE changed
  <2>1. req' = [Disturb(h) EXCEPT ![h] = new]
    BY <1>1 DEF Update
  <2>2. \A g \in Handlers : [req[g] EXCEPT !.alone = FALSE] \in Request
    BY DEF Request
  <2>3. Disturb(h) \in [Handlers -> Request]
    BY <2>2 DEF Disturb
  <2>4. \A g \in Handlers \ {h} :
           Disturb(h)[g] = IF req[g].pc \in {"idle", "done"} THEN req[g] ELSE [req[g] EXCEPT !.alone = FALSE]
    BY DEF Disturb
  <2>5. PICK D \in [Handlers -> Request] : D = Disturb(h)
    BY <2>3
  <2>6. req' = [D EXCEPT ![h] = new]
    BY <2>1, <2>5
  <2>7. req' \in [Handlers -> Request] /\ req'[h] = new /\ \A g \in Handlers \ {h} : req'[g] = D[g]
    BY <2>6
  <2>8. QED
    BY <1>1, <2>4, <2>5, <2>7
<1>2. CASE ~changed
  BY <1>2 DEF Update
<1>3. QED
  BY <1>1, <1>2

LEMMA Keeps ==
  ASSUME FoldersInv, TablesInv', IdsKept, aborts' \in 0 .. MaxAborts,
         NEW h \in Handlers, NEW new \in Request, NEW changed \in BOOLEAN,
         Update(h, new, changed), ~changed => UNCHANGED tables,
         Shaped(new), Known(new)', Traced(new), new.alone => Undisturbed(new)'
  PROVE  FoldersInv'
<1>1. req \in [Handlers -> Request]
  BY DEF FoldersInv, FoldersTypeOK
<1>2. /\ req' \in [Handlers -> Request] /\ req'[h] = new
      /\ \A g \in Handlers \ {h} :
            \/ req'[g] = req[g] /\ (changed => req[g].pc \in {"idle", "done"})
            \/ req'[g] = [req[g] EXCEPT !.alone = FALSE] /\ changed
  BY <1>1, Updated
<1>3. ASSUME NEW g \in Handlers, g # h
      PROVE  /\ Shaped(req[g])' /\ Known(req[g])' /\ Traced(req[g])'
             /\ (req[g].alone => Undisturbed(req[g]))'
  <2>1. PICK r \in Request : r = req[g]
    BY <1>1
  <2>2. PICK q \in Request : q = req'[g]
    BY <1>2
  <2>3. Shaped(r) /\ Known(r) /\ Traced(r) /\ (r.alone => Undisturbed(r))
    BY <2>1 DEF FoldersInv, ShapeInv, IdsInv, TraceInv, AloneInv
  <2>4. \/ q = r /\ (changed => r.pc \in {"idle", "done"})
        \/ q = [r EXCEPT !.alone = FALSE] /\ changed
    <3>1. \/ req'[g] = req[g] /\ (changed => req[g].pc \in {"idle", "done"})
          \/ req'[g] = [req[g] EXCEPT !.alone = FALSE] /\ changed
      BY <1>2, <1>3
    <3>2. QED
      BY <2>1, <2>2, <3>1, Zenon
  <2>5. /\ q.op = r.op /\ q.pc = r.pc /\ q.who = r.who /\ q.target = r.target /\ q.name = r.name
        /\ q.stack = r.stack /\ q.file = r.file /\ q.res = r.res /\ q.batch = r.batch
    BY <2>4 DEF Request
  <2>6. q.alone => q = r /\ (changed => r.pc \in {"idle", "done"})
    BY <2>4 DEF Request
  <2>7. Shaped(q)
    BY <2>3, <2>5 DEF Shaped
  <2>8. r.op = "folder" => r.target \in FolderIds
    BY <2>3 DEF Shaped
  <2>9. r.pc \in {"mk", "up"} => r.target \in Places
    BY <2>3 DEF Shaped
  <2>10. Known(r)'
    BY <2>3, <2>8, <2>9 DEF Known, IdsKept, Places
  <2>11. Known(q)'
    BY <2>5, <2>10 DEF Known
  <2>12. ASSUME q.alone PROVE Undisturbed(q)'
    <3>1. q = r /\ r.alone
      BY <2>6, <2>12
    <3>2. CASE ~changed
      <4>1. Undisturbed(r)' <=> Undisturbed(r)
        BY <3>2, UndisturbedSame
      <4>2. QED
        BY <2>3, <3>1, <4>1
    <3>3. CASE changed
      BY <2>3, <2>6, <2>12, <3>1, <3>3 DEF Undisturbed, Shaped, TreePCs
    <3>4. QED
      BY <3>2, <3>3
  <2>13. Traced(q)
    BY <2>3, <2>5 DEF Traced
  <2>14. Traced(q)'
    BY <2>7, <2>13, TracedKept
  <2>15. QED
    BY <2>1, <2>2, <2>7, <2>11, <2>12, <2>14
<1>4. FoldersTypeOK'
  BY <1>2 DEF FoldersTypeOK, TablesInv
<1>5. ShapeInv'
  BY <1>2, <1>3 DEF ShapeInv
<1>6. IdsInv'
  BY <1>2, <1>3 DEF IdsInv, TablesInv
<1>7. AloneInv'
  BY <1>2, <1>3 DEF AloneInv
<1>8. Traced(new)'
  BY TracedKept
<1>9. TraceInv'
  BY <1>2, <1>3, <1>8 DEF TraceInv
<1>10. QED
  BY <1>4, <1>5, <1>6, <1>7, <1>9 DEF FoldersInv, TablesInv

\* A step that leaves the tables alone.
LEMMA KeepsQuietly ==
  ASSUME FoldersInv, UNCHANGED tables, aborts' \in 0 .. MaxAborts,
         NEW h \in Handlers, NEW new \in Request, Update(h, new, FALSE),
         Shaped(new), Known(new), Traced(new), new.alone => Undisturbed(new)
  PROVE  FoldersInv'
<1>1. TablesInv' /\ IdsKept
  <2>1. TablesInv
    BY DEF FoldersInv, FoldersTypeOK, IdsInv, TablesInv
  <2>2. QED
    BY <2>1, UnchangedTables
<1>2. Known(new)'
  BY DEF Known, tables
<1>3. new.alone => Undisturbed(new)'
  BY UndisturbedSame
<1>4. QED
  BY <1>1, <1>2, <1>3, Keeps

-----------------------------------------------------------------------------
(* What the four statements that change a table keep of it.                *)

LEMMA FreshId ==
  ASSUME NEW ids, ids \ issued # {}
  PROVE  NewId(ids) \in ids \ issued
  BY DEF NewId

LEMMA FolderInserted ==
  ASSUME TablesInv, NEW d \in FolderIds \ issued, NEW row \in FolderRow,
         row.parent # Root => folders[row.parent] # None /\ folders[row.parent].owner = row.owner,
         folders' = [folders EXCEPT ![d] = row], issued' = issued \cup {d}, UNCHANGED files
  PROVE  TablesInv' /\ IdsKept
<1>1. folders[d] = None /\ Root \notin FolderIds
  BY FoldersAssumption DEF TablesInv
<1>2. folders'[d] = row /\ \A c \in FolderIds \ {d} : folders'[c] = folders[c]
  BY DEF TablesInv
<1>3. /\ \A c \in FolderIds : folders[c] # None /\ folders[c].parent # Root =>
            folders[c].parent \in FolderIds /\ folders[c].parent # d
      /\ \A f \in FileIds : files[f] # None /\ files[f].folder # Root =>
            files[f].folder \in FolderIds /\ files[f].folder # d
      /\ row.parent # Root => row.parent \in FolderIds /\ row.parent # d
  BY <1>1 DEF TablesInv, TreeHasOneOwner, HasFolder, FolderRow, FileRow, Places
<1>4. TreeHasOneOwner'
  <2>1. ASSUME NEW c \in FolderIds, folders'[c] # None, folders'[c].parent # Root
        PROVE  /\ folders'[folders'[c].parent] # None
               /\ folders'[folders'[c].parent].owner = folders'[c].owner
    <3>1. CASE c = d
      BY <1>2, <1>3, <2>1, <3>1
    <3>2. CASE c # d
      BY <1>2, <1>3, <2>1, <3>2 DEF TablesInv, TreeHasOneOwner, HasFolder
    <3>3. QED
      BY <3>1, <3>2
  <2>2. ASSUME NEW f \in FileIds, files[f] # None, files[f].folder # Root
        PROVE  folders'[files[f].folder] # None /\ folders'[files[f].folder].owner = files[f].owner
    BY <1>2, <1>3, <2>2 DEF TablesInv, TreeHasOneOwner, HasFolder
  <2>3. QED
    BY <2>1, <2>2 DEF TreeHasOneOwner, HasFolder
<1>5. ForestInv'
  <2> SUFFICES ASSUME NEW S \in SUBSET FolderIds, S # {}, \A x \in S : folders'[x] # None
               PROVE  \E x \in S : folders'[x].parent \notin S
    BY DEF ForestInv, Forest
  <2>1. CASE S \ {d} # {}
    <3>1. \A x \in S \ {d} : folders[x] # None
      BY <1>2
    <3>2. PICK x \in S \ {d} : folders[x].parent \notin S \ {d}
      BY <2>1, <3>1 DEF TablesInv, ForestInv, Forest
    <3>3. folders[x].parent \notin S
      BY <1>1, <1>3, <3>1, <3>2
    <3>4. QED
      BY <1>2, <3>2, <3>3
  <2>2. CASE S = {d}
    BY <1>1, <1>2, <1>3, <2>2
  <2>3. QED
    BY <2>1, <2>2
<1>6. folders' \in [FolderIds -> FolderRow \cup {None}] /\ issued' \subseteq FolderIds \cup FileIds
  BY DEF TablesInv
<1>7. /\ \A c \in FolderIds : folders'[c] # None => c \in issued'
      /\ \A f \in FileIds : files'[f] # None => f \in issued'
  BY <1>2 DEF TablesInv
<1>8. IdsKept
  BY <1>2 DEF IdsKept
<1>9. QED
  BY <1>4, <1>5, <1>6, <1>7, <1>8 DEF TablesInv

LEMMA FileInserted ==
  ASSUME TablesInv, NEW f \in FileIds \ issued, NEW row \in FileRow,
         row.folder # Root => folders[row.folder] # None /\ folders[row.folder].owner = row.owner,
         files' = [files EXCEPT ![f] = row], issued' = issued \cup {f}, UNCHANGED folders
  PROVE  TablesInv' /\ IdsKept
<1>1. files'[f] = row /\ \A g \in FileIds \ {f} : files'[g] = files[g]
  BY DEF TablesInv
<1>2. TreeHasOneOwner'
  BY <1>1 DEF TablesInv, TreeHasOneOwner, HasFolder
<1>3. files' \in [FileIds -> FileRow \cup {None}] /\ issued' \subseteq FolderIds \cup FileIds
  BY DEF TablesInv
<1>4. /\ \A c \in FolderIds : folders'[c] # None => c \in issued'
      /\ \A g \in FileIds : files'[g] # None => g \in issued'
  BY <1>1 DEF TablesInv
<1>5. QED
  BY <1>2, <1>3, <1>4 DEF TablesInv, ForestInv, Forest, IdsKept

LEMMA FileDeleted ==
  ASSUME TablesInv, NEW f \in FileIds, files' = [files EXCEPT ![f] = None], UNCHANGED <<folders, issued>>
  PROVE  TablesInv' /\ IdsKept
<1>1. files'[f] = None /\ \A g \in FileIds \ {f} : files'[g] = files[g]
  BY DEF TablesInv
<1>2. TreeHasOneOwner'
  BY <1>1 DEF TablesInv, TreeHasOneOwner, HasFolder
<1>3. files' \in [FileIds -> FileRow \cup {None}] /\ \A g \in FileIds : files'[g] # None => g \in issued'
  BY <1>1 DEF TablesInv
<1>4. QED
  BY <1>2, <1>3 DEF TablesInv, ForestInv, Forest, IdsKept

LEMMA FolderDeleted ==
  ASSUME TablesInv, NEW d \in FolderIds, FolderIsEmpty(d),
         folders' = [folders EXCEPT ![d] = None], UNCHANGED <<files, issued>>
  PROVE  TablesInv' /\ IdsKept
<1>1. folders'[d] = None /\ \A c \in FolderIds \ {d} : folders'[c] = folders[c]
  BY DEF TablesInv
<1>2. TreeHasOneOwner'
  BY <1>1, FoldersAssumption DEF TablesInv, TreeHasOneOwner, HasFolder, FolderIsEmpty
<1>3. ForestInv'
  <2> SUFFICES ASSUME NEW S \in SUBSET FolderIds, S # {}, \A x \in S : folders'[x] # None
               PROVE  \E x \in S : folders'[x].parent \notin S
    BY DEF ForestInv, Forest
  <2>1. \A x \in S : folders'[x] = folders[x]
    BY <1>1
  <2>2. QED
    BY <2>1 DEF TablesInv, ForestInv, Forest
<1>4. folders' \in [FolderIds -> FolderRow \cup {None}] /\ \A c \in FolderIds : folders'[c] # None => c \in issued'
  BY <1>1 DEF TablesInv
<1>5. QED
  BY <1>1, <1>2, <1>3, <1>4 DEF TablesInv, IdsKept

-----------------------------------------------------------------------------
(* Requests that begin and answers that are made.                          *)

LEMMA Created ==
  ASSUME NEW op \in Ops, NEW pc \in ReqPCs, NEW who \in Callers, NEW target \in Places \cup FileIds
  PROVE  \E r \in Request : /\ r = New(op, pc, who, target)
                            /\ r.op = op /\ r.pc = pc /\ r.who = who /\ r.target = target
                            /\ r.alone /\ r.stack = <<>> /\ r.res = "ok"
<1>1. PICK r : r = New(op, pc, who, target)
  OBVIOUS
<1>2. PICK e : e = <<>>
  OBVIOUS
<1>3. e \in Seq(Frame)
  BY <1>2
<1>4. r = [op |-> op, pc |-> pc, who |-> who, target |-> target, name |-> None, stack |-> e,
           batch |-> {}, full |-> FALSE, file |-> None, res |-> "ok", alone |-> TRUE]
  BY <1>1, <1>2 DEF New, IdleReq
<1>5. r \in Request
  BY <1>3, <1>4 DEF Request, Answers
<1>6. QED
  BY <1>1, <1>2, <1>4, <1>5

LEMMA Answered ==
  ASSUME req \in [Handlers -> Request], NEW h \in Handlers, NEW res \in Answers
  PROVE  \E r \in Request : /\ r = Answer(h, res) /\ r.op = req[h].op /\ r.target = req[h].target
                            /\ r.alone = req[h].alone /\ r.pc = "done" /\ r.res = res /\ r.stack = <<>>
<1>1. PICK q \in Request : q = req[h]
  OBVIOUS
<1>2. PICK r : r = Answer(h, res)
  OBVIOUS
<1>3. PICK e : e = <<>>
  OBVIOUS
<1>4. e \in Seq(Frame)
  BY <1>3
<1>5. r = [op |-> q.op, pc |-> "done", who |-> None, target |-> q.target, name |-> None, stack |-> e,
           batch |-> {}, full |-> FALSE, file |-> None, res |-> res, alone |-> q.alone]
  BY <1>1, <1>2, <1>3 DEF Answer, IdleReq
<1>6. r \in Request
  BY <1>4, <1>5 DEF Request, ReqPCs
<1>7. QED
  BY <1>1, <1>2, <1>3, <1>5, <1>6

LEMMA ReqFacts ==
  ASSUME FoldersInv, NEW h \in Handlers
  PROVE  /\ req \in [Handlers -> Request] /\ req[h] \in Request
         /\ Shaped(req[h]) /\ Known(req[h]) /\ Traced(req[h]) /\ (req[h].alone => Undisturbed(req[h]))
         /\ TablesInv /\ aborts \in 0 .. MaxAborts
  BY DEF FoldersInv, FoldersTypeOK, ShapeInv, IdsInv, TraceInv, AloneInv, TablesInv

\* A failure: to a delete of a folder that nobody disturbs it does not happen.
LEMMA Refused ==
  ASSUME FoldersInv, UNCHANGED tables, UNCHANGED aborts, NEW h \in Handlers,
         NEW res \in Answers \ {"ok"}, Update(h, Answer(h, res), FALSE),
         ~(req[h].op = "folder" /\ req[h].alone)
  PROVE  FoldersInv'
<1>1. /\ req \in [Handlers -> Request] /\ Shaped(req[h]) /\ Known(req[h])
      /\ aborts \in 0 .. MaxAborts
  BY ReqFacts
<1>2. PICK r \in Request : /\ r = Answer(h, res) /\ r.op = req[h].op /\ r.target = req[h].target
                           /\ r.alone = req[h].alone /\ r.pc = "done" /\ r.res = res
  BY <1>1, Answered
<1>3. Shaped(r)
  BY <1>1, <1>2 DEF Shaped, TreePCs
<1>4. Known(r) /\ Traced(r)
  BY <1>1, <1>2 DEF Known, Traced, TreePCs
<1>5. r.alone => Undisturbed(r)
  BY <1>1, <1>2 DEF Undisturbed, TreePCs
<1>6. QED
  BY <1>1, <1>2, <1>3, <1>4, <1>5, KeepsQuietly

LEMMA CreateStarts ==
  ASSUME FoldersInv, NEW h \in Handlers, CreateStart(h)
  PROVE  FoldersInv'
<1>1. PICK who \in Callers, d \in Places, name \in Names :
         /\ EnsureOwnedFolder(who, d) = "ok"
         /\ Accept(h, [New("create", "mk", who, d) EXCEPT !.name = name])
  BY DEF CreateStart
<1>2. PICK q \in Request : /\ q = New("create", "mk", who, d)
                           /\ q.op = "create" /\ q.pc = "mk" /\ q.who = who /\ q.target = d
  <2>1. "create" \in Ops /\ "mk" \in ReqPCs /\ d \in Places \cup FileIds
    BY DEF Ops, ReqPCs
  <2>2. QED
    BY <2>1, Created
<1>3. PICK r : r = [q EXCEPT !.name = name]
  OBVIOUS
<1>4. r \in Request /\ r.op = "create" /\ r.pc = "mk" /\ r.who = who /\ r.target = d /\ r.name = name
  BY <1>2, <1>3 DEF Request
<1>5. d # Root => folders[d] # None /\ folders[d].owner = who
  BY <1>1 DEF EnsureOwnedFolder
<1>6. Shaped(r)
  BY <1>4 DEF Shaped, TreePCs
<1>7. TablesInv /\ aborts \in 0 .. MaxAborts
  BY ReqFacts
<1>8. d # Root => d \in issued
  BY <1>5, <1>7 DEF TablesInv, Places
<1>9. Known(r) /\ Traced(r)
  BY <1>4, <1>5, <1>8 DEF Known, Traced
<1>10. Undisturbed(r)
  BY <1>4, <1>5 DEF Undisturbed, HasFolder
<1>11. Update(h, r, FALSE) /\ UNCHANGED tables /\ UNCHANGED aborts
  BY <1>1, <1>2, <1>3 DEF Accept
<1>12. QED
  BY <1>4, <1>6, <1>7, <1>9, <1>10, <1>11, KeepsQuietly

LEMMA PresignStarts ==
  ASSUME FoldersInv, NEW h \in Handlers, PresignStart(h)
  PROVE  FoldersInv'
<1>1. PICK who \in Callers, d \in Places :
         EnsureOwnedFolder(who, d) = "ok" /\ Accept(h, New("presign", "up", who, d))
  BY DEF PresignStart
<1>2. PICK r \in Request : /\ r = New("presign", "up", who, d)
                           /\ r.op = "presign" /\ r.pc = "up" /\ r.who = who /\ r.target = d
  <2>1. "presign" \in Ops /\ "up" \in ReqPCs /\ d \in Places \cup FileIds
    BY DEF Ops, ReqPCs
  <2>2. QED
    BY <2>1, Created
<1>3. d # Root => folders[d] # None /\ folders[d].owner = who
  BY <1>1 DEF EnsureOwnedFolder
<1>4. Shaped(r)
  BY <1>2 DEF Shaped, TreePCs
<1>5. TablesInv /\ aborts \in 0 .. MaxAborts
  BY ReqFacts
<1>6. d # Root => d \in issued
  BY <1>3, <1>5 DEF TablesInv, Places
<1>7. Known(r) /\ Traced(r)
  BY <1>2, <1>3, <1>6 DEF Known, Traced
<1>8. Undisturbed(r)
  BY <1>2, <1>3 DEF Undisturbed, HasFolder
<1>9. Update(h, r, FALSE) /\ UNCHANGED tables /\ UNCHANGED aborts
  BY <1>1, <1>2 DEF Accept
<1>10. QED
  BY <1>2, <1>4, <1>5, <1>7, <1>8, <1>9, KeepsQuietly

LEMMA DeleteFileStarts ==
  ASSUME FoldersInv, NEW h \in Handlers, DeleteFileStart(h)
  PROVE  FoldersInv'
<1>1. PICK who \in Callers, f \in FileIds : Accept(h, [New("file", "row", who, f) EXCEPT !.file = f])
  BY DEF DeleteFileStart
<1>2. PICK q \in Request : /\ q = New("file", "row", who, f)
                           /\ q.op = "file" /\ q.pc = "row" /\ q.who = who /\ q.target = f /\ q.stack = <<>>
  <2>1. "file" \in Ops /\ "row" \in ReqPCs /\ f \in Places \cup FileIds
    BY DEF Ops, ReqPCs
  <2>2. QED
    BY <2>1, Created
<1>3. PICK r : r = [q EXCEPT !.file = f]
  OBVIOUS
<1>4. /\ r \in Request /\ r.op = "file" /\ r.pc = "row" /\ r.who = who
      /\ r.target = f /\ r.file = f /\ r.stack = <<>>
  BY <1>2, <1>3 DEF Request
<1>5. Shaped(r) /\ Known(r) /\ Traced(r) /\ Undisturbed(r)
  BY <1>4 DEF Shaped, TreePCs, Known, Traced, Undisturbed
<1>6. aborts \in 0 .. MaxAborts
  BY ReqFacts
<1>7. Update(h, r, FALSE) /\ UNCHANGED tables /\ UNCHANGED aborts
  BY <1>1, <1>2, <1>3 DEF Accept
<1>8. QED
  BY <1>4, <1>5, <1>6, <1>7, KeepsQuietly

LEMMA DeleteFolderStarts ==
  ASSUME FoldersInv, NEW h \in Handlers, DeleteFolderStart(h)
  PROVE  FoldersInv'
<1>1. PICK who \in Callers, d \in FolderIds \cap issued :
        Accept(h, CASE EnsureOwnedFolder(who, d) = "notfound" ->
                           [New("folder", "done", who, d) EXCEPT !.res = "ok"]
                    [] EnsureOwnedFolder(who, d) = "forbidden" ->
                           [New("folder", "done", who, d) EXCEPT !.res = "forbidden"]
                    [] OTHER -> [New("folder", "dirs", who, d) EXCEPT !.stack = <<[dir |-> d, todo |-> {}]>>])
  BY DEF DeleteFolderStart
<1>2. d # Root /\ d \in Places \cup FileIds
  BY FoldersAssumption DEF Places
<1>3. aborts \in 0 .. MaxAborts
  BY ReqFacts
<1>4. ASSUME NEW r \in Request, Accept(h, r), Shaped(r), Known(r), Traced(r), Undisturbed(r)
      PROVE  FoldersInv'
  <2>1. Update(h, r, FALSE) /\ UNCHANGED tables /\ UNCHANGED aborts
    BY <1>4 DEF Accept
  <2>2. QED
    BY <1>3, <1>4, <2>1, KeepsQuietly
<1>5. CASE folders[d] = None
  <2>1. EnsureOwnedFolder(who, d) = "notfound"
    BY <1>2, <1>5 DEF EnsureOwnedFolder
  <2>2. "folder" \in Ops /\ "done" \in ReqPCs
    BY DEF Ops, ReqPCs
  <2>3. PICK q \in Request : /\ q = New("folder", "done", who, d)
                             /\ q.op = "folder" /\ q.pc = "done" /\ q.target = d
    BY <1>2, <2>2, Created
  <2>4. PICK r : r = [q EXCEPT !.res = "ok"]
    OBVIOUS
  <2>5. r \in Request /\ r.op = "folder" /\ r.pc = "done" /\ r.target = d /\ r.res = "ok"
    BY <2>3, <2>4 DEF Request, Answers
  <2>6. Accept(h, r)
    BY <1>1, <2>1, <2>3, <2>4
  <2>7. Shaped(r) /\ Known(r) /\ Traced(r) /\ Undisturbed(r)
    BY <1>5, <2>5 DEF Shaped, TreePCs, Known, Traced, Undisturbed
  <2>8. QED
    BY <1>4, <2>5, <2>6, <2>7
<1>6. CASE folders[d] # None /\ folders[d].owner # who
  <2>1. EnsureOwnedFolder(who, d) = "forbidden"
    BY <1>2, <1>6 DEF EnsureOwnedFolder
  <2>2. "folder" \in Ops /\ "done" \in ReqPCs
    BY DEF Ops, ReqPCs
  <2>3. PICK q \in Request : /\ q = New("folder", "done", who, d)
                             /\ q.op = "folder" /\ q.pc = "done" /\ q.target = d
    BY <1>2, <2>2, Created
  <2>4. PICK r : r = [q EXCEPT !.res = "forbidden"]
    OBVIOUS
  <2>5. r \in Request /\ r.op = "folder" /\ r.pc = "done" /\ r.target = d /\ r.res = "forbidden"
    BY <2>3, <2>4 DEF Request, Answers
  <2>6. Accept(h, r)
    BY <1>1, <2>1, <2>3, <2>4
  <2>7. Shaped(r) /\ Known(r) /\ Traced(r) /\ Undisturbed(r)
    BY <2>5 DEF Shaped, TreePCs, Known, Traced, Undisturbed
  <2>8. QED
    BY <1>4, <2>5, <2>6, <2>7
<1>7. CASE folders[d] # None /\ folders[d].owner = who
  <2>1. EnsureOwnedFolder(who, d) = "ok"
    BY <1>2, <1>7 DEF EnsureOwnedFolder
  <2>2. "folder" \in Ops /\ "dirs" \in ReqPCs
    BY DEF Ops, ReqPCs
  <2>3. PICK q \in Request : /\ q = New("folder", "dirs", who, d)
                             /\ q.op = "folder" /\ q.pc = "dirs" /\ q.who = who /\ q.target = d
    BY <1>2, <2>2, Created
  <2>4. PICK s : s = <<[dir |-> d, todo |-> {}]>>
    OBVIOUS
  <2>5. PICK x \in Frame : x = [dir |-> d, todo |-> {}]
    BY DEF Frame
  <2>6. s \in Seq(Frame) /\ s # <<>> /\ Len(s) = 1 /\ s[1] = x
    BY <2>4, <2>5
  <2>7. PICK r : r = [q EXCEPT !.stack = s]
    OBVIOUS
  <2>8. r \in Request /\ r.op = "folder" /\ r.pc = "dirs" /\ r.who = who /\ r.target = d /\ r.stack = s
    BY <2>3, <2>6, <2>7 DEF Request
  <2>9. Accept(h, r)
    BY <1>1, <2>1, <2>3, <2>4, <2>7
  <2>10. Shaped(r) /\ Known(r)
    BY <2>5, <2>6, <2>8 DEF Shaped, TreePCs, Known
  <2>11. Chain(folders, s, who)
    BY <1>7, <2>5, <2>6 DEF Chain
  <2>12. Undisturbed(r)
    BY <2>8, <2>11 DEF Undisturbed
  <2>13. Climbs(folders, s) /\ Handed(s)
    BY <2>5, <2>6 DEF Climbs, Handed
  <2>14. Traced(r)
    BY <2>8, <2>13 DEF Traced
  <2>15. QED
    BY <1>4, <2>8, <2>9, <2>10, <2>12, <2>14
<1>8. QED
  BY <1>5, <1>6, <1>7

LEMMA Replies ==
  ASSUME FoldersInv, NEW h \in Handlers, Reply(h)
  PROVE  FoldersInv'
<1>1. PICK e \in Seq(Frame) : e = <<>>
  <2>1. <<>> \in Seq(Frame)
    OBVIOUS
  <2>2. QED
    BY <2>1
<1>2. PICK r : r = IdleReq
  OBVIOUS
<1>3. r = [op |-> "none", pc |-> "idle", who |-> None, target |-> None, name |-> None, stack |-> e,
           batch |-> {}, full |-> FALSE, file |-> None, res |-> "ok", alone |-> TRUE]
  BY <1>1, <1>2 DEF IdleReq
<1>4. r \in Request /\ r.op = "none" /\ r.pc = "idle"
  BY <1>3 DEF Request, ReqPCs, Ops, Answers
<1>5. Shaped(r) /\ Known(r) /\ Traced(r) /\ Undisturbed(r)
  BY <1>4 DEF Shaped, TreePCs, Known, Traced, Undisturbed
<1>6. Update(h, r, FALSE) /\ UNCHANGED tables /\ UNCHANGED aborts
  BY <1>2 DEF Reply
<1>7. aborts \in 0 .. MaxAborts
  BY ReqFacts
<1>8. QED
  BY <1>4, <1>5, <1>6, <1>7, KeepsQuietly

LEMMA Aborts ==
  ASSUME FoldersInv, NEW h \in Handlers, Abort(h)
  PROVE  FoldersInv'
<1>1. /\ req \in [Handlers -> Request] /\ Shaped(req[h]) /\ Known(req[h])
      /\ aborts \in 0 .. MaxAborts
  BY ReqFacts
<1>2. aborts' \in 0 .. MaxAborts
  BY <1>1, FoldersAssumption DEF Abort
<1>3. "internal" \in Answers
  BY DEF Answers
<1>4. PICK q \in Request : /\ q = Answer(h, "internal") /\ q.op = req[h].op /\ q.target = req[h].target
                           /\ q.pc = "done" /\ q.res = "internal"
  BY <1>1, <1>3, Answered
<1>5. PICK r : r = [q EXCEPT !.alone = FALSE]
  OBVIOUS
<1>6. /\ r \in Request /\ r.op = req[h].op /\ r.target = req[h].target
      /\ r.pc = "done" /\ r.res = "internal" /\ ~r.alone
  BY <1>4, <1>5 DEF Request
<1>7. Shaped(r) /\ Known(r) /\ Traced(r)
  BY <1>1, <1>6 DEF Shaped, TreePCs, Known, Traced
<1>8. Update(h, r, FALSE) /\ UNCHANGED tables
  BY <1>4, <1>5 DEF Abort
<1>9. QED
  BY <1>2, <1>6, <1>7, <1>8, KeepsQuietly

-----------------------------------------------------------------------------
(* The INSERTs.                                                            *)

LEMMA CreateInserts ==
  ASSUME FoldersInv, NEW h \in Handlers, CreateInsert(h)
  PROVE  FoldersInv'
<1>1. /\ req \in [Handlers -> Request] /\ req[h] \in Request /\ Shaped(req[h]) /\ Known(req[h])
      /\ TablesInv /\ aborts \in 0 .. MaxAborts
  BY ReqFacts
<1>2. req[h].pc = "mk" /\ UNCHANGED aborts /\ UNCHANGED files
  BY DEF CreateInsert
<1>3. req[h].who \in Callers /\ req[h].name \in Names /\ req[h].target \in Places /\ req[h].op = "create"
  BY <1>1, <1>2 DEF Shaped
<1>4. PICK row : row = [owner |-> req[h].who, parent |-> req[h].target, name |-> req[h].name]
  OBVIOUS
<1>5. row \in FolderRow /\ row.owner = req[h].who /\ row.parent = req[h].target
  BY <1>3, <1>4 DEF FolderRow
<1>6. CASE /\ PgCreateFolder(row) = "ok"
           /\ FolderIds \ issued # {}
           /\ folders' = [folders EXCEPT ![NewId(FolderIds)] = row]
           /\ issued' = issued \cup {NewId(FolderIds)}
           /\ Update(h, Answer(h, "ok"), TRUE)
  <2>1. PICK d \in FolderIds \ issued : d = NewId(FolderIds)
    BY <1>6, FreshId
  <2>2. HasFolder(row.parent)
    BY <1>6 DEF PgCreateFolder
  <2>3. row.parent # Root => folders[row.parent] # None /\ folders[row.parent].owner = row.owner
    BY <1>1, <1>2, <1>5, <2>2 DEF HasFolder, Known
  <2>4. folders' = [folders EXCEPT ![d] = row] /\ issued' = issued \cup {d}
    BY <1>6, <2>1
  <2>5. TablesInv' /\ IdsKept
    BY <1>1, <1>2, <1>5, <2>3, <2>4, FolderInserted
  <2>6. "ok" \in Answers
    BY DEF Answers
  <2>7. PICK r \in Request : r = Answer(h, "ok") /\ r.op = req[h].op /\ r.pc = "done"
    BY <1>1, <2>6, Answered
  <2>8. Shaped(r) /\ Known(r)' /\ Traced(r) /\ Undisturbed(r)'
    BY <1>3, <2>7 DEF Shaped, TreePCs, Known, Traced, Undisturbed
  <2>9. Update(h, r, TRUE)
    BY <1>6, <2>7
  <2>10. aborts' \in 0 .. MaxAborts
    BY <1>1, <1>2
  <2>11. QED
    BY <2>5, <2>8, <2>9, <2>10, Keeps
<1>7. CASE PgCreateFolder(row) # "ok" /\ Update(h, Answer(h, PgCreateFolder(row)), FALSE)
           /\ UNCHANGED <<folders, issued>>
  <2>1. PgCreateFolder(row) \in Answers \ {"ok"}
    BY <1>7 DEF PgCreateFolder, Answers
  <2>2. QED
    BY <1>2, <1>3, <1>7, <2>1, Refused DEF tables
<1>8. QED
  BY <1>4, <1>6, <1>7 DEF CreateInsert

LEMMA PresignInserts ==
  ASSUME FoldersInv, NEW h \in Handlers, PresignInsert(h)
  PROVE  FoldersInv'
<1>1. /\ req \in [Handlers -> Request] /\ req[h] \in Request /\ Shaped(req[h]) /\ Known(req[h])
      /\ TablesInv /\ aborts \in 0 .. MaxAborts
  BY ReqFacts
<1>2. req[h].pc = "up" /\ UNCHANGED aborts /\ UNCHANGED folders
  BY DEF PresignInsert
<1>3. req[h].who \in Callers /\ req[h].target \in Places /\ req[h].op = "presign"
  BY <1>1, <1>2 DEF Shaped
<1>4. PICK row : row = [owner |-> req[h].who, folder |-> req[h].target]
  OBVIOUS
<1>5. row \in FileRow /\ row.owner = req[h].who /\ row.folder = req[h].target
  BY <1>3, <1>4 DEF FileRow
<1>6. CASE /\ PgCreateFile(row) = "ok"
           /\ FileIds \ issued # {}
           /\ files' = [files EXCEPT ![NewId(FileIds)] = row]
           /\ issued' = issued \cup {NewId(FileIds)}
           /\ Update(h, Answer(h, "ok"), TRUE)
  <2>1. PICK f \in FileIds \ issued : f = NewId(FileIds)
    BY <1>6, FreshId
  <2>2. HasFolder(row.folder)
    BY <1>6 DEF PgCreateFile
  <2>3. row.folder # Root => folders[row.folder] # None /\ folders[row.folder].owner = row.owner
    BY <1>1, <1>2, <1>5, <2>2 DEF HasFolder, Known
  <2>4. files' = [files EXCEPT ![f] = row] /\ issued' = issued \cup {f}
    BY <1>6, <2>1
  <2>5. TablesInv' /\ IdsKept
    BY <1>1, <1>2, <1>5, <2>3, <2>4, FileInserted
  <2>6. "ok" \in Answers
    BY DEF Answers
  <2>7. PICK r \in Request : r = Answer(h, "ok") /\ r.op = req[h].op /\ r.pc = "done"
    BY <1>1, <2>6, Answered
  <2>8. Shaped(r) /\ Known(r)' /\ Traced(r) /\ Undisturbed(r)'
    BY <1>3, <2>7 DEF Shaped, TreePCs, Known, Traced, Undisturbed
  <2>9. Update(h, r, TRUE)
    BY <1>6, <2>7
  <2>10. aborts' \in 0 .. MaxAborts
    BY <1>1, <1>2
  <2>11. QED
    BY <2>5, <2>8, <2>9, <2>10, Keeps
<1>7. CASE PgCreateFile(row) # "ok" /\ Update(h, Answer(h, PgCreateFile(row)), FALSE)
           /\ UNCHANGED <<files, issued>>
  <2>1. PgCreateFile(row) \in Answers \ {"ok"}
    BY <1>7 DEF PgCreateFile, Answers
  <2>2. QED
    BY <1>2, <1>3, <1>7, <2>1, Refused DEF tables
<1>8. QED
  BY <1>4, <1>6, <1>7 DEF PresignInsert

-----------------------------------------------------------------------------
(* The steps of deleteFolderTree.                                          *)

\* A request inside a tree, and its stack.
LEMMA InTree ==
  ASSUME NEW r \in Request, Shaped(r), r.pc \in TreePCs, r.pc = "row" => r.stack # <<>>
  PROVE  /\ r.op = "folder" /\ r.stack \in Seq(Frame) /\ r.stack # <<>> /\ r.stack[1].dir = r.target
         /\ r.who \in Callers /\ r.target \in FolderIds
  BY DEF Shaped, TreePCs, Request

\* What is above the top of the stack is what the chain says something about.
LEMMA ChainAgrees ==
  ASSUME NEW F, NEW s, NEW u, NEW who, Chain(F, s, who), Len(u) = Len(s), Len(s) \in Nat \ {0},
         \A i \in 1 .. Len(s) - 1 : u[i] = s[i], u[Len(s)].dir = s[Len(s)].dir
  PROVE  Chain(F, u, who)
<1>1. \A i \in 1 .. Len(s) : u[i].dir = s[i].dir
  <2> TAKE i \in 1 .. Len(s)
  <2>1. CASE i = Len(s)
    BY <2>1
  <2>2. CASE i # Len(s)
    BY <2>2
  <2>3. QED
    BY <2>1, <2>2
<1>2. \A i \in 1 .. Len(s) - 1 : u[i+1].dir = s[i+1].dir
  BY <1>1
<1>3. QED
  BY <1>1, <1>2 DEF Chain

\* A child that is gone into lies in the folder that listed it.
LEMMA NestedClimbs ==
  ASSUME NEW s \in Seq(Frame), s # <<>>, Climbs(folders, s), Handed(s),
         NEW c \in Last(s).todo, NEW t, Nested(s, c, t)
  PROVE  Climbs(folders, t) /\ Handed(t)
<1>1. Len(s) \in Nat \ {0} /\ Last(s) = s[Len(s)] /\ Len(t) = Len(s) + 1
  BY LastIn DEF Nested
<1>2. t[Len(s) + 1].dir = c /\ t[Len(s) + 1].todo = {}
  BY DEF Nested
<1>3. ASSUME NEW i \in 1 .. Len(s) PROVE t[i].dir = s[i].dir /\ t[i].todo \subseteq s[i].todo
  <2>1. CASE i = Len(s)
    BY <1>1, <2>1 DEF Nested
  <2>2. CASE i # Len(s)
    <3>1. i \in 1 .. Len(s) - 1
      BY <1>1, <2>2
    <3>2. QED
      BY <3>1 DEF Nested
  <2>3. QED
    BY <2>1, <2>2
<1>4. ASSUME NEW i \in 1 .. Len(t) PROVE i \in 1 .. Len(s) \/ i = Len(s) + 1
  BY <1>1
<1>5. c \in issued /\ Within(folders, c, s[Len(s)].dir)
  BY <1>1 DEF Climbs, Handed
<1>6. Handed(t)
  BY <1>2, <1>3, <1>4, <1>5 DEF Handed
<1>7. \A i \in 1 .. Len(t) : \A x \in t[i].todo : Within(folders, x, t[i].dir)
  BY <1>2, <1>3, <1>4 DEF Climbs
<1>8. ASSUME NEW i \in 1 .. Len(t) - 1 PROVE Within(folders, t[i+1].dir, t[i].dir)
  <2>1. CASE i = Len(s)
    BY <1>1, <1>2, <1>3, <1>5, <2>1
  <2>2. CASE i # Len(s)
    <3>1. i \in 1 .. Len(s) - 1 /\ i \in 1 .. Len(s) /\ i + 1 \in 1 .. Len(s)
      BY <1>1, <2>2
    <3>2. Within(folders, s[i+1].dir, s[i].dir)
      BY <3>1 DEF Climbs
    <3>3. t[i].dir = s[i].dir /\ t[i+1].dir = s[i+1].dir
      BY <1>3, <3>1
    <3>4. QED
      BY <3>2, <3>3
  <2>3. QED
    BY <2>1, <2>2
<1>9. QED
  BY <1>6, <1>7, <1>8 DEF Climbs

\* The calls below the last one, or the last one with another list of children.
LEMMA Climbing ==
  ASSUME NEW s, NEW u, Climbs(folders, s), Handed(s), Len(s) \in Nat \ {0}, Len(u) \in 0 .. Len(s),
         \A i \in 1 .. Len(u) : \/ u[i] = s[i]
                                \/ /\ u[i].dir = s[i].dir /\ u[i].todo \subseteq issued
                                   /\ \A c \in u[i].todo : Within(folders, c, u[i].dir)
  PROVE  Climbs(folders, u) /\ Handed(u)
<1>1. ASSUME NEW i \in 1 .. Len(u)
      PROVE  /\ i \in 1 .. Len(s) /\ u[i].dir = s[i].dir /\ u[i].dir \in issued /\ u[i].todo \subseteq issued
             /\ \A c \in u[i].todo : Within(folders, c, u[i].dir)
  <2>1. i \in 1 .. Len(s)
    OBVIOUS
  <2>2. QED
    BY <2>1 DEF Climbs, Handed
<1>2. ASSUME NEW i \in 1 .. Len(u) - 1 PROVE Within(folders, u[i+1].dir, u[i].dir)
  <2>1. i \in 1 .. Len(s) - 1 /\ i \in 1 .. Len(u) /\ i + 1 \in 1 .. Len(u)
    OBVIOUS
  <2>2. u[i].dir = s[i].dir /\ u[i+1].dir = s[i+1].dir
    BY <1>1, <2>1
  <2>3. QED
    BY <2>1, <2>2 DEF Climbs
<1>3. QED
  BY <1>1, <1>2 DEF Climbs, Handed

\* Going on to a child or to the files of a folder whose children are known.
LEMMA DescendKeeps ==
  ASSUME NEW r \in Request, r.op = "folder", r.stack # <<>>, r.stack[1].dir = r.target,
         r.who \in Callers, r.target \in FolderIds \cap issued, Climbs(folders, r.stack), Handed(r.stack),
         NEW next \in Descend(r)
  PROVE  /\ next \in Request /\ next.alone = r.alone /\ Shaped(next) /\ Known(next) /\ Traced(next)
         /\ next.pc \in {"dirs", "files"}
<1>1. /\ next \in Request /\ Kept(r, next)
      /\ \/ Last(r.stack).todo = {} /\ next.pc = "files" /\ next.stack = r.stack
         \/ next.pc = "dirs" /\ \E c \in Last(r.stack).todo : Nested(r.stack, c, next.stack)
  BY Descended
<1>2. r.stack \in Seq(Frame)
  BY DEF Request
<1>3. next.stack # <<>> /\ next.stack[1].dir = r.stack[1].dir
  BY <1>1, <1>2, NestedShape
<1>4. /\ next.op = "folder" /\ next.who \in Callers /\ next.target = r.target /\ next.alone = r.alone
      /\ next.pc \in {"dirs", "files"}
  BY <1>1 DEF Kept
<1>5. Shaped(next)
  BY <1>3, <1>4 DEF Shaped, TreePCs
<1>6. Known(next)
  BY <1>4 DEF Known
<1>7. Climbs(folders, next.stack) /\ Handed(next.stack)
  BY <1>1, <1>2, NestedClimbs
<1>8. Traced(next)
  BY <1>4, <1>7 DEF Traced
<1>9. QED
  BY <1>1, <1>4, <1>5, <1>6, <1>8

LEMMA DescendUndisturbed ==
  ASSUME NEW F, Forest(F), NEW r \in Request, r.stack # <<>>, Chain(F, r.stack, r.who),
         Kids(F, r.who, Last(r.stack).dir) = Last(r.stack).todo, NEW next \in Descend(r)
  PROVE  /\ Chain(F, next.stack, next.who)
         /\ next.pc # "dirs" => Kids(F, next.who, Last(next.stack).dir) = {}
<1>1. /\ next.who = r.who
      /\ \/ Last(r.stack).todo = {} /\ next.pc = "files" /\ next.stack = r.stack
         \/ next.pc = "dirs" /\ \E c \in Last(r.stack).todo : Nested(r.stack, c, next.stack)
  BY Descended DEF Kept
<1>2. CASE Last(r.stack).todo = {} /\ next.pc = "files" /\ next.stack = r.stack
  BY <1>1, <1>2
<1>3. CASE next.pc = "dirs" /\ \E c \in Last(r.stack).todo : Nested(r.stack, c, next.stack)
  <2>1. PICK c \in Last(r.stack).todo : Nested(r.stack, c, next.stack)
    BY <1>3
  <2>2. r.stack \in Seq(Frame)
    BY DEF Request
  <2>3. Chain(F, next.stack, r.who)
    BY <2>1, <2>2, ChainNests
  <2>4. QED
    BY <1>1, <1>3, <2>3
<1>4. QED
  BY <1>1, <1>2, <1>3

LEMMA TreeListsFolders ==
  ASSUME FoldersInv, NEW h \in Handlers, TreeListFolders(h)
  PROVE  FoldersInv'
<1>1. PICK r0 \in Request : r0 = req[h]
  BY ReqFacts
<1>2. /\ Shaped(r0) /\ Known(r0) /\ Traced(r0) /\ (r0.alone => Undisturbed(r0))
      /\ TablesInv /\ aborts \in 0 .. MaxAborts /\ r0.pc = "dirs"
  BY <1>1, ReqFacts DEF TreeListFolders
<1>3. PICK s \in Seq(Frame) : s = r0.stack
  BY DEF Request
<1>4. /\ r0.op = "folder" /\ s # <<>> /\ s[1].dir = r0.target
      /\ r0.who \in Callers /\ r0.target \in FolderIds \cap issued
  BY <1>2, <1>3, InTree DEF TreePCs, Known
<1>5. Last(s) = s[Len(s)] /\ Len(s) \in Nat \ {0} /\ s[Len(s)] \in Frame
  BY <1>4, LastIn
<1>6. PICK x : x = [Last(s) EXCEPT !.todo = Kids(folders, r0.who, Last(s).dir)]
  OBVIOUS
<1>7. x \in Frame /\ x.dir = Last(s).dir /\ x.todo = Kids(folders, r0.who, Last(s).dir)
  BY <1>5, <1>6 DEF Frame, Kids
<1>8. PICK u \in Seq(Frame) : /\ u = Append(Front(s), x)
                              /\ u # <<>> /\ Len(u) = Len(s) /\ u[Len(s)] = x
                              /\ \A i \in 1 .. Len(s) - 1 : u[i] = s[i]
  BY <1>4, <1>7, TopReplaced
<1>9. PICK r1 : r1 = [r0 EXCEPT !.stack = u]
  OBVIOUS
<1>10. /\ r1 \in Request /\ r1.op = "folder" /\ r1.stack = u /\ r1.who = r0.who
       /\ r1.target = r0.target /\ r1.alone = r0.alone
  BY <1>4, <1>8, <1>9 DEF Request
<1>11. PICK next \in Descend(r1) : Update(h, next, FALSE)
  <2>1. \E next \in Descend([req[h] EXCEPT !.stack =
                Append(Front(@), [Top(h) EXCEPT !.todo = ListFolders(req[h].who, Top(h).dir)])]) :
           Update(h, next, FALSE)
    BY DEF TreeListFolders
  <2>2. Top(h) = Last(s) /\ ListFolders(req[h].who, Top(h).dir) = Kids(folders, r0.who, Last(s).dir)
    BY <1>1, <1>3 DEF Top, ListFolders, Kids
  <2>3. [req[h] EXCEPT !.stack =
            Append(Front(@), [Top(h) EXCEPT !.todo = ListFolders(req[h].who, Top(h).dir)])] = r1
    BY <1>1, <1>3, <1>6, <1>8, <1>9, <2>2
  <2>4. QED
    BY <2>1, <2>3
<1>12. u[1].dir = s[1].dir
  BY <1>5, <1>7, <1>8
<1>13. /\ next \in Request /\ next.alone = r0.alone /\ Shaped(next) /\ Known(next) /\ Traced(next)
       /\ next.pc \in {"dirs", "files"}
  <2>1. Climbs(folders, s) /\ Handed(s)
    BY <1>2, <1>3, <1>4 DEF Traced, TreePCs
  <2>2. x.todo \subseteq issued /\ \A c \in x.todo : Within(folders, c, x.dir)
    BY <1>2, <1>7 DEF Kids, Within, TablesInv
  <2>3. \A i \in 1 .. Len(u) : u[i] = s[i] \/ (i = Len(s) /\ u[i] = x)
    BY <1>5, <1>8
  <2>4. \A i \in 1 .. Len(u) : \/ u[i] = s[i]
                               \/ /\ u[i].dir = s[i].dir /\ u[i].todo \subseteq issued
                                  /\ \A c \in u[i].todo : Within(folders, c, u[i].dir)
    BY <1>5, <1>7, <2>2, <2>3
  <2>5. Len(u) \in 0 .. Len(s)
    BY <1>5, <1>8
  <2>6. Climbs(folders, u) /\ Handed(u)
    BY <1>5, <2>1, <2>4, <2>5, Climbing
  <2>7. QED
    BY <1>4, <1>8, <1>10, <1>11, <1>12, <2>6, DescendKeeps
<1>14. ASSUME next.alone PROVE Undisturbed(next)
  <2>1. Chain(folders, s, r0.who)
    BY <1>2, <1>3, <1>4, <1>13, <1>14 DEF Undisturbed, TreePCs
  <2>2. Chain(folders, u, r0.who)
    BY <1>5, <1>7, <1>8, <2>1, ChainAgrees
  <2>3. Last(u) = x
    BY <1>8 DEF Last
  <2>4. Forest(folders)
    BY <1>2 DEF TablesInv, ForestInv
  <2>5. /\ Chain(folders, next.stack, next.who)
        /\ next.pc # "dirs" => Kids(folders, next.who, Last(next.stack).dir) = {}
    BY <1>7, <1>8, <1>10, <1>11, <2>2, <2>3, <2>4, DescendUndisturbed
  <2>6. QED
    BY <1>13, <2>5 DEF Undisturbed, ListFolders, Kids
<1>15. UNCHANGED tables /\ UNCHANGED aborts
  BY DEF TreeListFolders
<1>16. QED
  BY <1>2, <1>11, <1>13, <1>14, <1>15, KeepsQuietly

\* An empty listing is all there is; one that is not full is complete.
LEMMA Listed ==
  ASSUME NEW who, NEW d, NEW b \in ListFilesByOwner(who, d)
  PROVE  /\ b \in SUBSET FileIds /\ b \subseteq FilesIn(who, d)
         /\ Cardinality(b) # Batch => b = FilesIn(who, d)
         /\ b = {} => b = FilesIn(who, d)
<1>1. b \subseteq FilesIn(who, d) /\ (Cardinality(b) # Batch => b = FilesIn(who, d))
  BY DEF ListFilesByOwner
<1>2. Cardinality({}) # Batch
  BY FS_EmptySet, FoldersAssumption
<1>3. QED
  BY <1>1, <1>2 DEF FilesIn

LEMMA TreeListsFiles ==
  ASSUME FoldersInv, NEW h \in Handlers, TreeListFiles(h)
  PROVE  FoldersInv'
<1>1. PICK r0 \in Request : r0 = req[h]
  BY ReqFacts
<1>2. /\ Shaped(r0) /\ Known(r0) /\ Traced(r0) /\ (r0.alone => Undisturbed(r0))
      /\ TablesInv /\ aborts \in 0 .. MaxAborts /\ r0.pc = "files"
  BY <1>1, ReqFacts DEF TreeListFiles
<1>3. /\ r0.op = "folder" /\ r0.stack # <<>> /\ r0.stack[1].dir = r0.target
      /\ r0.who \in Callers /\ r0.target \in FolderIds \cap issued
  BY <1>2, InTree DEF TreePCs, Known
<1>4. PICK d : d = Last(r0.stack).dir
  OBVIOUS
<1>5. PICK b \in ListFilesByOwner(r0.who, d) :
         Update(h, [r0 EXCEPT !.pc = IF b = {} THEN "rmdir" ELSE "get",
                              !.batch = b, !.full = Cardinality(b) = Batch], FALSE)
  BY <1>1, <1>4 DEF TreeListFiles, Top
<1>6. PICK full \in BOOLEAN : full <=> Cardinality(b) = Batch
  OBVIOUS
<1>7. (Cardinality(b) = Batch) = full
  BY <1>6
<1>8. PICK new : new = [r0 EXCEPT !.pc = IF b = {} THEN "rmdir" ELSE "get", !.batch = b, !.full = full]
  OBVIOUS
<1>9. Update(h, new, FALSE)
  BY <1>5, <1>7, <1>8
<1>10. /\ b \in SUBSET FileIds /\ b \subseteq FilesIn(r0.who, d)
       /\ ~full => b = FilesIn(r0.who, d)
       /\ b = {} => b = FilesIn(r0.who, d)
  BY <1>6, Listed
<1>11. /\ new \in Request /\ Kept(r0, new) /\ new.stack = r0.stack /\ new.batch = b /\ (new.full <=> full)
       /\ new.pc = IF b = {} THEN "rmdir" ELSE "get"
  BY <1>8, <1>10 DEF Request, ReqPCs, Kept
<1>12. new.pc \in {"get", "rmdir"}
  BY <1>11
<1>13. Shaped(new) /\ Known(new) /\ Traced(new)
  <2>1. Shaped(new) /\ Known(new)
    BY <1>3, <1>11, <1>12 DEF Shaped, TreePCs, Known, Kept
  <2>2. Climbs(folders, r0.stack) /\ Handed(r0.stack)
    BY <1>2, <1>3 DEF Traced, TreePCs
  <2>3. \A f \in b : Lies(f, d)
    BY <1>2, <1>10 DEF FilesIn, Lies, TablesInv
  <2>4. Traced(new)
    BY <1>3, <1>4, <1>11, <1>12, <2>2, <2>3 DEF Traced, Kept
  <2>5. QED
    BY <2>1, <2>4
<1>14. ASSUME new.alone PROVE Undisturbed(new)
  <2>1. Chain(folders, r0.stack, r0.who) /\ ListFolders(r0.who, d) = {}
    BY <1>2, <1>3, <1>4, <1>11, <1>14 DEF Undisturbed, TreePCs, Kept
  <2>2. CASE b = {}
    BY <1>4, <1>10, <1>11, <2>1, <2>2 DEF Undisturbed, Kept
  <2>3. CASE b # {}
    BY <1>4, <1>10, <1>11, <2>1, <2>3 DEF Undisturbed, Kept
  <2>4. QED
    BY <2>2, <2>3
<1>15. UNCHANGED tables /\ UNCHANGED aborts
  BY DEF TreeListFiles
<1>16. QED
  BY <1>2, <1>9, <1>11, <1>13, <1>14, <1>15, KeepsQuietly

\* What a tree does after one of its files.
LEMMA AfterFileMade ==
  ASSUME NEW h, NEW r \in Request, r.stack # <<>>
  PROVE  \E a \in Request : /\ a = AfterFile(h, r) /\ Kept(r, a)
                            /\ a.stack = r.stack /\ a.batch = r.batch /\ (a.full <=> r.full)
                            /\ a.pc = IF r.batch # {} THEN "get" ELSE IF r.full THEN "files" ELSE "rmdir"
<1>1. CASE r.batch # {}
  <2>1. PICK a : a = [r EXCEPT !.pc = "get", !.file = None]
    OBVIOUS
  <2>2. a = AfterFile(h, r)
    BY <1>1, <2>1 DEF AfterFile
  <2>3. a \in Request /\ Kept(r, a) /\ a.stack = r.stack /\ a.batch = r.batch /\ (a.full <=> r.full) /\ a.pc = "get"
    BY <2>1 DEF Request, ReqPCs, Kept
  <2>4. QED
    BY <1>1, <2>2, <2>3
<1>2. CASE r.batch = {}
  <2>1. PICK pc \in ReqPCs : pc = IF r.full THEN "files" ELSE "rmdir"
    BY DEF ReqPCs
  <2>2. PICK a : a = [r EXCEPT !.pc = pc, !.file = None]
    OBVIOUS
  <2>3. a = AfterFile(h, r)
    BY <1>2, <2>1, <2>2 DEF AfterFile
  <2>4. a \in Request /\ Kept(r, a) /\ a.stack = r.stack /\ a.batch = r.batch /\ (a.full <=> r.full) /\ a.pc = pc
    BY <2>2 DEF Request, Kept
  <2>5. QED
    BY <1>2, <2>1, <2>3, <2>4
<1>3. QED
  BY <1>1, <1>2

LEMMA TreeGetsFile ==
  ASSUME FoldersInv, NEW h \in Handlers, TreeGetFile(h)
  PROVE  FoldersInv'
<1>1. PICK r0 \in Request : r0 = req[h]
  BY ReqFacts
<1>2. /\ Shaped(r0) /\ Known(r0) /\ Traced(r0) /\ (r0.alone => Undisturbed(r0))
      /\ aborts \in 0 .. MaxAborts /\ r0.pc = "get"
  BY <1>1, ReqFacts DEF TreeGetFile
<1>3. /\ r0.op = "folder" /\ r0.stack # <<>> /\ r0.stack[1].dir = r0.target
      /\ r0.who \in Callers /\ r0.target \in FolderIds \cap issued
  BY <1>2, InTree DEF TreePCs, Known
<1>4. UNCHANGED tables /\ UNCHANGED aborts
  BY DEF TreeGetFile
<1>5. PICK f \in r0.batch :
         Update(h, IF files[f] = None THEN AfterFile(h, [r0 EXCEPT !.batch = @ \ {f}])
                   ELSE [[r0 EXCEPT !.batch = @ \ {f}] EXCEPT !.pc = "row", !.file = f], FALSE)
  BY <1>1 DEF TreeGetFile
<1>6. PICK rest : rest = [r0 EXCEPT !.batch = @ \ {f}]
  OBVIOUS
<1>7. /\ rest \in Request /\ Kept(r0, rest) /\ rest.stack = r0.stack /\ rest.batch = r0.batch \ {f}
      /\ (rest.full <=> r0.full) /\ f \in FileIds
  BY <1>6 DEF Request, Kept
<1>8. PICK d : d = Last(r0.stack).dir
  OBVIOUS
<1>9. r0.alone => /\ Chain(folders, r0.stack, r0.who) /\ ListFolders(r0.who, d) = {}
                  /\ r0.batch \subseteq FilesIn(r0.who, d)
                  /\ ~r0.full => FilesIn(r0.who, d) \subseteq r0.batch
  BY <1>2, <1>3, <1>8 DEF Undisturbed, TreePCs
<1>10. CASE files[f] = None
  <2>1. PICK a \in Request : /\ a = AfterFile(h, rest) /\ Kept(rest, a) /\ a.stack = r0.stack
                             /\ a.batch = rest.batch
                             /\ a.pc = IF rest.batch # {} THEN "get" ELSE IF rest.full THEN "files" ELSE "rmdir"
    BY <1>3, <1>7, AfterFileMade
  <2>2. a.pc \in {"get", "files", "rmdir"} /\ Kept(r0, a)
    BY <1>7, <2>1 DEF Kept
  <2>3. Shaped(a) /\ Known(a) /\ Traced(a)
    <3>1. Shaped(a) /\ Known(a)
      BY <1>3, <2>1, <2>2 DEF Shaped, TreePCs, Known, Kept
    <3>2. Traced(a)
      BY <1>2, <1>3, <1>7, <2>1, <2>2 DEF Traced, TreePCs, Kept
    <3>3. QED
      BY <3>1, <3>2
  <2>4. ~a.alone
    BY <1>9, <1>10, <2>2 DEF FilesIn, Kept
  <2>5. Update(h, a, FALSE)
    BY <1>5, <1>6, <1>10, <2>1
  <2>6. QED
    BY <1>2, <1>4, <2>3, <2>4, <2>5, KeepsQuietly
<1>11. CASE files[f] # None
  <2>1. PICK a : a = [rest EXCEPT !.pc = "row", !.file = f]
    OBVIOUS
  <2>2. /\ a \in Request /\ Kept(r0, a) /\ a.stack = r0.stack /\ a.batch = r0.batch \ {f}
        /\ (a.full <=> r0.full) /\ a.pc = "row" /\ a.file = f
    BY <1>7, <2>1 DEF Request, ReqPCs, Kept
  <2>3. Shaped(a) /\ Known(a) /\ Traced(a)
    <3>1. Shaped(a) /\ Known(a)
      BY <1>3, <1>7, <2>2 DEF Shaped, TreePCs, Known, Kept
    <3>2. Traced(a)
      BY <1>2, <1>3, <2>2 DEF Traced, TreePCs, Kept
    <3>3. QED
      BY <3>1, <3>2
  <2>4. a.alone => Undisturbed(a)
    BY <1>3, <1>8, <1>9, <1>11, <2>2 DEF Undisturbed, Kept
  <2>5. Update(h, a, FALSE)
    BY <1>5, <1>6, <1>11, <2>1
  <2>6. QED
    BY <1>2, <1>4, <2>2, <2>3, <2>4, <2>5, KeepsQuietly
<1>12. QED
  BY <1>10, <1>11

LEMMA FileRowsGo ==
  ASSUME FoldersInv, NEW h \in Handlers, DeleteFileRow(h)
  PROVE  FoldersInv'
<1>1. PICK r0 \in Request : r0 = req[h]
  BY ReqFacts
<1>2. /\ Shaped(r0) /\ Known(r0) /\ Traced(r0) /\ (r0.alone => Undisturbed(r0))
      /\ req \in [Handlers -> Request]
      /\ TablesInv /\ aborts \in 0 .. MaxAborts /\ r0.pc = "row"
  BY <1>1, ReqFacts DEF DeleteFileRow
<1>3. PICK f \in FileIds : f = r0.file
  BY <1>2 DEF Shaped
<1>4. /\ r0.who \in Callers
      /\ \/ r0.op = "folder" /\ r0.stack # <<>> /\ r0.stack[1].dir = r0.target /\ r0.target \in FolderIds \cap issued
         \/ r0.op = "file" /\ r0.stack = <<>>
  BY <1>2 DEF Shaped, TreePCs, Known
<1>5. UNCHANGED <<folders, issued>> /\ UNCHANGED aborts /\ aborts' \in 0 .. MaxAborts
  BY <1>2 DEF DeleteFileRow
<1>6. CASE files[f] # None /\ files' = [files EXCEPT ![f] = None] /\ Update(h, AfterFile(h, r0), TRUE)
  <2>1. TablesInv' /\ IdsKept
    BY <1>2, <1>5, <1>6, FileDeleted
  <2>2. CASE r0.stack = <<>>
    <3>1. "ok" \in Answers
      BY DEF Answers
    <3>2. PICK a \in Request : a = Answer(h, "ok") /\ a.op = req[h].op /\ a.pc = "done"
      BY <1>2, <3>1, Answered
    <3>3. AfterFile(h, r0) = a
      BY <2>2, <3>2 DEF AfterFile
    <3>4. a.op = "file"
      BY <1>1, <1>4, <2>2, <3>2
    <3>5. Shaped(a) /\ Known(a)' /\ Traced(a) /\ Undisturbed(a)'
      BY <3>2, <3>4 DEF Shaped, TreePCs, Known, Traced, Undisturbed
    <3>6. Update(h, a, TRUE)
      BY <1>6, <3>3
    <3>7. QED
      BY <1>5, <2>1, <3>5, <3>6, Keeps
  <2>3. CASE r0.stack # <<>>
    <3>1. r0.op = "folder" /\ r0.stack[1].dir = r0.target /\ r0.target \in FolderIds \cap issued
      BY <1>4, <2>3
    <3>2. PICK a \in Request : /\ a = AfterFile(h, r0) /\ Kept(r0, a)
                               /\ a.stack = r0.stack /\ a.batch = r0.batch /\ (a.full <=> r0.full)
                               /\ a.pc = IF r0.batch # {} THEN "get" ELSE IF r0.full THEN "files" ELSE "rmdir"
      BY <2>3, AfterFileMade
    <3>3. a.pc \in {"get", "files", "rmdir"}
      BY <3>2
    <3>4. Shaped(a) /\ Traced(a)
      <4>1. Shaped(a)
        BY <1>4, <2>3, <3>1, <3>2, <3>3 DEF Shaped, TreePCs, Kept
      <4>2. Traced(a)
        BY <1>2, <3>1, <3>2, <3>3 DEF Traced, TreePCs, Kept
      <4>3. QED
        BY <4>1, <4>2
    <3>5. Known(a)'
      BY <1>5, <3>1, <3>2, <3>3 DEF Known, Kept
    <3>6. ASSUME a.alone PROVE Undisturbed(a)'
      <4>1. PICK d : d = Last(r0.stack).dir
        OBVIOUS
      <4>2. /\ Chain(folders, r0.stack, r0.who) /\ ListFolders(r0.who, d) = {}
            /\ r0.batch \subseteq FilesIn(r0.who, d) \ {f}
            /\ ~r0.full => FilesIn(r0.who, d) \subseteq r0.batch \cup {f}
        BY <1>2, <1>3, <3>1, <3>2, <3>6, <4>1 DEF Undisturbed, TreePCs, Kept
      <4>3. Chain(folders, r0.stack, r0.who)' /\ ListFolders(r0.who, d)' = {}
        BY <1>5, <4>2 DEF Chain, Kids, ListFolders
      <4>4. FilesIn(r0.who, d)' = FilesIn(r0.who, d) \ {f}
        BY <1>2, <1>6 DEF FilesIn, TablesInv
      <4>5. /\ r0.batch \subseteq FilesIn(r0.who, d)'
            /\ ~r0.full => FilesIn(r0.who, d)' \subseteq r0.batch
        BY <4>2, <4>4
      <4>6. a.pc = "rmdir" => r0.batch = {} /\ ~r0.full
        BY <3>2
      <4>7. /\ a.who = r0.who /\ a.stack = r0.stack /\ a.batch = r0.batch /\ (a.full <=> r0.full)
            /\ Last(a.stack).dir = d
        BY <3>2, <4>1 DEF Kept
      <4>8. QED
        BY <3>3, <4>3, <4>5, <4>6, <4>7 DEF Undisturbed
    <3>7. Update(h, a, TRUE)
      BY <1>6, <3>2
    <3>8. QED
      BY <1>5, <2>1, <3>4, <3>5, <3>6, <3>7, Keeps
  <2>4. QED
    BY <2>2, <2>3
<1>7. CASE files[f] = None /\ Update(h, Answer(h, "notfound"), FALSE) /\ UNCHANGED files
  <2>1. "notfound" \in Answers \ {"ok"}
    BY DEF Answers
  <2>2. ~(r0.op = "folder" /\ r0.alone)
    BY <1>2, <1>3, <1>7 DEF Undisturbed, TreePCs
  <2>3. QED
    BY <1>1, <1>5, <1>7, <2>1, <2>2, Refused DEF tables
<1>8. QED
  BY <1>1, <1>3, <1>6, <1>7 DEF DeleteFileRow

\* What an undisturbed delete has emptied is empty.
LEMMA AloneEmpties ==
  ASSUME FoldersInv, NEW h \in Handlers, req[h].pc = "rmdir", req[h].alone
  PROVE  PgDeleteFolder(Top(h).dir) = "ok" /\ folders[Top(h).dir] # None
<1>1. PICK r \in Request : r = req[h]
  BY ReqFacts
<1>2. Shaped(r) /\ Undisturbed(r) /\ TablesInv /\ r.pc = "rmdir"
  BY <1>1, ReqFacts
<1>3. PICK s \in Seq(Frame) : s = r.stack
  BY DEF Request
<1>4. r.op = "folder" /\ s # <<>>
  BY <1>2, <1>3, InTree DEF TreePCs
<1>5. Last(s) = s[Len(s)] /\ Len(s) \in Nat \ {0} /\ s[Len(s)].dir \in FolderIds
  BY <1>4, LastIn
<1>6. PICK d \in FolderIds : d = Last(s).dir
  BY <1>5
<1>7. /\ Chain(folders, s, r.who) /\ ListFolders(r.who, d) = {} /\ FilesIn(r.who, d) = {}
  BY <1>2, <1>3, <1>4, <1>6 DEF Undisturbed, TreePCs
<1>8. folders[d] # None /\ folders[d].owner = r.who
  BY <1>5, <1>6, <1>7 DEF Chain
<1>9. d # Root
  BY FoldersAssumption
<1>10. FolderIsEmpty(d)
  BY <1>2, <1>7, <1>8, <1>9 DEF FolderIsEmpty, ListFolders, FilesIn, TablesInv, TreeHasOneOwner
<1>11. Top(h).dir = d
  BY <1>1, <1>3, <1>6 DEF Top
<1>12. QED
  BY <1>8, <1>10, <1>11 DEF PgDeleteFolder

LEMMA TreeDeletesFolder ==
  ASSUME FoldersInv, NEW h \in Handlers, TreeDeleteFolder(h)
  PROVE  FoldersInv'
<1>1. PICK r0 \in Request : r0 = req[h]
  BY ReqFacts
<1>2. /\ Shaped(r0) /\ Known(r0) /\ Traced(r0) /\ (r0.alone => Undisturbed(r0))
      /\ req \in [Handlers -> Request]
      /\ TablesInv /\ aborts \in 0 .. MaxAborts /\ r0.pc = "rmdir"
  BY <1>1, ReqFacts DEF TreeDeleteFolder
<1>3. PICK s \in Seq(Frame) : s = r0.stack
  BY DEF Request
<1>4. /\ r0.op = "folder" /\ s # <<>> /\ s[1].dir = r0.target
      /\ r0.who \in Callers /\ r0.target \in FolderIds \cap issued
  BY <1>2, <1>3, InTree DEF TreePCs, Known
<1>5. Last(s) = s[Len(s)] /\ Len(s) \in Nat \ {0} /\ s[Len(s)].dir \in FolderIds
  BY <1>4, LastIn
<1>6. PICK d \in FolderIds : d = Last(s).dir
  BY <1>5
<1>7. Top(h).dir = d
  BY <1>1, <1>3, <1>6 DEF Top
<1>8. UNCHANGED <<files, issued>> /\ UNCHANGED aborts /\ aborts' \in 0 .. MaxAborts
  BY <1>2 DEF TreeDeleteFolder
<1>9. CASE /\ PgDeleteFolder(d) = "ok" /\ folders' = [folders EXCEPT ![d] = None]
           /\ IF Len(s) = 1 THEN Update(h, Answer(h, "ok"), TRUE)
              ELSE \E next \in Descend([r0 EXCEPT !.stack = Front(@)]) : Update(h, next, TRUE)
  <2>1. folders[d] # None /\ FolderIsEmpty(d)
    BY <1>9 DEF PgDeleteFolder
  <2>2. TablesInv' /\ IdsKept
    BY <1>2, <1>8, <1>9, <2>1, FolderDeleted
  <2>3. folders'[d] = None /\ \A c \in FolderIds : folders'[c] = IF c = d THEN None ELSE folders[c]
    BY <1>2, <1>9 DEF TablesInv
  <2>4. CASE Len(s) = 1
    <3>1. "ok" \in Answers
      BY DEF Answers
    <3>2. PICK a \in Request : /\ a = Answer(h, "ok") /\ a.op = req[h].op /\ a.target = req[h].target
                               /\ a.pc = "done" /\ a.res = "ok"
      BY <1>2, <3>1, Answered
    <3>3. a.target = d
      BY <1>1, <1>4, <1>5, <1>6, <2>4, <3>2
    <3>4. Shaped(a) /\ Known(a)' /\ Traced(a) /\ Undisturbed(a)'
      BY <1>1, <1>4, <1>8, <2>3, <3>2, <3>3 DEF Shaped, TreePCs, Known, Traced, Undisturbed
    <3>5. Update(h, a, TRUE)
      BY <1>9, <2>4, <3>2
    <3>6. QED
      BY <1>8, <2>2, <3>4, <3>5, Keeps
  <2>5. CASE Len(s) # 1
    <3>1. PICK u \in Seq(Frame) : u = Front(s)
      BY <1>4, Popped
    <3>2. Len(s) > 1 /\ Len(u) = Len(s) - 1 /\ u # <<>> /\ u[1] = s[1]
      <4>1. Len(u) = Len(s) - 1 /\ \A i \in 1 .. Len(s) - 1 : u[i] = s[i]
        BY <1>4, <3>1, Popped
      <4>2. Len(s) > 1
        <5>1. PICK n \in Nat \ {0} : n = Len(s)
          BY <1>5
        <5>2. n # 1
          BY <2>5, <5>1
        <5>3. n > 1
          BY <5>2
        <5>4. QED
          BY <5>1, <5>3
      <4>3. 1 \in 1 .. Len(s) - 1 /\ Len(u) # 0
        BY <1>5, <4>1, <4>2
      <4>4. QED
        BY <4>1, <4>2, <4>3
    <3>3. PICK r1 : r1 = [r0 EXCEPT !.stack = u]
      OBVIOUS
    <3>4. /\ r1 \in Request /\ r1.op = "folder" /\ r1.stack = u /\ r1.who = r0.who
          /\ r1.target = r0.target /\ r1.alone = r0.alone
      BY <1>4, <3>3 DEF Request
    <3>5. PICK next \in Descend(r1) : Update(h, next, TRUE)
      BY <1>3, <1>9, <2>5, <3>1, <3>3
    <3>6. /\ next \in Request /\ next.alone = r0.alone /\ Shaped(next) /\ Known(next) /\ Traced(next)
          /\ next.pc \in {"dirs", "files"}
      <4>1. Climbs(folders, s) /\ Handed(s)
        BY <1>2, <1>3, <1>4 DEF Traced, TreePCs
      <4>2. \A i \in 1 .. Len(u) : u[i] = s[i]
        BY <1>4, <3>1, <3>2, Popped
      <4>3. Len(u) \in 0 .. Len(s)
        BY <1>5, <3>2
      <4>4. Climbs(folders, u) /\ Handed(u)
        BY <1>5, <4>1, <4>2, <4>3, Climbing
      <4>5. QED
        BY <1>4, <3>2, <3>4, <3>5, <4>4, DescendKeeps
    <3>7. Known(next)'
      BY <1>8, <3>6 DEF Known
    <3>8. ASSUME next.alone PROVE Undisturbed(next)'
      <4>1. Chain(folders, s, r0.who)
        BY <1>2, <1>3, <1>4, <3>6, <3>8 DEF Undisturbed, TreePCs
      <4>2. PICK G : G = folders'
        OBVIOUS
      <4>3. Chain(G, u, r0.who) /\ Kids(G, r0.who, Last(u).dir) = Last(u).todo
        <5>1. \A c \in FolderIds : G[c] = IF c = Last(s).dir THEN None ELSE folders[c]
          BY <1>6, <2>3, <4>2
        <5>2. Chain(G, Front(s), r0.who) /\ Kids(G, r0.who, Last(Front(s)).dir) = Last(Front(s)).todo
          BY <3>2, <4>1, <5>1, ChainPops
        <5>3. QED
          BY <3>1, <5>2
      <4>4. Forest(G)
        BY <2>2, <4>2 DEF TablesInv, ForestInv, Forest
      <4>5. /\ Chain(G, next.stack, next.who)
            /\ next.pc # "dirs" => Kids(G, next.who, Last(next.stack).dir) = {}
        BY <3>2, <3>4, <3>5, <4>3, <4>4, DescendUndisturbed
      <4>6. Chain(folders, next.stack, next.who)'
        BY <4>2, <4>5 DEF Chain, Kids
      <4>7. next.pc # "dirs" => ListFolders(next.who, Last(next.stack).dir)' = {}
        BY <4>2, <4>5 DEF ListFolders, Kids
      <4>8. QED
        BY <3>6, <4>6, <4>7 DEF Undisturbed
    <3>9. QED
      BY <1>8, <2>2, <3>5, <3>6, <3>7, <3>8, Keeps
  <2>6. QED
    BY <2>4, <2>5
<1>10. CASE PgDeleteFolder(d) # "ok" /\ Update(h, Answer(h, PgDeleteFolder(d)), FALSE) /\ UNCHANGED folders
  <2>1. PgDeleteFolder(d) \in Answers \ {"ok"}
    BY <1>10 DEF PgDeleteFolder, Answers
  <2>2. ~r0.alone
    BY <1>1, <1>2, <1>7, <1>10, AloneEmpties
  <2>3. QED
    BY <1>1, <1>8, <1>10, <2>1, <2>2, Refused DEF tables
<1>11. QED
  BY <1>1, <1>3, <1>7, <1>9, <1>10 DEF TreeDeleteFolder

-----------------------------------------------------------------------------
(* What a delete takes away.                                               *)

\* The call on top is for a folder of the tree: on the way up is every call below.
LEMMA Climbed ==
  ASSUME TablesInv, NEW s \in Seq(Frame), s # <<>>, Climbs(folders, s), folders[Last(s).dir] # None
  PROVE  Under(Last(s).dir, s[1].dir)
<1> SUFFICES ASSUME NEW S \in SUBSET Places, Last(s).dir \in S,
                    \A c \in S \ {Root} : folders[c] # None => folders[c].parent \in S,
                    s[1].dir \notin S
             PROVE  FALSE
  BY DEF Under
<1>1. PICK n \in Nat \ {0} : n = Len(s)
  BY LastIn
<1>2. Last(s) = s[n] /\ \A i \in 1 .. n : s[i].dir \in FolderIds
  BY <1>1, LastIn
<1>3. \A i \in 1 .. n - 1 : folders[s[i+1].dir] # None => folders[s[i+1].dir].parent = s[i].dir
  BY <1>1 DEF Climbs, Within
<1>4. PICK X : X = {d \in FolderIds : d \in S /\ folders[d] # None /\ \E i \in 1 .. n : d = s[i].dir}
  OBVIOUS
<1>5. X \in SUBSET FolderIds /\ X # {} /\ \A d \in X : folders[d] # None
  <2>1. s[n].dir \in X
    BY <1>1, <1>2, <1>4
  <2>2. QED
    BY <1>4, <2>1
<1>6. PICK d \in X : folders[d].parent \notin X
  BY <1>5 DEF TablesInv, ForestInv, Forest
<1>7. PICK j \in 1 .. n : d = s[j].dir
  BY <1>4
<1>8. PICK i \in 1 .. n - 1 : j = i + 1
  <2>1. j # 1
    BY <1>4, <1>7
  <2>2. j - 1 \in 1 .. n - 1 /\ j = (j - 1) + 1
    BY <1>1, <2>1
  <2>3. QED
    BY <2>2
<1>9. d \in FolderIds /\ d \in S /\ folders[d] # None
  BY <1>4
<1>10. folders[d].parent = s[i].dir /\ s[i].dir \in FolderIds
  BY <1>1, <1>2, <1>3, <1>7, <1>8, <1>9
<1>11. s[i].dir # Root /\ d # Root
  BY <1>9, <1>10, FoldersAssumption
<1>12. folders[s[i].dir] # None
  BY <1>9, <1>10, <1>11 DEF TablesInv, TreeHasOneOwner, HasFolder
<1>13. s[i].dir \in S
  BY <1>9, <1>10, <1>11
<1>14. s[i].dir \in X
  <2>1. i \in 1 .. n
    BY <1>1
  <2>2. QED
    BY <1>4, <1>10, <1>12, <1>13, <2>1
<1>15. QED
  BY <1>6, <1>10, <1>14

GoneFile(f) == files[f] # None /\ files'[f] = None
GoneFolder(d) == folders[d] # None /\ folders'[d] = None
OfATree(f) == \E h \in Handlers : \/ req[h].target = f
                                  \/ Deleting(h) /\ Under(files[f].folder, req[h].target)
InATree(d) == \E h \in Handlers : Deleting(h) /\ Under(d, req[h].target)

LEMMA FilesOfTheTree ==
  ASSUME FoldersInv, NEW h \in Handlers, DeleteFileRow(h), NEW f \in FileIds, GoneFile(f)
  PROVE  OfATree(f)
<1>1. PICK r \in Request : r = req[h]
  BY ReqFacts
<1>2. Shaped(r) /\ Traced(r) /\ TablesInv /\ r.pc = "row"
  BY <1>1, ReqFacts DEF DeleteFileRow
<1>3. r.file = f
  BY <1>1, <1>2 DEF DeleteFileRow, GoneFile, TablesInv
<1>4. CASE r.op = "file"
  <2>1. r.target = f
    BY <1>2, <1>3, <1>4 DEF Traced
  <2>2. QED
    BY <1>1, <2>1 DEF OfATree
<1>5. CASE r.op = "folder"
  <2>1. PICK s \in Seq(Frame) : s = r.stack
    BY DEF Request
  <2>2. s # <<>> /\ s[1].dir = r.target
    BY <1>2, <1>5, <2>1 DEF Shaped, TreePCs
  <2>3. Climbs(folders, s) /\ Lies(f, Last(s).dir)
    BY <1>2, <1>3, <1>5, <2>1 DEF Traced, TreePCs
  <2>4. files[f].folder = Last(s).dir /\ Last(s).dir \in FolderIds
    BY <2>2, <2>3, LastIn DEF Lies, GoneFile
  <2>5. folders[Last(s).dir] # None
    BY <1>2, <2>4, FoldersAssumption DEF GoneFile, TablesInv, TreeHasOneOwner, HasFolder
  <2>6. Under(Last(s).dir, s[1].dir)
    BY <1>2, <2>2, <2>3, <2>5, Climbed
  <2>7. Deleting(h) /\ Under(files[f].folder, req[h].target)
    BY <1>1, <1>5, <2>2, <2>4, <2>6 DEF Deleting
  <2>8. QED
    BY <2>7 DEF OfATree
<1>6. QED
  BY <1>2, <1>4, <1>5 DEF Shaped, TreePCs

LEMMA FoldersOfTheTree ==
  ASSUME FoldersInv, NEW h \in Handlers, TreeDeleteFolder(h), NEW d \in FolderIds, GoneFolder(d)
  PROVE  InATree(d)
<1>1. PICK r \in Request : r = req[h]
  BY ReqFacts
<1>2. Shaped(r) /\ Traced(r) /\ TablesInv /\ r.pc = "rmdir"
  BY <1>1, ReqFacts DEF TreeDeleteFolder
<1>3. PICK s \in Seq(Frame) : s = r.stack
  BY DEF Request
<1>4. r.op = "folder" /\ s # <<>> /\ s[1].dir = r.target
  BY <1>2, <1>3, InTree DEF TreePCs
<1>5. Top(h).dir = Last(s).dir /\ Last(s).dir \in FolderIds
  BY <1>1, <1>3, <1>4, LastIn DEF Top
<1>6. d = Last(s).dir
  BY <1>2, <1>5 DEF TreeDeleteFolder, GoneFolder, TablesInv
<1>7. Climbs(folders, s)
  BY <1>2, <1>3, <1>4 DEF Traced, TreePCs
<1>8. Under(d, r.target)
  BY <1>2, <1>4, <1>6, <1>7, Climbed DEF GoneFolder
<1>9. QED
  BY <1>1, <1>4, <1>8 DEF InATree, Deleting

\* An INSERT takes no row away.
LEMMA InsertsKeep ==
  ASSUME FoldersInv, NEW h \in Handlers, CreateInsert(h) \/ PresignInsert(h)
  PROVE  (\A f \in FileIds : ~GoneFile(f)) /\ (\A d \in FolderIds : ~GoneFolder(d))
<1>1. TablesInv /\ Shaped(req[h])
  BY ReqFacts
<1>2. CASE CreateInsert(h)
  <2>1. PICK row : row = [owner |-> req[h].who, parent |-> req[h].target, name |-> req[h].name]
    OBVIOUS
  <2>2. row \in FolderRow
    BY <1>1, <1>2, <2>1 DEF CreateInsert, Shaped, FolderRow
  <2>3. row # None
    BY <2>2, NoneAssumption
  <2>4. UNCHANGED files /\ (UNCHANGED folders \/ \E d : folders' = [folders EXCEPT ![d] = row])
    BY <1>2, <2>1 DEF CreateInsert
  <2>5. QED
    BY <1>1, <2>3, <2>4 DEF GoneFile, GoneFolder, TablesInv
<1>3. CASE PresignInsert(h)
  <2>1. PICK row : row = [owner |-> req[h].who, folder |-> req[h].target]
    OBVIOUS
  <2>2. row \in FileRow
    BY <1>1, <1>3, <2>1 DEF PresignInsert, Shaped, FileRow
  <2>3. row # None
    BY <2>2, NoneAssumption
  <2>4. UNCHANGED folders /\ (UNCHANGED files \/ \E f : files' = [files EXCEPT ![f] = row])
    BY <1>3, <2>1 DEF PresignInsert
  <2>5. QED
    BY <1>1, <2>3, <2>4 DEF GoneFile, GoneFolder, TablesInv
<1>4. QED
  BY <1>2, <1>3

-----------------------------------------------------------------------------
(* The theorems.                                                           *)

LEMMA StartsSo == FoldersInit => FoldersInv
<1> SUFFICES ASSUME FoldersInit PROVE FoldersInv
  OBVIOUS
<1>1. PICK e \in Seq(Frame) : e = <<>>
  <2>1. <<>> \in Seq(Frame)
    OBVIOUS
  <2>2. QED
    BY <2>1
<1>2. PICK r : r = IdleReq
  OBVIOUS
<1>3. r = [op |-> "none", pc |-> "idle", who |-> None, target |-> None, name |-> None, stack |-> e,
           batch |-> {}, full |-> FALSE, file |-> None, res |-> "ok", alone |-> TRUE]
  BY <1>1, <1>2 DEF IdleReq
<1>4. r \in Request /\ r.op = "none" /\ r.pc = "idle"
  BY <1>3 DEF Request, ReqPCs, Ops, Answers
<1>5. req \in [Handlers -> Request] /\ \A h \in Handlers : req[h] = r
  BY <1>2, <1>4 DEF FoldersInit
<1>6. Shaped(r) /\ Known(r) /\ Traced(r) /\ Undisturbed(r)
  BY <1>4 DEF Shaped, TreePCs, Known, Traced, Undisturbed
<1>7. /\ \A d \in FolderIds : folders[d] = None
      /\ \A f \in FileIds : files[f] = None
      /\ issued = {} /\ aborts = 0
  BY DEF FoldersInit
<1>8. FoldersTypeOK
  <2>1. folders \in [FolderIds -> FolderRow \cup {None}] /\ files \in [FileIds -> FileRow \cup {None}]
    BY DEF FoldersInit
  <2>2. aborts \in 0 .. MaxAborts
    BY <1>7, FoldersAssumption
  <2>3. QED
    BY <1>5, <1>7, <2>1, <2>2 DEF FoldersTypeOK
<1>9. ShapeInv /\ TraceInv /\ AloneInv
  BY <1>5, <1>6 DEF ShapeInv, TraceInv, AloneInv
<1>10. IdsInv /\ TreeHasOneOwner
  BY <1>5, <1>6, <1>7 DEF IdsInv, TreeHasOneOwner
<1>11. ForestInv
  BY <1>7 DEF ForestInv, Forest
<1>12. QED
  BY <1>8, <1>9, <1>10, <1>11 DEF FoldersInv

LEMMA StuttersSo ==
  ASSUME FoldersInv, UNCHANGED foldersVars
  PROVE  FoldersInv'
<1>1. TablesInv /\ UNCHANGED tables /\ req' = req /\ aborts' = aborts
  BY DEF FoldersInv, FoldersTypeOK, IdsInv, TablesInv, foldersVars
<1>2. TablesInv'
  BY <1>1, UnchangedTables
<1>3. FoldersTypeOK'
  BY <1>1, <1>2 DEF FoldersInv, FoldersTypeOK, TablesInv
<1>4. ShapeInv'
  BY <1>1 DEF FoldersInv, ShapeInv
<1>5. ASSUME NEW h \in Handlers
      PROVE  Known(req[h])' /\ Traced(req[h])' /\ (req[h].alone => Undisturbed(req[h]))'
  <2>1. PICK r \in Request : r = req[h]
    BY ReqFacts
  <2>2. Shaped(r) /\ Known(r) /\ Traced(r) /\ (r.alone => Undisturbed(r))
    BY <2>1, ReqFacts
  <2>3. Known(r)'
    BY <1>1, <2>2 DEF Known, tables
  <2>4. r.alone => Undisturbed(r)'
    BY <1>1, <2>2, UndisturbedSame
  <2>5. req'[h] = r
    BY <1>1, <2>1
  <2>6. Traced(r)'
    BY <1>1, <2>2, UnchangedTables, TracedKept
  <2>7. QED
    BY <2>3, <2>4, <2>5, <2>6
<1>6. QED
  BY <1>2, <1>3, <1>4, <1>5 DEF FoldersInv, IdsInv, TraceInv, AloneInv, TablesInv

(* The strengthening: what the requests know of the tables stays true,     *)
(* and the calls of an undisturbed delete hang together.                   *)
THEOREM FoldersInductive == FoldersSpec => []FoldersInv
<1>1. FoldersInit => FoldersInv
  BY StartsSo
<1>2. FoldersInv /\ [FoldersNext]_foldersVars => FoldersInv'
  <2> SUFFICES ASSUME FoldersInv, [FoldersNext]_foldersVars PROVE FoldersInv'
    OBVIOUS
  <2>1. ASSUME NEW h \in Handlers, CreateStart(h) PROVE FoldersInv'
    BY <2>1, CreateStarts
  <2>2. ASSUME NEW h \in Handlers, PresignStart(h) PROVE FoldersInv'
    BY <2>2, PresignStarts
  <2>3. ASSUME NEW h \in Handlers, DeleteFolderStart(h) PROVE FoldersInv'
    BY <2>3, DeleteFolderStarts
  <2>4. ASSUME NEW h \in Handlers, DeleteFileStart(h) PROVE FoldersInv'
    BY <2>4, DeleteFileStarts
  <2>5. ASSUME NEW h \in Handlers, CreateInsert(h) PROVE FoldersInv'
    BY <2>5, CreateInserts
  <2>6. ASSUME NEW h \in Handlers, PresignInsert(h) PROVE FoldersInv'
    BY <2>6, PresignInserts
  <2>7. ASSUME NEW h \in Handlers, TreeListFolders(h) PROVE FoldersInv'
    BY <2>7, TreeListsFolders
  <2>8. ASSUME NEW h \in Handlers, TreeListFiles(h) PROVE FoldersInv'
    BY <2>8, TreeListsFiles
  <2>9. ASSUME NEW h \in Handlers, TreeGetFile(h) PROVE FoldersInv'
    BY <2>9, TreeGetsFile
  <2>10. ASSUME NEW h \in Handlers, DeleteFileRow(h) PROVE FoldersInv'
    BY <2>10, FileRowsGo
  <2>11. ASSUME NEW h \in Handlers, TreeDeleteFolder(h) PROVE FoldersInv'
    BY <2>11, TreeDeletesFolder
  <2>12. ASSUME NEW h \in Handlers, Reply(h) PROVE FoldersInv'
    BY <2>12, Replies
  <2>13. ASSUME NEW h \in Handlers, Abort(h) PROVE FoldersInv'
    BY <2>13, Aborts
  <2>14. CASE UNCHANGED foldersVars
    BY <2>14, StuttersSo
  <2>15. QED
    BY <2>1, <2>2, <2>3, <2>4, <2>5, <2>6, <2>7, <2>8, <2>9, <2>10, <2>11, <2>12, <2>13, <2>14
       DEF FoldersNext, Serve
<1>3. QED
  BY <1>1, <1>2, PTL DEF FoldersSpec

(* Tables and requests are always of their types.                          *)
THEOREM FoldersTyping == FoldersSpec => []FoldersTypeOK
<1>1. FoldersInv => FoldersTypeOK
  BY DEF FoldersInv
<1>2. QED
  BY <1>1, FoldersInductive, PTL

(* A tree has one owner, although a folder is checked in one call and a    *)
(* row put into it in another.                                             *)
THEOREM TreesAreOwned == FoldersSpec => []TreeHasOneOwner
<1>1. FoldersInv => TreeHasOneOwner
  BY DEF FoldersInv
<1>2. QED
  BY <1>1, FoldersInductive, PTL

(* A folder delete that was answered with success has removed its folder,  *)
(* and ids are used once, so that it stays away.                           *)
THEOREM DeletedIsGone == FoldersSpec => []OkMeansGone
<1>1. FoldersInv => OkMeansGone
  BY DEF FoldersInv, IdsInv, Known, OkMeansGone, Deleting
<1>2. QED
  BY <1>1, FoldersInductive, PTL

(* A folder delete that nobody disturbs succeeds, whatever earlier ones    *)
(* have left half-done, however deep the tree and however many batches.    *)
THEOREM UndisturbedDeletesSucceed == FoldersSpec => []UndisturbedDeleteSucceeds
<1>1. FoldersInv => UndisturbedDeleteSucceeds
  <2> SUFFICES ASSUME FoldersInv, NEW h \in Handlers, req[h].pc = "done", Deleting(h),
                      req[h].alone, req[h].res # "forbidden"
               PROVE  req[h].res = "ok" /\ folders[req[h].target] = None
    BY DEF UndisturbedDeleteSucceeds
  <2>1. Known(req[h]) /\ Undisturbed(req[h]) /\ req[h].op = "folder"
    BY ReqFacts DEF Deleting
  <2>2. req[h].res = "ok"
    BY <2>1 DEF Undisturbed
  <2>3. QED
    BY <2>1, <2>2 DEF Known
<1>2. QED
  BY <1>1, FoldersInductive, PTL

(* Both stores answer alike to a request that nobody disturbs, but for a   *)
(* name that the same subject has taken in another organisation.           *)
THEOREM StoresAgree == FoldersSpec => []TestStoreIsFaithful
<1>1. FoldersInv => TestStoreIsFaithful
  <2> SUFFICES ASSUME FoldersInv, NEW h \in Handlers, req[h].alone
               PROVE  /\ req[h].pc = "mk" =>
                            LET row == [owner |-> req[h].who, parent |-> req[h].target, name |-> req[h].name]
                            IN  PgCreateFolder(row) = MemCreateFolder(row)
                                   \/ \E org \in {c.org : c \in Callers} \ {row.owner.org} :
                                          MemCreateFolder([row EXCEPT !.owner.org = org]) = "conflict"
                      /\ req[h].pc = "up" =>
                            PgCreateFile([owner |-> req[h].who, folder |-> req[h].target]) = "ok"
                      /\ req[h].pc = "rmdir" => PgDeleteFolder(Top(h).dir) = MemDeleteFolder(Top(h).dir)
    BY DEF TestStoreIsFaithful
  <2>1. req[h] \in Request /\ Shaped(req[h]) /\ Undisturbed(req[h]) /\ TablesInv
    BY ReqFacts
  <2>2. ASSUME req[h].pc = "mk"
        PROVE  LET row == [owner |-> req[h].who, parent |-> req[h].target, name |-> req[h].name]
               IN  PgCreateFolder(row) = MemCreateFolder(row)
                      \/ \E org \in {c.org : c \in Callers} \ {row.owner.org} :
                             MemCreateFolder([row EXCEPT !.owner.org = org]) = "conflict"
    <3>1. req[h].who \in Callers /\ req[h].target \in Places /\ req[h].name \in Names
      BY <2>1, <2>2 DEF Shaped
    <3>2. PICK row : row = [owner |-> req[h].who, parent |-> req[h].target, name |-> req[h].name]
      OBVIOUS
    <3>3. row \in FolderRow /\ HasFolder(row.parent)
      BY <2>1, <2>2, <3>1, <3>2 DEF FolderRow, Undisturbed
    <3>4. CASE ~IndexHas(row)
      <4>1. PgCreateFolder(row) = "ok"
        BY <3>3, <3>4 DEF PgCreateFolder
      <4>2. ~ \E d \in FolderIds : folders[d] = row
        BY <3>3, <3>4, NoneAssumption DEF IndexHas, FolderRow
      <4>3. QED
        BY <3>2, <4>1, <4>2 DEF MemCreateFolder
    <3>5. CASE IndexHas(row)
      <4>1. PICK d \in FolderIds : /\ folders[d] # None
                                   /\ folders[d].owner.sub = row.owner.sub
                                   /\ folders[d].parent = row.parent
                                   /\ folders[d].name = row.name
        BY <3>5 DEF IndexHas
      <4>2. PgCreateFolder(row) = "conflict"
        BY <3>5 DEF PgCreateFolder
      <4>3. CASE folders[d] = row
        BY <3>2, <4>2, <4>3 DEF MemCreateFolder
      <4>4. CASE folders[d] # row
        <5>1. PICK there \in FolderRow : there = folders[d]
          BY <2>1, <4>1 DEF TablesInv
        <5>2. /\ there.owner \in Callers /\ row.owner \in Callers
              /\ there.owner \in [sub : STRING, org : STRING] /\ row.owner \in [sub : STRING, org : STRING]
          BY <3>3, FoldersAssumption DEF FolderRow
        <5>3. there.owner # row.owner
          BY <3>3, <4>1, <4>4, <5>1 DEF FolderRow
        <5>4. there.owner.org # row.owner.org
          BY <4>1, <5>1, <5>2, <5>3
        <5>5. [row EXCEPT !.owner.org = there.owner.org] = there
          <6>1. PICK own : own = [row.owner EXCEPT !.org = there.owner.org]
            OBVIOUS
          <6>2. own = there.owner
            BY <4>1, <5>1, <5>2, <6>1
          <6>3. [row EXCEPT !.owner = own] = there
            BY <3>3, <4>1, <5>1, <6>2 DEF FolderRow
          <6>4. QED
            BY <6>1, <6>3
        <5>6. there.owner.org \in {c.org : c \in Callers} \ {row.owner.org}
          BY <5>2, <5>4
        <5>7. MemCreateFolder([row EXCEPT !.owner.org = there.owner.org]) = "conflict"
          BY <5>1, <5>5 DEF MemCreateFolder
        <5>8. QED
          BY <3>2, <5>6, <5>7
      <4>5. QED
        BY <4>3, <4>4
    <3>6. QED
      BY <3>4, <3>5
  <2>3. ASSUME req[h].pc = "up"
        PROVE  PgCreateFile([owner |-> req[h].who, folder |-> req[h].target]) = "ok"
    BY <2>1, <2>3 DEF Undisturbed, PgCreateFile
  <2>4. ASSUME req[h].pc = "rmdir"
        PROVE  PgDeleteFolder(Top(h).dir) = MemDeleteFolder(Top(h).dir)
    BY <2>4, AloneEmpties DEF MemDeleteFolder
  <2>5. QED
    BY <2>2, <2>3, <2>4
<1>2. QED
  BY <1>1, FoldersInductive, PTL

(* deleteFolderTree takes away files and folders of the tree it was asked  *)
(* for and nothing else, wherever other requests put rows meanwhile: what  *)
(* it has listed never moves, and the way up from it passes every call on  *)
(* the stack, as the folders are a forest.                                 *)
THEOREM OnlyTheTreeIsDeleted == FoldersSpec => OnlyTheTreeGoes
<1>1. ASSUME FoldersInv, [FoldersNext]_foldersVars
      PROVE  /\ \A f \in FileIds : GoneFile(f) => OfATree(f)
             /\ \A d \in FolderIds : GoneFolder(d) => InATree(d)
  <2>1. ASSUME NEW h \in Handlers, DeleteFileRow(h)
        PROVE  /\ \A f \in FileIds : GoneFile(f) => OfATree(f)
               /\ \A d \in FolderIds : GoneFolder(d) => InATree(d)
    <3>1. UNCHANGED folders
      BY <2>1 DEF DeleteFileRow
    <3>2. QED
      BY <1>1, <2>1, <3>1, FilesOfTheTree DEF GoneFolder
  <2>2. ASSUME NEW h \in Handlers, TreeDeleteFolder(h)
        PROVE  /\ \A f \in FileIds : GoneFile(f) => OfATree(f)
               /\ \A d \in FolderIds : GoneFolder(d) => InATree(d)
    <3>1. UNCHANGED files
      BY <2>2 DEF TreeDeleteFolder
    <3>2. QED
      BY <1>1, <2>2, <3>1, FoldersOfTheTree DEF GoneFile
  <2>3. ASSUME NEW h \in Handlers, CreateInsert(h) \/ PresignInsert(h)
        PROVE  /\ \A f \in FileIds : GoneFile(f) => OfATree(f)
               /\ \A d \in FolderIds : GoneFolder(d) => InATree(d)
    BY <1>1, <2>3, InsertsKeep
  <2>4. ASSUME UNCHANGED tables
        PROVE  /\ \A f \in FileIds : GoneFile(f) => OfATree(f)
               /\ \A d \in FolderIds : GoneFolder(d) => InATree(d)
    BY <2>4 DEF tables, GoneFile, GoneFolder
  <2>5. ASSUME NEW h \in Handlers,
               \/ CreateStart(h) \/ PresignStart(h) \/ DeleteFolderStart(h) \/ DeleteFileStart(h)
               \/ TreeListFolders(h) \/ TreeListFiles(h) \/ TreeGetFile(h) \/ Reply(h) \/ Abort(h)
        PROVE  UNCHANGED tables
    BY <2>5 DEF CreateStart, PresignStart, DeleteFolderStart, DeleteFileStart, Accept,
                TreeListFolders, TreeListFiles, TreeGetFile, Reply, Abort
  <2>6. CASE UNCHANGED foldersVars
    BY <2>4, <2>6 DEF foldersVars
  <2>7. QED
    BY <1>1, <2>1, <2>2, <2>3, <2>4, <2>5, <2>6 DEF FoldersNext, Serve
<1>2. FoldersInv /\ [FoldersNext]_foldersVars =>
        [/\ \A f \in FileIds : files[f] # None /\ files'[f] = None =>
              \E h \in Handlers : \/ req[h].target = f
                                  \/ Deleting(h) /\ Under(files[f].folder, req[h].target)
         /\ \A d \in FolderIds : folders[d] # None /\ folders'[d] = None =>
              \E h \in Handlers : Deleting(h) /\ Under(d, req[h].target)]_foldersVars
  BY <1>1 DEF GoneFile, GoneFolder, OfATree, InATree
<1>3. QED
  BY <1>2, FoldersInductive, PTL DEF FoldersSpec, OnlyTheTreeGoes
=============================================================================
