----------------------------- MODULE SystemProofs -----------------------------
(***************************************************************************)
(* The API and the workers together, for any number of files, requests,    *)
(* workers, crashes and stream entries.                                    *)
(***************************************************************************)
EXTENDS MediaSystem, UploadsLedgerProofs, FiniteSetTheorems, SequenceTheorems

-----------------------------------------------------------------------------
(* What the steps of one worker and of one report preserve.                *)

Waiting == {"wait_ok", "wait_err"}

\* What a worker is busy with was delivered, and what it waits for is its own report.
GroupInv ==
    /\ \A w \in Workers : \A n \in DOMAIN worker[w].batch : worker[w].batch[n] \in 1 .. cursor
    /\ \A w \in Workers : worker[w].pc \notin {"claim", "read"} => worker[w].batch # <<>>
    /\ \A w \in Workers : finish[w].pc # "none" => \E e \in Entries : finish[w].msg = stream[e]
    /\ \A w \in Workers : worker[w].pc \in Waiting =>
          finish[w].pc # "none" /\ finish[w].msg = stream[EntryOf(w)]

WorkersTypeOK == worker \in [Workers -> Worker]
FinishTypeOK == finish \in [Workers -> Finish]

LEMMA ToWorkerTyped ==
  ASSUME WorkersTypeOK, NEW w \in Workers, NEW pc \in WorkerPCs, ToWorker(w, pc)
  PROVE  /\ WorkersTypeOK'
         /\ \A v \in Workers : v # w => worker'[v] = worker[v]
         /\ worker'[w].pc = pc /\ worker'[w].batch = worker[w].batch
         /\ worker'[w].then = worker[w].then
  BY DEF WorkersTypeOK, ToWorker, Worker

LEMMA HandleTyped ==
  ASSUME WorkersTypeOK, NEW w \in Workers, NEW batch \in Seq(Nat), NEW then \in {"claim", "read"},
         Handle(w, batch, then)
  PROVE  /\ WorkersTypeOK'
         /\ \A v \in Workers : v # w => worker'[v] = worker[v]
         /\ worker'[w].batch = batch /\ worker'[w].pc = IF batch = <<>> THEN then ELSE "get"
<1> DEFINE new == [StartWorker EXCEPT !.pc = IF batch = <<>> THEN then ELSE "get",
                                      !.batch = batch, !.then = then]
<1>1. new \in Worker /\ new.batch = batch /\ new.pc = IF batch = <<>> THEN then ELSE "get"
  BY DEF StartWorker, Worker, WorkerPCs
<1>2. worker' = [worker EXCEPT ![w] = new]
  BY DEF Handle
<1> HIDE DEF new
<1>3. QED
  BY <1>1, <1>2 DEF WorkersTypeOK

\* The loop goes on to the entry after the one that was handled.
LEMMA HandledTyped ==
  ASSUME WorkersTypeOK, NEW w \in Workers, worker[w].batch # <<>>, Handled(w)
  PROVE  /\ WorkersTypeOK'
         /\ \A v \in Workers : v # w => worker'[v] = worker[v]
         /\ worker'[w].batch = Tail(worker[w].batch)
         /\ worker'[w].pc \in {"claim", "read", "get"}
         /\ worker'[w].batch = <<>> => worker'[w].pc # "get"
         /\ worker'[w].batch # <<>> => worker'[w].pc = "get"
         /\ \A n \in DOMAIN worker'[w].batch : \E m \in DOMAIN worker[w].batch :
               worker'[w].batch[n] = worker[w].batch[m]
<1>1. worker[w].batch \in Seq(Nat) /\ worker[w].then \in {"claim", "read"}
  BY DEF WorkersTypeOK, Worker
<1>2. PICK s \in Seq(Nat) : s = worker[w].batch /\ s # <<>>
  BY <1>1
<1>3. Tail(s) \in Seq(Nat) /\ \A n \in DOMAIN Tail(s) : n + 1 \in DOMAIN s /\ Tail(s)[n] = s[n + 1]
  BY <1>2
<1>4. /\ WorkersTypeOK'
      /\ \A v \in Workers : v # w => worker'[v] = worker[v]
      /\ worker'[w].batch = Tail(s)
      /\ worker'[w].pc = IF Tail(s) = <<>> THEN worker[w].then ELSE "get"
  BY <1>1, <1>2, <1>3, HandleTyped DEF Handled
<1>5. \A n \in DOMAIN worker'[w].batch : \E m \in DOMAIN worker[w].batch :
         worker'[w].batch[n] = worker[w].batch[m]
  BY <1>2, <1>3, <1>4
<1>6. QED
  BY <1>1, <1>2, <1>4, <1>5

LEMMA ToFinishTyped ==
  ASSUME FinishTypeOK, NEW w \in Workers, NEW pc \in FinishPCs, ToFinish(w, pc)
  PROVE  /\ FinishTypeOK'
         /\ \A v \in Workers : v # w => finish'[v] = finish[v]
         /\ finish'[w].pc = pc /\ finish'[w].msg = finish[w].msg
  BY DEF FinishTypeOK, ToFinish, Finish

\* XAUTOCLAIM's share of the idle entries is finite.
LEMMA IdleIsFinite ==
  ASSUME SystemTypeOK, NEW S \in SUBSET idle PROVE Cardinality(S) \in Nat
<1>1. cursor \in Nat
  BY DEF SystemTypeOK, TypeOK, BaseTypeOK, StreamTypeOK
<1>2. IsFiniteSet(1 .. cursor) /\ S \subseteq 1 .. cursor
  BY <1>1, FS_Interval DEF SystemTypeOK
<1>3. QED
  BY <1>2, FS_Subset, FS_CardinalityType

-----------------------------------------------------------------------------
(* Types, and what a worker is busy with.                                  *)

\* A worker's step, or a step of its report, leaves the others where they are.
LEMMA GroupKept ==
  ASSUME SystemTypeOK, GroupInv, NEW w \in Workers, UNCHANGED stream,
         \A v \in Workers : v # w => worker'[v] = worker[v] /\ finish'[v] = finish[v],
         cursor' \in cursor .. Len(stream),
         \A n \in DOMAIN worker'[w].batch : worker'[w].batch[n] \in 1 .. cursor',
         worker'[w].pc \notin {"claim", "read"} => worker'[w].batch # <<>>,
         finish'[w].pc # "none" => \E e \in Entries : finish'[w].msg = stream[e],
         worker'[w].pc \in Waiting => finish'[w].pc # "none" /\ finish'[w].msg = stream[EntryOf(w)']
  PROVE  GroupInv'
<1>1. cursor \in Nat /\ cursor' \in Nat /\ cursor <= cursor'
  BY DEF SystemTypeOK, TypeOK, BaseTypeOK, StreamTypeOK
<1>2. \A v \in Workers : \A n \in DOMAIN worker'[v].batch : worker'[v].batch[n] \in 1 .. cursor'
  BY <1>1 DEF GroupInv
<1>3. \A v \in Workers : worker'[v].pc \notin {"claim", "read"} => worker'[v].batch # <<>>
  BY DEF GroupInv
<1>4. \A v \in Workers : finish'[v].pc # "none" => \E e \in Entries : finish'[v].msg = stream[e]
  BY DEF GroupInv
<1>5. \A v \in Workers : worker'[v].pc \in Waiting =>
        finish'[v].pc # "none" /\ finish'[v].msg = stream[EntryOf(v)']
  BY DEF GroupInv, EntryOf
<1>6. QED
  BY <1>2, <1>3, <1>4, <1>5 DEF GroupInv, Entries

\* A call that keeps the worker on its entry, and its report where it is.
LEMMA GroupWorkerMoves ==
  ASSUME SystemTypeOK, GroupInv, NEW w \in Workers, UNCHANGED <<stream, cursor, finish>>,
         \A v \in Workers : v # w => worker'[v] = worker[v],
         worker'[w].batch = worker[w].batch, worker[w].batch # <<>>, worker'[w].pc \notin Waiting
  PROVE  GroupInv'
<1>1. cursor' \in cursor .. Len(stream)
  BY DEF SystemTypeOK, TypeOK, BaseTypeOK, StreamTypeOK
<1>2. QED
  BY <1>1, GroupKept DEF GroupInv

\* A worker that goes on to its next entry, whatever became of its report.
LEMMA GroupWorkerGoesOn ==
  ASSUME SystemTypeOK, GroupInv, NEW w \in Workers, UNCHANGED <<stream, cursor>>,
         worker[w].batch # <<>>, Handled(w),
         UNCHANGED finish \/ finish' = [finish EXCEPT ![w] = NoFinish]
  PROVE  GroupInv' /\ WorkersTypeOK'
<1>1. cursor' \in cursor .. Len(stream)
  BY DEF SystemTypeOK, TypeOK, BaseTypeOK, StreamTypeOK
<1>2. WorkersTypeOK /\ FinishTypeOK
  BY DEF SystemTypeOK, WorkersTypeOK, FinishTypeOK
<1>3. finish'[w] = finish[w] \/ finish'[w].pc = "none"
  BY <1>2 DEF FinishTypeOK, NoFinish
<1>4. \A v \in Workers : v # w => finish'[v] = finish[v]
  BY <1>2 DEF FinishTypeOK
<1>5. worker'[w].pc \notin Waiting
  BY <1>2, HandledTyped DEF Waiting
<1>6. \A n \in DOMAIN worker'[w].batch : worker'[w].batch[n] \in 1 .. cursor'
  BY <1>2, HandledTyped DEF GroupInv
<1>7. WorkersTypeOK' /\ \A v \in Workers : v # w => worker'[v] = worker[v]
  BY <1>2, HandledTyped
<1>8. worker'[w].pc \notin {"claim", "read"} => worker'[w].batch # <<>>
  BY <1>2, HandledTyped
<1>9. finish'[w].pc # "none" => \E e \in Entries : finish'[w].msg = stream[e]
  BY <1>3 DEF GroupInv
<1>10. GroupInv'
  BY <1>1, <1>4, <1>5, <1>6, <1>7, <1>8, <1>9, GroupKept
<1>11. QED
  BY <1>7, <1>10

\* A report that goes on being served.
LEMMA GroupReportMoves ==
  ASSUME SystemTypeOK, GroupInv, NEW w \in Workers, UNCHANGED <<stream, cursor, worker>>,
         NEW pc \in FinishPCs \ {"none"}, finish[w].pc # "none", ToFinish(w, pc)
  PROVE  GroupInv' /\ FinishTypeOK'
<1>1. cursor' \in cursor .. Len(stream)
  BY DEF SystemTypeOK, TypeOK, BaseTypeOK, StreamTypeOK
<1>2. FinishTypeOK' /\ finish'[w].pc = pc /\ finish'[w].msg = finish[w].msg
  BY ToFinishTyped DEF SystemTypeOK, FinishTypeOK
<1>3. \A v \in Workers : v # w => finish'[v] = finish[v]
  BY ToFinishTyped DEF SystemTypeOK, FinishTypeOK
<1>4. GroupInv'
  BY <1>1, <1>2, <1>3, GroupKept DEF GroupInv, EntryOf
<1>5. QED
  BY <1>2, <1>4

\* What a report reads and writes is typed, the message it is about included.
LEMMA ReportTyped ==
  ASSUME SystemTypeOK, GroupInv, NEW w \in Workers, finish[w].pc # "none"
  PROVE  finish[w].msg \in Message /\ finish[w].msg.job \in JobIds /\ finish[w].msg.file \in FileIds
<1>1. PICK e \in 1 .. Len(stream) : finish[w].msg = stream[e]
  BY DEF GroupInv, Entries
<1>2. stream[e] \in Message
  BY <1>1 DEF SystemTypeOK, TypeOK, BaseTypeOK, StreamTypeOK
<1>3. QED
  BY <1>1, <1>2 DEF Message

\* So is the entry a worker is on.
LEMMA EntryTyped ==
  ASSUME SystemTypeOK, GroupInv, NEW w \in Workers, worker[w].batch # <<>>
  PROVE  /\ EntryOf(w) \in 1 .. cursor /\ EntryOf(w) \in Entries
         /\ stream[EntryOf(w)] \in Message /\ FileOf(w) \in FileIds
<1>1. worker[w].batch \in Seq(Nat) /\ stream \in Seq(Message) /\ cursor \in 0 .. Len(stream)
  BY DEF SystemTypeOK, TypeOK, BaseTypeOK, StreamTypeOK, Worker
<1>2. PICK s \in Seq(Nat) : s = worker[w].batch /\ s # <<>>
  BY <1>1
<1>3. 1 \in DOMAIN s /\ Head(s) = s[1]
  BY <1>2
<1>4. EntryOf(w) \in 1 .. cursor
  BY <1>2, <1>3 DEF EntryOf, GroupInv
<1>5. EntryOf(w) \in Entries
  BY <1>1, <1>4 DEF Entries
<1>6. stream[EntryOf(w)] \in Message
  BY <1>1, <1>5 DEF Entries
<1>7. QED
  BY <1>4, <1>5, <1>6 DEF FileOf, Message

LEMMA NextGroup ==
  SystemTypeOK /\ GroupInv /\ ProcessorNext /\ UNCHANGED ghostVars => SystemTypeOK' /\ GroupInv'
<1> SUFFICES ASSUME SystemTypeOK, GroupInv, ProcessorNext, UNCHANGED ghostVars
             PROVE  SystemTypeOK' /\ GroupInv'
  OBVIOUS
<1> USE DEF storeVars, objectVars, ghostVars, groupVars
<1>0. /\ WorkersTypeOK /\ FinishTypeOK
      /\ cursor \in 0 .. Len(stream) /\ Len(stream) \in Nat
      /\ pending \subseteq 1 .. cursor /\ idle \subseteq pending /\ dlq \subseteq 1 .. cursor
      /\ crashes \in 0 .. MaxCrashes
      /\ FilesTypeOK /\ JobsTypeOK /\ ObjectsTypeOK
  BY DEF SystemTypeOK, TypeOK, BaseTypeOK, StreamTypeOK, WorkersTypeOK, FinishTypeOK
<1>a. UNCHANGED <<storeVars, objectVars, urls, stream, req>> => TypeOK'
  BY DEF SystemTypeOK, TypeOK, BaseTypeOK, FilesTypeOK, JobsTypeOK, QuotaTypeOK, ObjectsTypeOK,
         StreamTypeOK, ReqTypeOK
<1>b. UNCHANGED <<storeVars, urls, stream, req>> /\ ObjectsTypeOK' => TypeOK'
  BY DEF SystemTypeOK, TypeOK, BaseTypeOK, FilesTypeOK, JobsTypeOK, QuotaTypeOK, StreamTypeOK, ReqTypeOK
<1>c. UNCHANGED <<quota, issued, objectVars, urls, stream, req>> /\ FilesTypeOK' /\ JobsTypeOK'
        => TypeOK'
  BY DEF SystemTypeOK, TypeOK, BaseTypeOK, QuotaTypeOK, ObjectsTypeOK, StreamTypeOK, ReqTypeOK
<1>1. ASSUME NEW w \in Workers, ClaimIdle(w), UNCHANGED <<storeVars, objectVars, urls, stream, req>>
      PROVE  SystemTypeOK' /\ GroupInv'
  <2>1. ASSUME NEW batch \in Seq(Nat), Handle(w, batch, "read"),
               \A n \in DOMAIN batch : batch[n] \in pending, idle' \subseteq idle
        PROVE  SystemTypeOK' /\ GroupInv'
    <3>1. /\ WorkersTypeOK'
          /\ \A v \in Workers : v # w => worker'[v] = worker[v]
          /\ worker'[w].batch = batch /\ worker'[w].pc \in {"read", "get"}
          /\ batch = <<>> => worker'[w].pc = "read"
      BY <1>0, <2>1, HandleTyped
    <3>2. \A n \in DOMAIN worker'[w].batch : worker'[w].batch[n] \in 1 .. cursor'
      BY <1>0, <1>1, <2>1, <3>1 DEF ClaimIdle
    <3>3. cursor' \in cursor .. Len(stream) /\ UNCHANGED finish
      BY <1>0, <1>1 DEF ClaimIdle
    <3>4. GroupInv'
      BY <1>1, <3>1, <3>2, <3>3, GroupKept DEF Waiting, GroupInv
    <3>5. SystemTypeOK'
      BY <1>0, <1>1, <1>a, <2>1, <3>1 DEF SystemTypeOK, ClaimIdle, WorkersTypeOK
    <3>6. QED
      BY <3>4, <3>5
  <2>2. CASE Handle(w, <<>>, "read") /\ UNCHANGED idle
    <3>1. <<>> \in Seq(Nat) /\ \A n \in DOMAIN <<>> : <<>>[n] \in pending
      OBVIOUS
    <3>2. QED
      BY <2>1, <2>2, <3>1
  <2>3. CASE ~(Handle(w, <<>>, "read") /\ UNCHANGED idle)
    <3>1. PICK oldest \in SUBSET idle :
            /\ idle' = idle \ oldest
            /\ \E batch \in [1 .. Cardinality(oldest) -> oldest] :
                  Handle(w, batch, "read")
      BY <1>1, <2>3 DEF ClaimIdle
    <3>2. PICK batch \in [1 .. Cardinality(oldest) -> oldest] : Handle(w, batch, "read")
      BY <3>1
    <3>3. Cardinality(oldest) \in Nat
      BY IdleIsFinite
    <3>4. batch \in Seq(Nat) /\ \A n \in DOMAIN batch : batch[n] \in pending
      <4>1. pending \subseteq Nat /\ oldest \subseteq pending
        BY <1>0
      <4>2. \A n \in 1 .. Cardinality(oldest) : batch[n] \in pending /\ batch[n] \in Nat
        BY <3>2, <4>1
      <4>3. QED
        BY <3>2, <3>3, <4>2
    <3>5. QED
      BY <2>1, <3>1, <3>2, <3>4
  <2>4. QED
    BY <2>2, <2>3
<1>2. ASSUME NEW w \in Workers, ReadGroup(w), UNCHANGED <<storeVars, objectVars, urls, stream, req>>
      PROVE  SystemTypeOK' /\ GroupInv'
  <2>1. ASSUME NEW batch \in Seq(Nat), Handle(w, batch, "claim"), cursor' \in cursor .. Len(stream),
               \A n \in DOMAIN batch : batch[n] \in 1 .. cursor',
               pending' \subseteq 1 .. cursor', pending \subseteq pending'
        PROVE  SystemTypeOK' /\ GroupInv'
    <3>1. /\ WorkersTypeOK'
          /\ \A v \in Workers : v # w => worker'[v] = worker[v]
          /\ worker'[w].batch = batch /\ worker'[w].pc \in {"claim", "get"}
          /\ batch = <<>> => worker'[w].pc = "claim"
      BY <1>0, <2>1, HandleTyped
    <3>2. UNCHANGED <<finish, idle, dlq, crashes>>
      BY <1>2 DEF ReadGroup
    <3>3. GroupInv'
      BY <1>2, <2>1, <3>1, <3>2, GroupKept DEF Waiting, GroupInv
    <3>4. idle' \subseteq pending' /\ dlq' \subseteq 1 .. cursor' /\ cursor' \in 0 .. Len(stream)
      BY <1>0, <2>1, <3>2
    <3>5. SystemTypeOK'
      BY <1>0, <1>2, <1>a, <2>1, <3>1, <3>2, <3>4 DEF SystemTypeOK, WorkersTypeOK
    <3>6. QED
      BY <3>3, <3>5
  <2>2. CASE Handle(w, <<cursor + 1>>, "claim") /\ cursor < Len(stream) /\ cursor' = cursor + 1
             /\ pending' = pending \cup {cursor + 1}
    <3>1. /\ <<cursor + 1>> \in Seq(Nat) /\ cursor' \in cursor .. Len(stream)
          /\ \A n \in DOMAIN <<cursor + 1>> : <<cursor + 1>>[n] \in 1 .. cursor'
          /\ pending' \subseteq 1 .. cursor' /\ pending \subseteq pending'
      BY <1>0, <2>2
    <3>2. QED
      BY <2>1, <2>2, <3>1
  <2>3. CASE Handle(w, <<>>, "claim") /\ UNCHANGED <<cursor, pending>>
    <3>1. <<>> \in Seq(Nat) /\ \A n \in DOMAIN <<>> : <<>>[n] \in 1 .. cursor'
      OBVIOUS
    <3>2. cursor' \in cursor .. Len(stream) /\ pending' \subseteq 1 .. cursor' /\ pending \subseteq pending'
      BY <1>0, <2>3
    <3>3. QED
      BY <2>1, <2>3, <3>1, <3>2
  <2>4. QED
    BY <1>2, <2>2, <2>3 DEF ReadGroup
<1>3. ASSUME NEW w \in Workers, SendFinish(w), UNCHANGED <<storeVars, objectVars, urls, stream, req>>
      PROVE  SystemTypeOK' /\ GroupInv'
  <2>1. /\ worker[w].pc \in {"report_ok", "report_err"} /\ worker[w].batch # <<>>
        /\ ToWorker(w, "wait_ok") \/ ToWorker(w, "wait_err")
    BY <1>3 DEF SendFinish, GroupInv
  <2>2. /\ WorkersTypeOK' /\ worker'[w].pc \in Waiting /\ worker'[w].batch = worker[w].batch
        /\ \A v \in Workers : v # w => worker'[v] = worker[v]
    BY <1>0, <2>1, ToWorkerTyped DEF WorkerPCs, Waiting
  <2>3. PICK report \in {"variants", "error"} :
          finish' = [finish EXCEPT ![w] = [pc |-> "get_job", msg |-> stream[EntryOf(w)], report |-> report]]
    BY <1>3 DEF SendFinish
  <2>4. EntryOf(w) \in Entries /\ stream[EntryOf(w)] \in Message
    BY <2>1, EntryTyped
  <2>5. FinishTypeOK' /\ finish'[w].pc = "get_job" /\ finish'[w].msg = stream[EntryOf(w)]
    BY <1>0, <2>3, <2>4 DEF FinishTypeOK, Finish, FinishPCs
  <2>6. \A v \in Workers : v # w => finish'[v] = finish[v]
    BY <1>0, <2>3 DEF FinishTypeOK
  <2>7. stream[EntryOf(w)'] = stream[EntryOf(w)]
    BY <2>2 DEF EntryOf
  <2>8. cursor' \in cursor .. Len(stream) /\ UNCHANGED <<groupVars, crashes>>
    BY <1>0, <1>3 DEF SendFinish
  <2>9. \A n \in DOMAIN worker'[w].batch : worker'[w].batch[n] \in 1 .. cursor'
    BY <2>2, <2>8 DEF GroupInv
  <2>10. GroupInv'
    BY <1>3, <2>1, <2>2, <2>4, <2>5, <2>6, <2>7, <2>8, <2>9, GroupKept
  <2>11. SystemTypeOK'
    BY <1>0, <1>3, <1>a, <2>2, <2>5, <2>8 DEF SystemTypeOK, WorkersTypeOK, FinishTypeOK
  <2>12. QED
    BY <2>10, <2>11
<1>4. ASSUME NEW w \in Workers, GetReply(w), UNCHANGED <<storeVars, objectVars, urls, stream, req>>
      PROVE  SystemTypeOK' /\ GroupInv'
  <2>1. worker[w].pc \in Waiting /\ worker[w].batch # <<>> /\ UNCHANGED <<groupVars, crashes>>
    BY <1>4 DEF GetReply, Waiting, GroupInv
  <2>2. finish' = [finish EXCEPT ![w] = NoFinish]
    BY <1>4 DEF GetReply
  <2>3. /\ FinishTypeOK' /\ finish'[w].pc = "none"
        /\ \A v \in Workers : v # w => finish'[v] = finish[v]
    BY <1>0, <2>2 DEF FinishTypeOK, NoFinish, Finish, FinishPCs
  <2>4. CASE Handled(w)
    <3>1. GroupInv' /\ WorkersTypeOK'
      BY <1>4, <2>1, <2>2, <2>4, GroupWorkerGoesOn
    <3>2. QED
      BY <1>0, <1>4, <1>a, <2>1, <2>3, <3>1 DEF SystemTypeOK, WorkersTypeOK, FinishTypeOK
  <2>5. CASE ToWorker(w, "ack_ok") \/ ToWorker(w, "dlq")
    <3>1. /\ WorkersTypeOK' /\ worker'[w].pc \notin Waiting /\ worker'[w].batch = worker[w].batch
          /\ \A v \in Workers : v # w => worker'[v] = worker[v]
      BY <1>0, <2>5, ToWorkerTyped DEF WorkerPCs, Waiting
    <3>2. cursor' \in cursor .. Len(stream)
      BY <1>0, <2>1
    <3>3. \A n \in DOMAIN worker'[w].batch : worker'[w].batch[n] \in 1 .. cursor'
      BY <2>1, <3>1 DEF GroupInv
    <3>4. GroupInv'
      BY <1>4, <2>1, <2>3, <3>1, <3>2, <3>3, GroupKept
    <3>5. QED
      BY <1>0, <1>4, <1>a, <2>1, <2>3, <3>1, <3>4 DEF SystemTypeOK, WorkersTypeOK, FinishTypeOK
  <2>6. QED
    BY <1>4, <2>4, <2>5 DEF GetReply
<1>5. ASSUME NEW w \in Workers, AckProcessed(w) \/ AckFailed(w),
             UNCHANGED <<storeVars, objectVars, urls, stream, req>>
      PROVE  SystemTypeOK' /\ GroupInv'
  <2>1. /\ worker[w].batch # <<>> /\ UNCHANGED <<cursor, dlq, finish, crashes>> /\ Handled(w)
        /\ pending' \subseteq pending
    BY <1>5 DEF AckProcessed, AckFailed, GroupInv
  <2>2. idle' \subseteq pending'
    BY <1>0, <1>5 DEF AckProcessed, AckFailed
  <2>3. GroupInv' /\ WorkersTypeOK'
    BY <1>5, <2>1, GroupWorkerGoesOn
  <2>4. QED
    BY <1>0, <1>5, <1>a, <2>1, <2>2, <2>3 DEF SystemTypeOK, WorkersTypeOK
<1>6. ASSUME NEW w \in Workers, AddToDlq(w), UNCHANGED <<storeVars, objectVars, urls, stream, req>>
      PROVE  SystemTypeOK' /\ GroupInv'
  <2>1. /\ worker[w].batch # <<>> /\ UNCHANGED <<cursor, pending, idle, finish, crashes>>
        /\ ToWorker(w, "ack_err") /\ dlq' = dlq \cup {EntryOf(w)}
    BY <1>6 DEF AddToDlq, GroupInv
  <2>2. /\ WorkersTypeOK' /\ worker'[w].pc \notin Waiting /\ worker'[w].batch = worker[w].batch
        /\ \A v \in Workers : v # w => worker'[v] = worker[v]
    BY <1>0, <2>1, ToWorkerTyped DEF WorkerPCs, Waiting
  <2>3. GroupInv'
    BY <1>6, <2>1, <2>2, GroupWorkerMoves
  <2>4. dlq' \subseteq 1 .. cursor
    BY <1>0, <2>1, EntryTyped
  <2>5. QED
    BY <1>0, <1>6, <1>a, <2>1, <2>2, <2>3, <2>4 DEF SystemTypeOK, WorkersTypeOK
<1>7. ASSUME NEW w \in Workers, GetImage(w), UNCHANGED <<storeVars, urls, stream, req>>
      PROVE  SystemTypeOK' /\ GroupInv'
  <2>1. worker[w].batch # <<>> /\ UNCHANGED <<groupVars, finish, crashes, objectVars>>
    BY <1>7 DEF GetImage, GroupInv
  <2>2. /\ WorkersTypeOK' /\ worker'[w].pc \notin Waiting /\ worker'[w].batch = worker[w].batch
        /\ \A v \in Workers : v # w => worker'[v] = worker[v]
    <3>1. CASE ToWorker(w, "report_err")
      BY <1>0, <3>1, ToWorkerTyped DEF WorkerPCs, Waiting
    <3>2. CASE ~ToWorker(w, "report_err")
      <4>1. PICK got \in Content \cup {None} :
              worker' = [worker EXCEPT ![w].pc = "put_orig", ![w].image = got]
        BY <1>0, <1>7, <2>1, <3>2, EntryTyped DEF GetImage, ObjectsTypeOK
      <4> DEFINE new == [worker[w] EXCEPT !.pc = "put_orig", !.image = got]
      <4>2. new \in Worker /\ new.pc = "put_orig" /\ new.batch = worker[w].batch
        BY <1>0, <4>1 DEF WorkersTypeOK, Worker, WorkerPCs
      <4>3. worker' = [worker EXCEPT ![w] = new]
        BY <1>0, <4>1 DEF WorkersTypeOK
      <4> HIDE DEF new
      <4>4. QED
        BY <1>0, <4>2, <4>3 DEF WorkersTypeOK, Waiting
    <3>3. QED
      BY <3>1, <3>2
  <2>3. GroupInv'
    BY <1>7, <2>1, <2>2, GroupWorkerMoves
  <2>4. QED
    BY <1>0, <1>7, <1>a, <2>1, <2>2, <2>3 DEF SystemTypeOK, WorkersTypeOK
<1>8. ASSUME NEW w \in Workers, PutVariants(w), UNCHANGED <<storeVars, urls, stream, req>>
      PROVE  SystemTypeOK' /\ GroupInv'
  <2>1. /\ worker[w].batch # <<>> /\ UNCHANGED <<groupVars, finish, crashes>>
        /\ \E pc \in WorkerPCs \ Waiting : ToWorker(w, pc)
    BY <1>8 DEF PutVariants, PutVariant, GroupInv, WorkerPCs, Waiting
  <2>2. /\ WorkersTypeOK' /\ worker'[w].pc \notin Waiting /\ worker'[w].batch = worker[w].batch
        /\ \A v \in Workers : v # w => worker'[v] = worker[v]
    BY <1>0, <2>1, ToWorkerTyped
  <2>3. GroupInv'
    BY <1>8, <2>1, <2>2, GroupWorkerMoves
  <2>4. ObjectsTypeOK'
    <3>0. PICK f \in FileIds : f = FileOf(w)
      BY <2>1, EntryTyped
    <3>1. CASE UNCHANGED objectVars
      BY <1>0, <3>1 DEF ObjectsTypeOK
    <3>2. ASSUME NEW c \in ClientContents,
                 orig' = [orig EXCEPT ![f] = [size |-> c.size, kind |-> "image", form |-> "stripped"]],
                 UNCHANGED derived
          PROVE  ObjectsTypeOK'
      <4>1. [size |-> c.size, kind |-> "image", form |-> "stripped"] \in Content
        BY MediaAssumption DEF Content, Kinds, Forms
      <4>2. QED
        BY <1>0, <3>2, <4>1 DEF ObjectsTypeOK
    <3>3. ASSUME NEW v \in DerivedNames, derived' = [derived EXCEPT ![f] = @ \cup {v}], UNCHANGED orig
          PROVE  ObjectsTypeOK'
      BY <1>0, <3>3 DEF ObjectsTypeOK
    <3>4. ASSUME NEW pc, NEW next, PutVariant(w, pc, next) PROVE ObjectsTypeOK'
      BY <3>0, <3>1, <3>2, <3>3, <3>4 DEF PutVariant, DerivedNames
    <3>5. QED
      BY <1>8, <3>4 DEF PutVariants
  <2>5. QED
    BY <1>0, <1>8, <1>b, <2>1, <2>2, <2>3, <2>4 DEF SystemTypeOK, WorkersTypeOK
<1>9. ASSUME NEW w \in Workers, FinishStep(w) PROVE SystemTypeOK' /\ GroupInv'
  <2>1. /\ UNCHANGED <<quota, issued, objectVars, urls, stream, req, groupVars, worker, crashes>>
        /\ finish[w].pc # "none"
        /\ \E pc \in FinishPCs \ {"none"} : ToFinish(w, pc)
    BY <1>9 DEF FinishStep, FinishGetJob, FinishVariants, FinishSucceeded, FinishJobFailed,
                FinishFileFailed, FinishAborts, FinishPCs
  <2>2. PICK f \in FileIds, j \in JobIds : f = finish[w].msg.file /\ j = finish[w].msg.job
    BY <2>1, ReportTyped
  <2>3. FilesTypeOK'
    <3>1. UNCHANGED files => FilesTypeOK'
      BY <1>0 DEF FilesTypeOK
    <3>2. SetFileStatus(finish[w].msg.file, "failed") => FilesTypeOK'
      BY <1>0, <2>2, SetFileStatusTyped DEF FileStatus
    <3>3. UpdateVariants(finish[w].msg.file) => FilesTypeOK'
      <4>1. files[f] \in FileRow => [files[f] EXCEPT !.variants = VariantNames, !.status = "ready"] \in FileRow
        BY DEF FileRow, FileStatus
      <4>2. QED
        BY <1>0, <2>2, <4>1, UpdateRowTyped DEF UpdateVariants
    <3>4. QED
      BY <1>9, <3>1, <3>2, <3>3 DEF FinishStep, FinishGetJob, FinishVariants, FinishSucceeded,
            FinishJobFailed, FinishFileFailed, FinishAborts
  <2>4. JobsTypeOK'
    <3>1. UNCHANGED jobs => JobsTypeOK'
      BY <1>0 DEF JobsTypeOK
    <3>2. \A status \in JobStatus : UpdateJob(finish[w].msg.job, status) => JobsTypeOK'
      BY <1>0, <2>2, UpdateJobTyped
    <3>3. QED
      BY <1>9, <3>1, <3>2 DEF FinishStep, FinishGetJob, FinishVariants, FinishSucceeded,
            FinishJobFailed, FinishFileFailed, FinishAborts, JobStatus
  <2>5. GroupInv' /\ FinishTypeOK'
    BY <2>1, GroupReportMoves
  <2>6. QED
    BY <1>0, <1>c, <2>1, <2>3, <2>4, <2>5 DEF SystemTypeOK, FinishTypeOK
<1>10. ASSUME FailStep PROVE SystemTypeOK' /\ GroupInv'
  <2>1. PICK w \in Workers : Crash(w) \/ LoseReply(w)
    BY <1>10 DEF FailStep
  <2>2. /\ UNCHANGED <<storeVars, objectVars, urls, stream, req, groupVars, finish>>
        /\ crashes' \in 0 .. MaxCrashes
    BY <1>0, <1>10, <2>1, ProcessorAssumption DEF FailStep, Crash, LoseReply
  <2>3. GroupInv' /\ WorkersTypeOK'
    <3>1. CASE LoseReply(w)
      BY <2>2, <3>1, GroupWorkerGoesOn DEF LoseReply, GroupInv
    <3>2. CASE Crash(w)
      <4>1. /\ WorkersTypeOK' /\ worker'[w] = StartWorker
            /\ \A v \in Workers : v # w => worker'[v] = worker[v]
        BY <1>0, <3>2 DEF Crash, WorkersTypeOK, Worker, StartWorker, WorkerPCs
      <4>2. worker'[w].batch = <<>> /\ worker'[w].pc = "claim" /\ cursor' \in cursor .. Len(stream)
        BY <1>0, <2>2, <4>1 DEF StartWorker
      <4>3. \A n \in DOMAIN worker'[w].batch : worker'[w].batch[n] \in 1 .. cursor'
        BY <4>2
      <4>4. GroupInv'
        BY <2>2, <4>1, <4>2, <4>3, GroupKept DEF Waiting, GroupInv
      <4>5. QED
        BY <4>1, <4>4
    <3>3. QED
      BY <2>1, <3>1, <3>2
  <2>4. QED
    BY <1>0, <1>a, <2>2, <2>3 DEF SystemTypeOK, WorkersTypeOK
<1>11. ASSUME IdleStep PROVE SystemTypeOK' /\ GroupInv'
  <2>1. /\ UNCHANGED <<storeVars, objectVars, urls, stream, req>>
        /\ UNCHANGED <<cursor, pending, dlq, worker, finish, crashes>>
        /\ idle' \subseteq pending
    BY <1>0, <1>11 DEF IdleStep, Elapse
  <2>2. GroupInv'
    BY <2>1 DEF GroupInv, Entries, EntryOf
  <2>3. QED
    BY <1>a, <2>1, <2>2 DEF SystemTypeOK
<1>12. QED
  BY <1>1, <1>2, <1>3, <1>4, <1>5, <1>6, <1>7, <1>8, <1>9, <1>10, <1>11
     DEF ProcessorNext, QueueStep, ImageStep

\* Requests only ever add to the stream, what they were about to enqueue.
LEMMA RequestsAppend ==
  ASSUME [UploadsNext]_uploadsVars
  PROVE  \/ UNCHANGED stream
         \/ \E h \in Handlers : req[h].pc = "enq" /\ Enqueue(req[h].job, req[h].file)
<1>1. ASSUME NEW h \in Handlers,
             \/ RetryStart(h) \/ RetryQueued(h) \/ MarkPending(h) \/ UndoJob(h) \/ UndoFile(h) \/ Abort(h)
             \/ PresignCheck(h) \/ PresignCreate(h) \/ CompleteStart(h) \/ CompleteStat(h)
             \/ CompleteDrop(h) \/ CompleteHead(h) \/ RejectObject(h) \/ RejectRow(h)
             \/ CompleteCharge(h) \/ CompleteReady(h) \/ CompleteJob(h)
             \/ DeleteStart(h) \/ DeleteObjects(h) \/ DeleteRow(h) \/ DeleteRefund(h)
      PROVE  UNCHANGED stream
  BY <1>1 DEF RetryStart, RetryQueued, MarkPending, UndoJob, UndoFile, Abort, PresignCheck,
      PresignCreate, CompleteStart, CompleteStat, CompleteDrop, CompleteHead, RejectObject, RejectRow,
      CompleteCharge, CompleteReady, CompleteJob, DeleteStart, DeleteObjects, DeleteRow, DeleteRefund
<1>2. ASSUME NEW h \in Handlers, EnqueueOK(h) \/ EnqueueFails(h)
      PROVE  UNCHANGED stream \/ (req[h].pc = "enq" /\ Enqueue(req[h].job, req[h].file))
  BY <1>2 DEF EnqueueOK, EnqueueFails
<1>3. ASSUME NEW f \in FileIds, Put(f) PROVE UNCHANGED stream
  BY <1>3 DEF Put
<1>4. CASE UNCHANGED uploadsVars
  BY <1>4 DEF uploadsVars, baseVars
<1>5. QED
  BY <1>1, <1>2, <1>3, <1>4 DEF UploadsNext, PresignStep, CompleteStep, DeleteStep, JobsStep

LEMMA StreamGrows ==
  ASSUME StreamTypeOK, [UploadsNext]_uploadsVars
  PROVE  /\ Entries \subseteq Entries' /\ Len(stream) <= Len(stream')
         /\ \A e \in Entries : stream'[e] = stream[e]
<1>1. Len(stream) \in Nat
  BY DEF StreamTypeOK
<1>2. CASE UNCHANGED stream
  BY <1>1, <1>2 DEF Entries
<1>3. ASSUME NEW h \in Handlers, Enqueue(req[h].job, req[h].file)
      PROVE  Len(stream') = Len(stream) + 1 /\ \A e \in Entries : stream'[e] = stream[e]
  BY <1>3 DEF Enqueue, StreamTypeOK, Entries
<1>4. CASE \E h \in Handlers : Enqueue(req[h].job, req[h].file)
  <2>1. Len(stream') = Len(stream) + 1 /\ \A e \in Entries : stream'[e] = stream[e]
    BY <1>3, <1>4
  <2>2. QED
    BY <1>1, <2>1 DEF Entries
<1>5. QED
  BY <1>2, <1>4, RequestsAppend

LEMMA InitSystem == SystemInit => SystemTypeOK /\ GroupInv
<1> SUFFICES ASSUME SystemInit PROVE SystemTypeOK /\ GroupInv
  OBVIOUS
<1>1. TypeOK
  BY InitTyped DEF SystemInit
<1>2. /\ StartWorker \in Worker /\ StartWorker.batch = <<>> /\ StartWorker.pc = "claim"
      /\ NoFinish \in Finish /\ NoFinish.pc = "none"
  BY DEF StartWorker, Worker, WorkerPCs, NoFinish, Finish, FinishPCs
<1>3. SystemTypeOK
  BY <1>1, <1>2, ProcessorAssumption DEF SystemInit, GroupInit, SystemTypeOK, TypeOK, BaseTypeOK, StreamTypeOK
<1>4. GroupInv
  BY <1>2 DEF SystemInit, GroupInit, GroupInv, Waiting
<1>5. QED
  BY <1>3, <1>4

LEMMA NextSystem == SystemTypeOK /\ GroupInv /\ [SystemNext]_systemVars => SystemTypeOK' /\ GroupInv'
<1> SUFFICES ASSUME SystemTypeOK, GroupInv, [SystemNext]_systemVars PROVE SystemTypeOK' /\ GroupInv'
  OBVIOUS
<1>1. CASE [UploadsNext]_uploadsVars /\ UNCHANGED processorVars
  <2>1. TypeOK' /\ StreamTypeOK
    BY <1>1, NextTyped DEF SystemTypeOK, TypeOK, BaseTypeOK
  <2>2. /\ Entries \subseteq Entries' /\ Len(stream) <= Len(stream') /\ Len(stream') \in Nat
        /\ \A e \in Entries : stream'[e] = stream[e]
    BY <1>1, <2>1, StreamGrows DEF TypeOK, BaseTypeOK, StreamTypeOK
  <2>3. SystemTypeOK'
    BY <1>1, <2>1, <2>2 DEF SystemTypeOK, processorVars, groupVars
  <2>4. \A w \in Workers : worker[w].batch # <<>> => EntryOf(w) \in Entries
    BY EntryTyped
  <2>5. \A w \in Workers : worker'[w].pc \in Waiting =>
          finish'[w].pc # "none" /\ finish'[w].msg = stream'[EntryOf(w)]
    BY <1>1, <2>2, <2>4 DEF GroupInv, processorVars, Waiting
  <2>6. GroupInv'
    BY <1>1, <2>2, <2>5 DEF GroupInv, processorVars, groupVars, EntryOf
  <2>7. QED
    BY <2>3, <2>6
<1>2. CASE ProcessorNext /\ UNCHANGED ghostVars
  BY <1>2, NextGroup
<1>3. QED
  BY <1>1, <1>2 DEF SystemNext, systemVars

(* Whatever requests, workers, reports and faults there are, the rows, the *)
(* objects and the stream stay well-formed, and the consumer group knows   *)
(* only entries that were added: every index the workers use is one of the *)
(* stream's, whoever claimed it and however often its worker died.         *)
THEOREM SystemTyping == SystemSpec => []SystemTypeOK
<1>1. SystemSpec => [](SystemTypeOK /\ GroupInv)
  BY InitSystem, NextSystem, PTL DEF SystemSpec
<1>2. QED
  BY <1>1, PTL

-----------------------------------------------------------------------------
(* What no step does to a row that is there.                               *)

\* An UPDATE of jobs sets a status and leaves the rest.
LEMMA UpdateJobSets ==
  ASSUME JobsTypeOK, NEW j \in JobIds, NEW status \in JobStatus, UpdateJob(j, status)
  PROVE  \A i \in JobIds : jobs'[i] # None =>
           /\ jobs[i] # None /\ jobs'[i].file = jobs[i].file
           /\ i # j => jobs'[i] = jobs[i]
           /\ i = j => jobs'[i].status = status
<1> DEFINE row == [jobs[j] EXCEPT !.status = status]
<1>1. jobs[j] # None => row.file = jobs[j].file /\ row.status = status
  BY DEF JobsTypeOK, JobRow
<1>2. jobs' = IF jobs[j] = None THEN jobs ELSE [jobs EXCEPT ![j] = row]
  BY DEF UpdateJob
<1> HIDE DEF row
<1>3. QED
  BY <1>1, <1>2 DEF JobsTypeOK

(***************************************************************************)
(* A row of an id that was handed out keeps its size, unless the new one   *)
(* was charged, and never loses variants.  A job keeps its file, and only  *)
(* a report that got past UpdateVariants makes it a success.               *)
(***************************************************************************)
Succeeding(j) == \E w \in Workers : finish[w].pc = "job_ok" /\ finish[w].msg.job = j

FileKept(f) ==
    /\ HasRow(f)
    /\ files'[f].size = files[f].size \/ Paid(f)'
    /\ files'[f].variants \in {files[f].variants, VariantNames}
JobKept(j) ==
    /\ jobs[j] # None /\ jobs'[j].file = jobs[j].file
    /\ jobs'[j].status = "succeeded" => jobs[j].status = "succeeded" \/ Succeeding(j)
JobMade(j) == j \notin issued /\ j \in issued' /\ jobs'[j].status = "queued"

RowsKept ==
    /\ issued \subseteq issued'
    /\ \A f \in FileIds : charged'[f] >= charged[f]
    /\ \A f \in FileIds \cap issued : HasRow(f)' => FileKept(f)
    /\ \A j \in JobIds : jobs'[j] # None => JobKept(j) \/ JobMade(j)

LEMMA RequestsKeepRows ==
  ASSUME TypeOK, TypeOK', LedgerInv, [UploadsNext]_uploadsVars
  PROVE  RowsKept
<1> USE DEF storeVars, ghostVars
<1>0. /\ FilesTypeOK /\ JobsTypeOK /\ req \in [Handlers -> Request]
      /\ charged \in [FileIds -> Nat] /\ charged' \in [FileIds -> Nat]
      /\ \A h \in Handlers : req[h].pc \notin {"idle", "p_create"} => req[h].file \in FileIds
      /\ \A h \in Handlers : req[h].pc \in JobPCs => req[h].job \in JobIds
  BY DEF TypeOK, BaseTypeOK, ReqTypeOK, JobPCs
<1>a. UNCHANGED issued => issued \subseteq issued'
  OBVIOUS
<1>b. UNCHANGED charged => \A f \in FileIds : charged'[f] >= charged[f]
  BY <1>0
<1>c. UNCHANGED files => \A f \in FileIds \cap issued : HasRow(f)' => FileKept(f)
  BY DEF FileKept, HasRow
<1>d. UNCHANGED jobs => \A j \in JobIds : jobs'[j] # None => JobKept(j) \/ JobMade(j)
  BY DEF JobKept
<1>e. ASSUME NEW h \in Handlers, req[h].pc \notin {"idle", "p_create"}, NEW status \in FileStatus,
             SetFileStatus(req[h].file, status)
      PROVE  \A f \in FileIds \cap issued : HasRow(f)' => FileKept(f)
  <2>1. PICK f \in FileIds : f = req[h].file
    BY <1>0, <1>e
  <2>2. SetFileStatus(f, status)
    BY <1>e, <2>1 DEF SetFileStatus, UpdateRow
  <2>3. QED
    BY <1>0, <2>2, SetFileStatusKeeps DEF FileKept
<1>f. ASSUME NEW h \in Handlers, req[h].pc \in JobPCs, NEW status \in {"queued", "failed"},
             UpdateJob(req[h].job, status)
      PROVE  \A j \in JobIds : jobs'[j] # None => JobKept(j) \/ JobMade(j)
  <2>1. \A j \in JobIds : jobs'[j] # None =>
          /\ jobs[j] # None /\ jobs'[j].file = jobs[j].file
          /\ jobs'[j] = jobs[j] \/ jobs'[j].status = status
    BY <1>0, <1>f, UpdateJobSets DEF JobStatus
  <2>2. QED
    BY <2>1 DEF JobKept
<1>g. ASSUME NEW h \in Handlers, req[h].pc \notin {"idle", "p_create"}, DeleteFileRow(req[h].file)
      PROVE  /\ \A f \in FileIds \cap issued : HasRow(f)' => FileKept(f)
             /\ \A j \in JobIds : jobs'[j] # None => JobKept(j) \/ JobMade(j)
  <2>1. PICK f \in FileIds : f = req[h].file
    BY <1>0, <1>g
  <2>2. DeleteFileRow(f)
    BY <1>g, <2>1 DEF DeleteFileRow
  <2>3. QED
    BY <1>0, <2>2, DeleteFileRowKeeps DEF FileKept, JobKept, HasRow
<1>1. ASSUME NEW h \in Handlers,
             \/ RetryStart(h) \/ EnqueueOK(h) \/ EnqueueFails(h) \/ Abort(h)
             \/ CompleteStat(h) \/ CompleteDrop(h) \/ CompleteHead(h) \/ RejectObject(h)
             \/ PresignCheck(h) \/ CompleteStart(h)
             \/ DeleteStart(h) \/ DeleteObjects(h) \/ DeleteRefund(h),
             UNCHANGED charged
      PROVE  RowsKept
  <2>1. UNCHANGED <<files, jobs, issued>>
    BY <1>1 DEF RetryStart, EnqueueOK, EnqueueFails, Abort, CompleteStat, CompleteDrop, CompleteHead,
                RejectObject, PresignCheck, CompleteStart, DeleteStart, DeleteObjects, DeleteRefund
  <2>2. QED
    BY <1>1, <1>a, <1>b, <1>c, <1>d, <2>1 DEF RowsKept
<1>2. ASSUME NEW h \in Handlers, RetryQueued(h) \/ UndoJob(h), UNCHANGED charged PROVE RowsKept
  <2>1. /\ UNCHANGED <<files, issued>> /\ req[h].pc \in JobPCs
        /\ \/ UpdateJob(req[h].job, "queued") \/ UpdateJob(req[h].job, "failed") \/ UNCHANGED jobs
    BY <1>2 DEF RetryQueued, UndoJob, JobPCs
  <2>2. QED
    BY <1>2, <1>a, <1>b, <1>c, <1>d, <1>f, <2>1 DEF RowsKept
<1>3. ASSUME NEW h \in Handlers, MarkPending(h) \/ UndoFile(h), UNCHANGED charged PROVE RowsKept
  <2>1. /\ UNCHANGED <<jobs, issued>> /\ req[h].pc \notin {"idle", "p_create"}
        /\ \/ SetFileStatus(req[h].file, "pending") \/ SetFileStatus(req[h].file, "failed")
           \/ UNCHANGED files
    BY <1>3 DEF MarkPending, UndoFile
  <2>2. QED
    BY <1>3, <1>a, <1>b, <1>c, <1>d, <1>e, <2>1 DEF RowsKept, FileStatus
<1>4. ASSUME NEW h \in Handlers, RejectRow(h) \/ DeleteRow(h) PROVE RowsKept
  <2>1. /\ UNCHANGED <<issued, charged>> /\ req[h].pc \notin {"idle", "p_create"}
        /\ DeleteFileRow(req[h].file) \/ UNCHANGED <<files, jobs>>
    BY <1>4 DEF RejectRow, DeleteRow
  <2>2. QED
    BY <1>a, <1>b, <1>c, <1>d, <1>g, <2>1 DEF RowsKept
<1>5. ASSUME NEW h \in Handlers, PresignCreate(h) PROVE RowsKept
  <2>1. PICK f \in FileIds \ issued : \A g \in FileIds : g # f => files'[g] = files[g]
    BY <1>0, <1>5 DEF PresignCreate, CreatePendingFile, FilesTypeOK
  <2>2. \A g \in FileIds \cap issued : HasRow(g)' => FileKept(g)
    BY <2>1 DEF FileKept, HasRow
  <2>3. UNCHANGED <<jobs, charged>> /\ issued \subseteq issued'
    BY <1>5 DEF PresignCreate
  <2>4. QED
    BY <1>b, <1>d, <2>2, <2>3 DEF RowsKept
<1>6. ASSUME NEW h \in Handlers, CompleteCharge(h) PROVE RowsKept
  <2>1. UNCHANGED <<files, jobs, issued>> /\ req[h].file \in FileIds /\ req[h].size \in Nat
    BY <1>0, <1>6 DEF CompleteCharge, Request
  <2>2. UNCHANGED charged \/ charged' = [charged EXCEPT ![req[h].file] = @ + req[h].size]
    BY <1>6 DEF CompleteCharge
  <2>3. \A f \in FileIds : charged'[f] >= charged[f]
    BY <1>0, <2>1, <2>2
  <2>4. QED
    BY <1>a, <1>c, <1>d, <2>1, <2>3 DEF RowsKept
<1>7. ASSUME NEW h \in Handlers, CompleteReady(h) PROVE RowsKept
  <2>0. PICK f \in FileIds : f = req[h].file
    BY <1>0, <1>7 DEF CompleteReady
  <2>1. /\ UNCHANGED <<jobs, charged, issued>>
        /\ req[h].size \in Nat /\ charged[f] >= req[h].size
    BY <1>0, <1>7, <2>0 DEF CompleteReady, LedgerInv, Request
  <2>2. /\ \A g \in FileIds : HasRow(g)' <=> HasRow(g)
        /\ \A g \in FileIds : g # f => files'[g] = files[g]
        /\ HasRow(f) => files'[f].size = req[h].size /\ files'[f].variants = files[f].variants
    <3> DEFINE row == [files[f] EXCEPT !.status = "ready", !.size = req[h].size]
    <3>1. HasRow(f) => row \in FileRow /\ row.size = req[h].size /\ row.variants = files[f].variants
      BY <1>0, <2>1 DEF FilesTypeOK, FileRow, FileStatus, HasRow
    <3>2. UpdateRow(f, row)
      BY <1>7, <2>0 DEF CompleteReady, MarkFileReady, UpdateRow
    <3> HIDE DEF row
    <3>3. QED
      BY <1>0, <3>1, <3>2, UpdateRowKeeps
  <2>3. \A g \in FileIds \cap issued : HasRow(g)' => FileKept(g)
    BY <2>1, <2>2 DEF FileKept, Paid
  <2>4. QED
    BY <1>a, <1>b, <1>d, <2>1, <2>3 DEF RowsKept
<1>8. ASSUME NEW h \in Handlers, CompleteJob(h) PROVE RowsKept
  <2>1. UNCHANGED <<files, charged>> /\ req[h].file \in FileIds
    BY <1>0, <1>8 DEF CompleteJob
  <2>2. CASE UNCHANGED <<jobs, issued>>
    BY <1>a, <1>b, <1>c, <1>d, <2>1, <2>2 DEF RowsKept
  <2>3. ASSUME NEW j \in JobIds \ issued, CreateJob(j, req[h].file), issued' = issued \cup {j}
        PROVE  RowsKept
    <3>1. \A i \in JobIds : jobs'[i] # None => JobKept(i) \/ JobMade(i)
      BY <1>0, <2>3 DEF CreateJob, JobsTypeOK, JobKept, JobMade
    <3>2. QED
      BY <1>b, <1>c, <2>1, <2>3, <3>1 DEF RowsKept
  <2>4. QED
    BY <1>8, <2>2, <2>3 DEF CompleteJob
<1>9. CASE UNCHANGED <<files, jobs, issued, charged>>
  BY <1>9, <1>a, <1>b, <1>c, <1>d DEF RowsKept
<1>10. ASSUME NEW f \in FileIds, Put(f) PROVE RowsKept
  BY <1>9, <1>10 DEF Put
<1>11. CASE UNCHANGED uploadsVars
  BY <1>9, <1>11 DEF uploadsVars, baseVars
<1>12. ASSUME NEW h \in Handlers, PresignStep(h) \/ CompleteStep(h) \/ DeleteStep(h) PROVE RowsKept
  BY <1>12, <1>1, <1>4, <1>5, <1>6, <1>7, <1>8
     DEF PresignStep, CompleteStep, DeleteStep, PresignCheck, CompleteStart, CompleteStat, CompleteDrop,
         CompleteHead, RejectObject, DeleteStart, DeleteObjects, DeleteRefund
<1>13. ASSUME NEW h \in Handlers, JobsStep(h), UNCHANGED ghostVars PROVE RowsKept
  BY <1>13, <1>1, <1>2, <1>3 DEF JobsStep
<1>14. QED
  BY <1>10, <1>11, <1>12, <1>13 DEF UploadsNext

\* A report touches the rows of its own message only.
LEMMA ReportsKeepRows ==
  ASSUME SystemTypeOK, GroupInv, NEW w \in Workers, FinishStep(w),
         NEW f \in FileIds, NEW j \in JobIds, finish[w].msg.file = f, finish[w].msg.job = j
  PROVE  /\ \A g \in FileIds : HasRow(g)' <=> HasRow(g)
         /\ \A g \in FileIds : g # f => files'[g] = files[g]
         /\ HasRow(f) => /\ files'[f].size = files[f].size
                         /\ files'[f].variants \in {files[f].variants, VariantNames}
         /\ \A i \in JobIds : jobs'[i] # None => jobs[i] # None /\ jobs'[i].file = jobs[i].file
         /\ \A i \in JobIds : jobs'[i] # None => \/ jobs'[i].status = jobs[i].status
                                                 \/ i = j /\ jobs'[i].status = "failed"
                                                 \/ /\ i = j /\ jobs'[i].status = "succeeded"
                                                    /\ finish[w].pc = "job_ok"
<1>0. FilesTypeOK /\ JobsTypeOK
  BY DEF SystemTypeOK, TypeOK, BaseTypeOK
<1>1. UNCHANGED files \/ SetFileStatus(f, "failed") \/ UpdateVariants(f)
  <2>1. SetFileStatus(finish[w].msg.file, "failed") => SetFileStatus(f, "failed")
    OBVIOUS
  <2>2. UpdateVariants(finish[w].msg.file) => UpdateVariants(f)
    OBVIOUS
  <2>3. QED
    BY <2>1, <2>2 DEF FinishStep, FinishGetJob, FinishVariants, FinishSucceeded, FinishJobFailed,
       FinishFileFailed, FinishAborts
<1>2. /\ \A g \in FileIds : HasRow(g)' <=> HasRow(g)
      /\ \A g \in FileIds : g # f => files'[g] = files[g]
      /\ HasRow(f) => /\ files'[f].size = files[f].size
                      /\ files'[f].variants \in {files[f].variants, VariantNames}
  <2>1. CASE UNCHANGED files
    BY <2>1 DEF HasRow
  <2>2. CASE SetFileStatus(f, "failed")
    BY <1>0, <2>2, SetFileStatusKeeps DEF FileStatus
  <2>3. CASE UpdateVariants(f)
    <3> DEFINE row == [files[f] EXCEPT !.variants = VariantNames, !.status = "ready"]
    <3>1. HasRow(f) => row \in FileRow /\ row.size = files[f].size /\ row.variants = VariantNames
      BY <1>0 DEF FilesTypeOK, FileRow, FileStatus, HasRow
    <3>2. UpdateRow(f, row)
      BY <2>3 DEF UpdateVariants
    <3> HIDE DEF row
    <3>3. QED
      BY <1>0, <3>1, <3>2, UpdateRowKeeps
  <2>4. QED
    BY <1>1, <2>1, <2>2, <2>3
<1>3. \/ UNCHANGED jobs \/ UpdateJob(j, "failed")
      \/ UpdateJob(j, "succeeded") /\ finish[w].pc = "job_ok"
  <2>1. \A status : UpdateJob(finish[w].msg.job, status) => UpdateJob(j, status)
    OBVIOUS
  <2>2. QED
    BY <2>1 DEF FinishStep, FinishGetJob, FinishVariants, FinishSucceeded, FinishJobFailed,
       FinishFileFailed, FinishAborts
<1>4. \A i \in JobIds : jobs'[i] # None =>
        /\ jobs[i] # None /\ jobs'[i].file = jobs[i].file
        /\ \/ jobs'[i].status = jobs[i].status
           \/ i = j /\ jobs'[i].status = "failed"
           \/ /\ i = j /\ jobs'[i].status = "succeeded"
              /\ finish[w].pc = "job_ok"
  <2>1. CASE UNCHANGED jobs
    BY <2>1
  <2>2. CASE UpdateJob(j, "failed")
    BY <1>0, <2>2, UpdateJobSets DEF JobStatus
  <2>3. CASE UpdateJob(j, "succeeded") /\ finish[w].pc = "job_ok"
    BY <1>0, <2>3, UpdateJobSets DEF JobStatus
  <2>4. QED
    BY <1>3, <2>1, <2>2, <2>3
<1>5. QED
  BY <1>2, <1>4

\* What is left of a step of the processor when it is not a report's.
LEMMA WorkersLeaveRows ==
  ASSUME ProcessorNext
  PROVE  /\ UNCHANGED <<quota, issued, urls, stream, req>>
         /\ UNCHANGED <<files, jobs>> \/ \E w \in Workers : FinishStep(w)
  BY DEF ProcessorNext, QueueStep, ImageStep, FinishStep, FailStep, IdleStep, storeVars

\* A report was sent for an entry of the stream: it finds the rows of a message.
LEMMA ReportFinds ==
  ASSUME SystemTypeOK, GroupInv, NEW w \in Workers, FinishStep(w)
  PROVE  \E e \in Entries, f \in FileIds, j \in JobIds :
            /\ finish[w].pc # "none" /\ finish[w].msg = stream[e]
            /\ finish[w].msg.file = f /\ finish[w].msg.job = j
<1>1. finish[w].pc # "none"
  BY DEF FinishStep, FinishGetJob, FinishVariants, FinishSucceeded, FinishJobFailed,
         FinishFileFailed, FinishAborts
<1>2. QED
  BY <1>1, ReportTyped DEF GroupInv

-----------------------------------------------------------------------------
(* The ledger, with the workers' reports under way.                        *)

(***************************************************************************)
(* A message names a job and the file the job was made for, and while the  *)
(* file is there it is paid for: that is why a report, which looks at the  *)
(* message and at no size, may show the file as ready or failed.           *)
(***************************************************************************)
Vouched(m) ==
    /\ m.job \in issued /\ m.file \in issued
    /\ jobs[m.job] # None => jobs[m.job].file = m.file
    /\ HasRow(m.file) => Paid(m.file)

MessageInv ==
    /\ \A e \in Entries : Vouched(stream[e])
    /\ \A h \in Handlers : req[h].pc \in JobPCs =>
          /\ req[h].job \in issued
          /\ jobs[req[h].job] # None => jobs[req[h].job].file = req[h].file
    /\ \A j \in JobIds : jobs[j] # None => j \in issued

LEMMA VouchedKept ==
  ASSUME TypeOK, TypeOK', RowsKept, NEW m \in Message, Vouched(m)
  PROVE  Vouched(m)'
<1>1. PICK f \in FileIds, j \in JobIds : f = m.file /\ j = m.job
  BY DEF Message
<1>2. /\ charged[f] \in Nat /\ charged'[f] \in Nat /\ charged'[f] >= charged[f]
      /\ files \in [FileIds -> FileRow \cup {None}] /\ files' \in [FileIds -> FileRow \cup {None}]
  BY <1>1 DEF TypeOK, BaseTypeOK, FilesTypeOK, RowsKept
<1>3. f \in issued /\ j \in issued /\ f \in issued' /\ j \in issued'
  BY <1>1 DEF Vouched, RowsKept
<1>4. jobs'[j] # None => jobs'[j].file = f
  BY <1>1, <1>3 DEF Vouched, RowsKept, JobKept, JobMade
<1>5. HasRow(f)' => Paid(f)'
  <2> SUFFICES ASSUME HasRow(f)', ~Paid(f)' PROVE FALSE
    OBVIOUS
  <2>1. HasRow(f) /\ files'[f].size = files[f].size
    BY <1>3 DEF RowsKept, FileKept
  <2>2. Paid(f) /\ files[f].size \in Nat
    BY <1>1, <1>2, <2>1 DEF Vouched, HasRow, FileRow
  <2>3. QED
    BY <1>2, <2>1, <2>2 DEF Paid
<1>6. QED
  BY <1>1, <1>3, <1>4, <1>5 DEF HasRow, Paid, Vouched

\* A request for a job is one for the file the job was made for.
LEMMA RequestsAreFor ==
  ASSUME TypeOK, TypeOK', MessageInv, [UploadsNext]_uploadsVars, NEW g \in Handlers, req'[g].pc \in JobPCs
  PROVE  \/ req[g].pc \in JobPCs /\ req'[g].job = req[g].job /\ req'[g].file = req[g].file
         \/ /\ jobs'[req'[g].job] # None /\ jobs'[req'[g].job].file = req'[g].file
            /\ req'[g].job \in issued'
<1> DEFINE Same == req[g].pc \in JobPCs /\ req'[g].job = req[g].job /\ req'[g].file = req[g].file
           New == /\ jobs'[req'[g].job] # None /\ jobs'[req'[g].job].file = req'[g].file
                  /\ req'[g].job \in issued'
<1> SUFFICES Same \/ New
  OBVIOUS
<1>0. /\ req \in [Handlers -> Request] /\ req' \in [Handlers -> Request]
      /\ \A h \in Handlers : req[h].pc \notin {"idle", "p_create"} => req[h].file \in FileIds
      /\ JobsTypeOK
  BY DEF TypeOK, BaseTypeOK, ReqTypeOK
<1>1. req'[g] = req[g] => Same
  OBVIOUS
<1>2. ASSUME NEW h \in Handlers, Return(h) PROVE Same
  BY <1>0, <1>1, <1>2, RequestMoves DEF JobPCs
<1>3. ASSUME NEW h \in Handlers, NEW pc, Goto(h, pc), pc \in JobPCs => req[h].pc \in JobPCs PROVE Same
  <2>1. /\ \A v \in Handlers : v # h => req'[v] = req[v]
        /\ req'[h].pc = pc /\ req'[h].file = req[h].file /\ req'[h].job = req[h].job
    BY <1>0, <1>3, RequestMoves, RequestKeeps
  <2>2. QED
    BY <1>1, <1>3, <2>1
<1>4. ASSUME NEW h \in Handlers, NEW pc, NEW p, NEW f, NEW j, NEW kind, NEW size,
             Accept(h, pc, p, f, j, kind, size), pc \notin JobPCs
      PROVE  Same
  BY <1>0, <1>1, <1>4, RequestMoves
<1>5. ASSUME NEW h \in Handlers, RetryStart(h) PROVE Same \/ New
  <2>1. PICK p \in Principals, j \in JobIds :
          jobs[j] # None /\ Accept(h, "r_queued", p, jobs[j].file, j, "image", 0)
    BY <1>5 DEF RetryStart
  <2>2. req' = [req EXCEPT ![h] = [pc |-> "r_queued", who |-> p, file |-> jobs[j].file, job |-> j,
                                   kind |-> "image", size |-> 0, etag |-> "differ"]]
    BY <2>1 DEF Accept
  <2>3. /\ \A v \in Handlers : v # h => req'[v] = req[v]
        /\ req'[h].file = jobs[j].file /\ req'[h].job = j
    BY <1>0, <2>2
  <2>4. UNCHANGED <<jobs, issued>> /\ j \in issued
    BY <1>5, <2>1 DEF RetryStart, storeVars, MessageInv
  <2>5. QED
    BY <1>1, <2>1, <2>3, <2>4
<1>6. ASSUME NEW h \in Handlers, CompleteJob(h) PROVE Same \/ New
  <2>1. CASE Return(h)
    BY <1>2, <2>1
  <2>2. ASSUME NEW j \in JobIds \ issued, CreateJob(j, req[h].file), issued' = issued \cup {j},
               req' = [req EXCEPT ![h] = [@ EXCEPT !.pc = "pend", !.job = j]]
        PROVE  Same \/ New
    <3> DEFINE new == [req[h] EXCEPT !.pc = "pend", !.job = j]
    <3>1. new.job = j /\ new.file = req[h].file
      BY <1>0 DEF Request
    <3>2. req' = [req EXCEPT ![h] = new]
      BY <2>2
    <3> HIDE DEF new
    <3>3. /\ \A v \in Handlers : v # h => req'[v] = req[v]
          /\ req'[h].file = req[h].file /\ req'[h].job = j
      BY <1>0, <3>1, <3>2
    <3>4. jobs'[j].file = req[h].file /\ jobs'[j] \in JobRow
      BY <1>0, <1>6, <2>2 DEF CreateJob, JobsTypeOK, JobRow, JobStatus, CompleteJob
    <3>5. QED
      BY <1>1, <2>2, <3>3, <3>4, NoneAssumption
  <2>3. QED
    BY <1>6, <2>1, <2>2 DEF CompleteJob
<1>7. ASSUME NEW h \in Handlers, CompleteStat(h) PROVE Same
  <2>1. CASE Return(h) \/ Goto(h, "c_drop")
    BY <1>2, <1>3, <2>1 DEF JobPCs
  <2>2. ASSUME NEW size, NEW etag,
               req' = [req EXCEPT ![h] = [@ EXCEPT !.pc = "c_head", !.size = size, !.etag = etag]]
        PROVE  Same
    <3> DEFINE new == [req[h] EXCEPT !.pc = "c_head", !.size = size, !.etag = etag]
    <3>1. new.pc = "c_head"
      BY <1>0 DEF Request
    <3>2. req' = [req EXCEPT ![h] = new]
      BY <2>2
    <3> HIDE DEF new
    <3>3. req'[h].pc = "c_head" /\ \A v \in Handlers : v # h => req'[v] = req[v]
      BY <1>0, <3>1, <3>2
    <3>4. QED
      BY <1>1, <3>3 DEF JobPCs
  <2>3. QED
    BY <1>7, <2>1, <2>2 DEF CompleteStat
<1>8. ASSUME NEW h \in Handlers,
             \/ RetryQueued(h) \/ MarkPending(h) \/ EnqueueOK(h) \/ EnqueueFails(h)
             \/ UndoJob(h) \/ UndoFile(h) \/ Abort(h)
             \/ CompleteDrop(h) \/ CompleteHead(h) \/ RejectObject(h) \/ RejectRow(h)
             \/ CompleteCharge(h) \/ CompleteReady(h)
             \/ PresignCreate(h) \/ DeleteObjects(h) \/ DeleteRow(h) \/ DeleteRefund(h)
      PROVE  Same
  <2>1. Return(h) \/ \E pc : Goto(h, pc) /\ (pc \in JobPCs => req[h].pc \in JobPCs)
    BY <1>8 DEF RetryQueued, MarkPending, EnqueueOK, EnqueueFails, UndoJob, UndoFile, Abort,
       CompleteDrop, CompleteHead, RejectObject, RejectRow, CompleteCharge, CompleteReady,
       PresignCreate, DeleteObjects, DeleteRow, DeleteRefund, GotoIf, JobPCs
  <2>2. QED
    BY <1>2, <1>3, <2>1
<1>9. ASSUME NEW h \in Handlers, PresignCheck(h) \/ CompleteStart(h) \/ DeleteStart(h) PROVE Same
  <2>1. \E pc, p, f, j, kind, size : Accept(h, pc, p, f, j, kind, size) /\ pc \notin JobPCs
    BY <1>9 DEF PresignCheck, CompleteStart, DeleteStart, JobPCs
  <2>2. QED
    BY <1>4, <2>1
<1>10. ASSUME NEW f \in FileIds, Put(f) PROVE Same
  BY <1>1, <1>10 DEF Put
<1>11. CASE UNCHANGED uploadsVars
  BY <1>1, <1>11 DEF uploadsVars, baseVars
<1> HIDE DEF Same, New
<1>12. QED
  BY <1>5, <1>6, <1>7, <1>8, <1>9, <1>10, <1>11
     DEF UploadsNext, PresignStep, CompleteStep, DeleteStep, JobsStep

\* What a request adds to the stream is vouched for, and stays so.
LEMMA RequestsKeepMessages ==
  ASSUME TypeOK, TypeOK', LedgerInv, MessageInv, RowsKept, [UploadsNext]_uploadsVars
  PROVE  MessageInv'
<1>0. StreamTypeOK /\ StreamTypeOK' /\ JobsTypeOK'
  BY DEF TypeOK, BaseTypeOK
<1>1. \A e \in Entries : Vouched(stream[e])'
  <2> SUFFICES ASSUME NEW e \in Entries PROVE Vouched(stream[e])'
    OBVIOUS
  <2>1. PICK m \in Message : m = stream[e]
    BY <1>0 DEF StreamTypeOK, Entries
  <2>2. Vouched(m)'
    BY <2>1, VouchedKept DEF MessageInv
  <2>3. stream'[e] = m
    BY <1>0, <2>1, StreamGrows
  <2>4. QED
    BY <2>2, <2>3 DEF Vouched
<1>2. ASSUME NEW h \in Handlers, req[h].pc = "enq", Enqueue(req[h].job, req[h].file)
      PROVE  \A e \in Entries' : Vouched(stream[e])'
  <2>1. PICK m \in Message : m = [job |-> req[h].job, file |-> req[h].file]
    BY <1>2 DEF TypeOK, BaseTypeOK, ReqTypeOK, Message
  <2>2. m.job = req[h].job /\ m.file = req[h].file
    BY <2>1
  <2>3. Vouched(m)
    BY <1>2, <2>2 DEF Vouched, LedgerInv, MessageInv, PastCharge, JobPCs
  <2>4. Vouched(m)'
    BY <2>3, VouchedKept
  <2>5. \A e \in Entries' : e \in Entries \/ stream'[e] = m
    BY <1>0, <1>2, <2>1 DEF Enqueue, Entries, StreamTypeOK
  <2>6. QED
    BY <1>1, <2>4, <2>5 DEF Vouched
<1>3. \A e \in Entries' : Vouched(stream[e])'
  <2>1. CASE UNCHANGED stream
    BY <1>1, <2>1 DEF Entries
  <2>2. QED
    BY <1>2, <2>1, RequestsAppend
<1>4. ASSUME NEW h \in Handlers, req'[h].pc \in JobPCs
      PROVE  req'[h].job \in issued' /\ (jobs'[req'[h].job] # None => jobs'[req'[h].job].file = req'[h].file)
  <2>1. CASE req[h].pc \in JobPCs /\ req'[h].job = req[h].job /\ req'[h].file = req[h].file
    <3>1. PICK m \in Message : m.job = req[h].job /\ m.file = req[h].file
      <4>1. [job |-> req[h].job, file |-> req[h].file] \in Message
        BY <2>1 DEF TypeOK, BaseTypeOK, ReqTypeOK, Message, JobPCs
      <4>2. QED
        BY <4>1
    <3>2. Vouched(m)
      BY <2>1, <3>1 DEF Vouched, LedgerInv, MessageInv, PastCharge, JobPCs
    <3>3. Vouched(m)'
      BY <3>2, VouchedKept
    <3>4. QED
      BY <2>1, <3>1, <3>3 DEF Vouched
  <2>2. QED
    BY <1>4, <2>1, RequestsAreFor
<1>5. \A j \in JobIds : jobs'[j] # None => j \in issued'
  BY DEF MessageInv, RowsKept, JobKept, JobMade
<1>6. QED
  BY <1>3, <1>4, <1>5 DEF MessageInv

\* A report changes rows that are paid for, and makes none.
LEMMA ReportsKeepLedger ==
  ASSUME SystemTypeOK, SystemTypeOK', GroupInv, RefundInv, LedgerInv, MessageInv,
         ProcessorNext, UNCHANGED ghostVars
  PROVE  RefundInv' /\ LedgerInv' /\ MessageInv' /\ RowsKept
<1>0. /\ TypeOK /\ TypeOK' /\ charged \in [FileIds -> Nat]
      /\ FilesTypeOK /\ JobsTypeOK /\ StreamTypeOK /\ req \in [Handlers -> Request]
      /\ \A h \in Handlers : req[h].pc \notin {"idle", "p_create"} => req[h].file \in FileIds
      /\ \A h \in Handlers : req[h].pc \in JobPCs => req[h].job \in JobIds
  BY DEF SystemTypeOK, TypeOK, BaseTypeOK, ReqTypeOK, JobPCs
<1>1. UNCHANGED <<issued, stream, req, charged, refunds>>
  BY WorkersLeaveRows DEF ghostVars
<1>2. \A f \in FileIds : charged'[f] >= charged[f]
  BY <1>0, <1>1
<1>3. CASE UNCHANGED <<files, jobs>>
  <2>1. RefundInv'
    BY <1>1, <1>3 DEF RefundInv, HasRow, Refunding
  <2>2. LedgerInv'
    BY <1>1, <1>3 DEF LedgerInv, HasRow, Paid, Completed
  <2>3. MessageInv'
    BY <1>1, <1>3 DEF MessageInv, Vouched, HasRow, Paid, Entries
  <2>4. RowsKept
    BY <1>1, <1>2, <1>3 DEF RowsKept, FileKept, JobKept, HasRow
  <2>5. QED
    BY <2>1, <2>2, <2>3, <2>4
<1>4. ASSUME NEW w \in Workers, FinishStep(w)
      PROVE  RefundInv' /\ LedgerInv' /\ MessageInv' /\ RowsKept
  <2>1. PICK e \in Entries, f \in FileIds, j \in JobIds :
          /\ finish[w].pc # "none" /\ finish[w].msg = stream[e]
          /\ finish[w].msg.file = f /\ finish[w].msg.job = j
    BY <1>4, ReportFinds
  <2>2. HasRow(f) => Paid(f)
    BY <2>1 DEF MessageInv, Vouched
  <2>3. /\ \A g \in FileIds : HasRow(g)' <=> HasRow(g)
        /\ \A g \in FileIds : g # f => files'[g] = files[g]
        /\ HasRow(f) => /\ files'[f].size = files[f].size
                        /\ files'[f].variants \in {files[f].variants, VariantNames}
        /\ \A i \in JobIds : jobs'[i] # None => jobs[i] # None /\ jobs'[i].file = jobs[i].file
        /\ \A i \in JobIds : jobs'[i] # None => \/ jobs'[i].status = jobs[i].status
                                                \/ i = j /\ jobs'[i].status = "failed"
                                                \/ /\ i = j /\ jobs'[i].status = "succeeded"
                                                   /\ finish[w].pc = "job_ok"
    BY <1>4, <2>1, ReportsKeepRows
  <2>4. RowsKept
    <3>1. \A i \in JobIds : jobs'[i] # None => JobKept(i)
      BY <2>1, <2>3 DEF JobKept, Succeeding
    <3>2. \A g \in FileIds : HasRow(g)' => FileKept(g)
      BY <2>3 DEF FileKept, HasRow
    <3>3. QED
      BY <1>1, <1>2, <3>1, <3>2 DEF RowsKept
  <2>5. RefundInv'
    BY <1>1, <2>3 DEF RefundInv, Refunding
  <2>6. \A g \in FileIds : HasRow(g) => (Paid(g)' <=> Paid(g))
    BY <1>1, <2>3 DEF Paid, HasRow
  <2>7. LedgerInv'
    <3>1. \A i \in JobIds : jobs'[i] # None => HasRow(jobs[i].file)'
      BY <1>0, <2>3 DEF LedgerInv, JobsTypeOK, JobRow
    <3>2. \A g \in FileIds : Completed(g)' => Paid(g)'
      <4>1. \A g \in FileIds : g # f /\ Completed(g)' => Completed(g)
        BY <2>3 DEF Completed
      <4>2. QED
        BY <2>2, <2>3, <2>6, <4>1 DEF LedgerInv, Completed
    <3>3. \A h \in Handlers : req[h].pc \in PastCharge => (HasRow(req[h].file)' => Paid(req[h].file)')
      <4> SUFFICES ASSUME NEW h \in Handlers, req[h].pc \in PastCharge
                   PROVE  HasRow(req[h].file)' => Paid(req[h].file)'
        OBVIOUS
      <4>1. PICK g \in FileIds : g = req[h].file
        BY <1>0 DEF PastCharge, JobPCs
      <4>2. HasRow(g)' => Paid(g)'
        BY <2>3, <2>6, <4>1 DEF LedgerInv
      <4>3. QED
        BY <1>1, <4>1, <4>2 DEF HasRow, Paid
    <3>4. QED
      BY <1>1, <2>3, <3>1, <3>2, <3>3 DEF LedgerInv, HasRow, Paid
  <2>8. MessageInv'
    <3>1. \A d \in Entries : Vouched(stream[d])'
      <4> SUFFICES ASSUME NEW d \in Entries PROVE Vouched(stream[d])'
        OBVIOUS
      <4>1. PICK m \in Message : m = stream[d]
        BY <1>0 DEF StreamTypeOK, Entries
      <4>2. Vouched(m)'
        BY <1>0, <2>4, <4>1, VouchedKept DEF MessageInv
      <4>3. QED
        BY <1>1, <4>1, <4>2 DEF Vouched
    <3>2. \A h \in Handlers : req[h].pc \in JobPCs /\ jobs'[req[h].job] # None =>
            jobs'[req[h].job].file = req[h].file
      BY <1>0, <2>3 DEF MessageInv
    <3>3. QED
      BY <1>1, <2>3, <3>1, <3>2 DEF MessageInv, Entries
  <2>9. QED
    BY <2>4, <2>5, <2>7, <2>8
<1>5. QED
  BY <1>3, <1>4, WorkersLeaveRows

-----------------------------------------------------------------------------
(* A job that says it succeeded has its variants on the page.              *)

(* Between its two UPDATEs a report relies on the first one: the variants  *)
(* it wrote are still there when it makes the job a success, or their file *)
(* is gone and the job with it.                                            *)
PublishInv ==
    /\ SucceededIsPublished
    /\ \A w \in Workers : finish[w].pc = "job_ok" /\ HasRow(finish[w].msg.file) =>
          files[finish[w].msg.file].variants = VariantNames

LEMMA ReportsPublish ==
  ASSUME SystemTypeOK, GroupInv, ProcessorNext, NEW w \in Workers, finish'[w].pc = "job_ok"
  PROVE  /\ finish[w].pc # "none" /\ finish'[w].msg = finish[w].msg
         /\ finish[w].pc # "job_ok" => FinishVariants(w)
<1>0. FinishTypeOK
  BY DEF SystemTypeOK, FinishTypeOK
<1>1. finish'[w] = finish[w] => finish'[w].msg = finish[w].msg /\ finish[w].pc = "job_ok"
  OBVIOUS
<1>2. ASSUME NEW v \in Workers, ClaimIdle(v) \/ ReadGroup(v) \/ AckProcessed(v) \/ AddToDlq(v)
             \/ AckFailed(v) \/ GetImage(v) \/ PutVariants(v) \/ Crash(v) \/ LoseReply(v)
      PROVE  finish'[w] = finish[w]
  BY <1>2 DEF ClaimIdle, ReadGroup, AckProcessed, AddToDlq, AckFailed, GetImage, PutVariants,
              PutVariant, Crash, LoseReply
<1>3. ASSUME NEW v \in Workers, SendFinish(v) PROVE finish'[w] = finish[w]
  <2>1. PICK report : finish' = [finish EXCEPT ![v] =
                         [pc |-> "get_job", msg |-> stream[EntryOf(v)], report |-> report]]
    BY <1>3 DEF SendFinish
  <2>2. QED
    BY <1>0, <2>1 DEF FinishTypeOK
<1>4. ASSUME NEW v \in Workers, GetReply(v) PROVE finish'[w] = finish[w]
  BY <1>0, <1>4 DEF GetReply, FinishTypeOK, NoFinish
<1>5. ASSUME NEW v \in Workers, FinishStep(v)
      PROVE  /\ finish[w].pc # "none" /\ finish'[w].msg = finish[w].msg
             /\ finish[w].pc # "job_ok" => FinishVariants(w)
  <2>1. CASE w # v
    <3>1. \E pc \in FinishPCs : ToFinish(v, pc)
      BY <1>5 DEF FinishStep, FinishGetJob, FinishVariants, FinishSucceeded, FinishJobFailed,
                  FinishFileFailed, FinishAborts, FinishPCs
    <3>2. finish'[w] = finish[w]
      BY <1>0, <2>1, <3>1, ToFinishTyped
    <3>3. QED
      BY <1>1, <3>2
  <2>2. CASE w = v
    <3>1. finish[w].pc # "none" /\ \E pc \in FinishPCs : ToFinish(w, pc) /\ (pc = "job_ok" => FinishVariants(w))
      BY <1>5, <2>2 DEF FinishStep, FinishGetJob, FinishVariants, FinishSucceeded, FinishJobFailed,
                  FinishFileFailed, FinishAborts, FinishPCs
    <3>2. QED
      BY <1>0, <3>1, ToFinishTyped
  <2>3. QED
    BY <2>1, <2>2
<1>6. CASE IdleStep
  BY <1>1, <1>6 DEF IdleStep, Elapse
<1>7. QED
  BY <1>1, <1>2, <1>3, <1>4, <1>5, <1>6 DEF ProcessorNext, QueueStep, ImageStep, FailStep

LEMMA PublishKept ==
  ASSUME SystemTypeOK, GroupInv, RefundInv, LedgerInv, LedgerInv', MessageInv, PublishInv, RowsKept,
         \A w \in Workers : finish'[w].pc = "job_ok" =>
            /\ finish[w].pc # "none" /\ finish'[w].msg = finish[w].msg
            /\ finish[w].pc # "job_ok" => FinishVariants(w)
  PROVE  PublishInv'
<1>0. /\ JobsTypeOK /\ FilesTypeOK
      /\ \A f \in FileIds : HasRow(f) => f \in issued
  BY DEF SystemTypeOK, TypeOK, BaseTypeOK, RefundInv
<1>1. ASSUME NEW w \in Workers, finish[w].pc # "none"
      PROVE  \E f \in FileIds \cap issued : finish[w].msg.file = f
  BY <1>1, ReportTyped DEF GroupInv, MessageInv, Vouched
<1>2. ASSUME NEW f \in FileIds, HasRow(f)', f \in issued, files[f].variants = VariantNames
      PROVE  files'[f].variants = VariantNames
  BY <1>2 DEF RowsKept, FileKept
<1>3. ASSUME NEW j \in JobIds, jobs'[j] # None, jobs'[j].status = "succeeded"
      PROVE  files'[jobs'[j].file].variants = VariantNames
  <2>1. JobKept(j)
    BY <1>3 DEF RowsKept, JobMade
  <2>2. PICK f \in FileIds : f = jobs[j].file
    BY <1>0, <2>1 DEF JobsTypeOK, JobRow, JobKept
  <2>3. jobs[j] # None /\ jobs'[j].file = f
    BY <2>1, <2>2 DEF JobKept
  <2>4. HasRow(f) /\ f \in issued /\ HasRow(f)'
    BY <1>0, <1>3, <2>2, <2>3 DEF LedgerInv, HasRow
  <2>5. CASE jobs[j].status = "succeeded"
    BY <1>2, <2>2, <2>3, <2>4, <2>5 DEF PublishInv, SucceededIsPublished
  <2>6. ASSUME NEW w \in Workers, finish[w].pc = "job_ok", finish[w].msg.job = j
        PROVE  files'[f].variants = VariantNames
    <3>1. finish[w].msg.file = f
      BY <2>2, <2>3, <2>6 DEF GroupInv, MessageInv, Vouched
    <3>2. QED
      BY <1>2, <2>4, <2>6, <3>1 DEF PublishInv
  <2>7. QED
    BY <1>3, <2>1, <2>3, <2>5, <2>6 DEF JobKept, Succeeding
<1>4. ASSUME NEW w \in Workers, finish'[w].pc = "job_ok", HasRow(finish[w].msg.file)'
      PROVE  files'[finish'[w].msg.file].variants = VariantNames
  <2>1. finish[w].pc # "none" /\ finish'[w].msg = finish[w].msg
    BY <1>4
  <2>2. PICK f \in FileIds \cap issued : finish[w].msg.file = f
    BY <1>1, <2>1
  <2>3. HasRow(f)' /\ finish'[w].msg.file = f
    BY <1>4, <2>1, <2>2 DEF HasRow
  <2>4. CASE finish[w].pc = "job_ok"
    <3>1. HasRow(f)
      BY <2>2, <2>3 DEF RowsKept, FileKept
    <3>2. QED
      BY <1>2, <2>2, <2>3, <2>4, <3>1 DEF PublishInv
  <2>5. CASE FinishVariants(w)
    <3> DEFINE row == [files[f] EXCEPT !.variants = VariantNames, !.status = "ready"]
    <3>1. HasRow(f) => row.variants = VariantNames
      BY <1>0 DEF FilesTypeOK, FileRow, HasRow
    <3>2. files' = IF files[f] = None THEN files ELSE [files EXCEPT ![f] = row]
      BY <2>2, <2>5 DEF FinishVariants, UpdateVariants, UpdateRow
    <3> HIDE DEF row
    <3>3. QED
      BY <1>0, <2>3, <3>1, <3>2 DEF FilesTypeOK, HasRow
  <2>6. QED
    BY <1>4, <2>4, <2>5
<1>5. QED
  BY <1>3, <1>4 DEF PublishInv, SucceededIsPublished

-----------------------------------------------------------------------------
(* The system as a whole.                                                  *)

SystemInv ==
    SystemTypeOK /\ GroupInv /\ RefundInv /\ LedgerInv /\ MessageInv /\ PublishInv

LEMMA InitSystemInv == SystemInit => SystemInv
<1> SUFFICES ASSUME SystemInit PROVE SystemInv
  OBVIOUS
<1>1. SystemTypeOK /\ GroupInv /\ RefundInv /\ LedgerInv
  BY InitSystem, InitRefund, InitLedger DEF SystemInit
<1>2. MessageInv
  BY DEF SystemInit, UploadsInit, BaseInit, MessageInv, Entries, IdleReq, JobPCs
<1>3. PublishInv
  BY DEF SystemInit, UploadsInit, BaseInit, GroupInit, PublishInv, SucceededIsPublished, NoFinish
<1>4. QED
  BY <1>1, <1>2, <1>3 DEF SystemInv

LEMMA NextSystemInv == SystemInv /\ [SystemNext]_systemVars => SystemInv' /\ RowsKept
<1> SUFFICES ASSUME SystemInv, [SystemNext]_systemVars PROVE SystemInv' /\ RowsKept
  OBVIOUS
<1>1. SystemTypeOK' /\ GroupInv' /\ TypeOK /\ TypeOK'
  BY NextSystem DEF SystemInv, SystemTypeOK
<1>2. CASE [UploadsNext]_uploadsVars /\ UNCHANGED processorVars
  <2>1. RefundInv' /\ LedgerInv' /\ RowsKept
    BY <1>1, <1>2, NextRefund, NextLedger, RequestsKeepRows DEF SystemInv
  <2>2. MessageInv'
    BY <1>1, <1>2, <2>1, RequestsKeepMessages DEF SystemInv
  <2>3. PublishInv'
    BY <1>2, <2>1, PublishKept DEF SystemInv, processorVars
  <2>4. QED
    BY <1>1, <2>1, <2>2, <2>3 DEF SystemInv
<1>3. CASE ProcessorNext /\ UNCHANGED ghostVars
  <2>1. RefundInv' /\ LedgerInv' /\ MessageInv' /\ RowsKept
    BY <1>1, <1>3, ReportsKeepLedger DEF SystemInv
  <2>2. PublishInv'
    BY <1>3, <2>1, ReportsPublish, PublishKept DEF SystemInv
  <2>3. QED
    BY <1>1, <2>1, <2>2 DEF SystemInv
<1>4. QED
  BY <1>2, <1>3 DEF SystemNext, systemVars

LEMMA SystemInvariant == SystemSpec => []SystemInv
<1>1. SystemInv /\ [SystemNext]_systemVars => SystemInv'
  BY NextSystemInv
<1>2. QED
  BY <1>1, InitSystemInv, PTL DEF SystemSpec

(* A job is shown as succeeded only once its file lists the variants,      *)
(* although a report writes the two rows one after the other, other        *)
(* reports and requests run between the two, and any of the calls may be   *)
(* the last one.                                                           *)
THEOREM SuccessIsPublished == SystemSpec => []SucceededIsPublished
<1>1. SystemInv => SucceededIsPublished
  BY DEF SystemInv, PublishInv
<1>2. QED
  BY <1>1, SystemInvariant, PTL

(* With the workers' reports under way as well, every file that says ready *)
(* or failed, and every file with a job, is one whose bytes were charged.  *)
THEOREM SystemPays == SystemSpec => []CompletedIsCharged
<1>1. SystemInv => CompletedIsCharged
  BY DEF SystemInv, LedgerInv, CompletedIsCharged, Paid
<1>2. QED
  BY <1>1, SystemInvariant, PTL

(* However many deletes race with the workers' reports, at most one gives  *)
(* the bytes of the file back.                                             *)
THEOREM SystemRefundsOnce == SystemSpec => []RefundOnce
<1>1. SystemInv => RefundOnce
  BY DEF SystemInv, RefundInv, RefundOnce
<1>2. QED
  BY <1>1, SystemInvariant, PTL

(* A deleted file stays deleted in the whole system: a report that arrives *)
(* after the delete, or that was being served during it, finds no row, and *)
(* no job outlives its file.                                               *)
THEOREM SystemDeletesForGood == SystemSpec => NothingOutlivesDelete
<1>1. SystemInv /\ SystemInv' /\ RowsKept =>
        \A f \in FileIds : f \in issued /\ ~HasRow(f) =>
            /\ ~HasRow(f)'
            /\ \A j \in JobIds : (jobs[j] # None)' => (jobs[j].file # f)'
  BY DEF RowsKept, FileKept, SystemInv, LedgerInv, HasRow
<1>2. SystemInv /\ SystemInv' /\ [SystemNext]_systemVars =>
        \A f \in FileIds : f \in issued /\ ~HasRow(f) =>
            /\ ~HasRow(f)'
            /\ \A j \in JobIds : (jobs[j] # None)' => (jobs[j].file # f)'
  BY <1>1, NextSystemInv
<1>3. QED
  BY <1>2, SystemInvariant, PTL DEF SystemSpec, NothingOutlivesDelete

\* A report changes no owner and no kind.
LEMMA ReportsKeepOwner ==
  ASSUME SystemInv, NEW w \in Workers, FinishStep(w), NEW f \in FileIds, HasRow(f)'
  PROVE  HasRow(f) /\ files'[f].owner = files[f].owner /\ files'[f].kind = files[f].kind
<1> DEFINE Same == HasRow(f) /\ files'[f].owner = files[f].owner /\ files'[f].kind = files[f].kind
<1>1. FilesTypeOK /\ SystemTypeOK /\ GroupInv
  BY DEF SystemInv, SystemTypeOK, TypeOK, BaseTypeOK
<1>2. PICK g \in FileIds : g = finish[w].msg.file
  BY <1>1, ReportFinds
<1>3. UNCHANGED files \/ SetFileStatus(g, "failed") \/ UpdateVariants(g)
  <2>1. /\ SetFileStatus(finish[w].msg.file, "failed") => SetFileStatus(g, "failed")
        /\ UpdateVariants(finish[w].msg.file) => UpdateVariants(g)
    BY <1>2
  <2>2. QED
    BY <2>1 DEF FinishStep, FinishGetJob, FinishVariants, FinishSucceeded, FinishJobFailed,
       FinishFileFailed, FinishAborts
<1>4. ASSUME NEW row, HasRow(g) => row.owner = files[g].owner /\ row.kind = files[g].kind,
             UpdateRow(g, row)
      PROVE  Same
  BY <1>1, <1>4 DEF UpdateRow, FilesTypeOK, HasRow
<1>5. ASSUME SetFileStatus(g, "failed") PROVE Same
  <2> DEFINE row == [files[g] EXCEPT !.status = "failed"]
  <2>1. HasRow(g) => row.owner = files[g].owner /\ row.kind = files[g].kind
    BY <1>1 DEF FilesTypeOK, FileRow, HasRow
  <2>2. UpdateRow(g, row)
    BY <1>5 DEF SetFileStatus
  <2> HIDE DEF row
  <2>3. QED
    BY <1>4, <2>1, <2>2
<1>6. ASSUME UpdateVariants(g) PROVE Same
  <2> DEFINE row == [files[g] EXCEPT !.variants = VariantNames, !.status = "ready"]
  <2>1. HasRow(g) => row.owner = files[g].owner /\ row.kind = files[g].kind
    BY <1>1 DEF FilesTypeOK, FileRow, HasRow
  <2>2. UpdateRow(g, row)
    BY <1>6 DEF UpdateVariants
  <2> HIDE DEF row
  <2>3. QED
    BY <1>4, <2>1, <2>2
<1>7. UNCHANGED files => Same
  BY DEF HasRow
<1> HIDE DEF Same
<1>8. Same
  BY <1>3, <1>5, <1>6, <1>7
<1>9. QED
  BY <1>8 DEF Same

\* No step of the processor touches quota, charges or requests.
LEMMA NextSystemSpent ==
  SystemInv /\ SystemInv' /\ SpentInv /\ [SystemNext]_systemVars => SpentInv'
<1> SUFFICES ASSUME SystemInv, SystemInv', SpentInv, [SystemNext]_systemVars PROVE SpentInv'
  OBVIOUS
<1>1. TypeOK /\ TypeOK' /\ RefundInv /\ LedgerInv
  BY DEF SystemInv, SystemTypeOK
<1>2. CASE [UploadsNext]_uploadsVars
  BY <1>1, <1>2, NextSpent
<1>3. CASE ProcessorNext /\ UNCHANGED ghostVars
  <2>1. UNCHANGED <<quota, issued, req, charged, refunds>>
    BY <1>3, WorkersLeaveRows DEF ghostVars
  <2>2. \A f \in FileIds : HasRow(f)' => HasRow(f) /\ files'[f].owner = files[f].owner
    <3>1. CASE UNCHANGED files
      BY <3>1 DEF HasRow
    <3>2. CASE \E w \in Workers : FinishStep(w)
      BY <3>2, ReportsKeepOwner
    <3>3. QED
      BY <1>3, <3>1, <3>2, WorkersLeaveRows
  <2>3. UNCHANGED <<quota, Balance>>
    BY <2>1 DEF Balance, TotalRefunded
  <2>4. \A h \in Handlers : req'[h].file = req[h].file /\ req'[h].who = req[h].who
                            /\ req'[h].pc = req[h].pc
    BY <2>1
  <2>5. /\ issued \subseteq issued' /\ IsFiniteSet(issued')
        /\ \A f \in FileIds \ issued : charged'[f] = 0
    BY <2>1 DEF SpentInv
  <2>6. QED
    BY <1>1, <2>2, <2>3, <2>4, <2>5, SpentMoves
<1>4. QED
  BY <1>2, <1>3 DEF SystemNext, systemVars

(* No order of uploads, deletes, reports and failures takes a quota over   *)
(* its limit in the whole system either: the workers, which make objects   *)
(* of their own, call nothing that writes it.                              *)
THEOREM SystemKeepsLimit == SystemSpec => []UsedWithinLimit
<1>1. SystemInit => UsedWithinLimit
  BY MediaAssumption DEF SystemInit, UploadsInit, BaseInit, UsedWithinLimit
<1>2. SystemTypeOK /\ UsedWithinLimit /\ [SystemNext]_systemVars => UsedWithinLimit'
  <2> SUFFICES ASSUME SystemTypeOK, UsedWithinLimit, [SystemNext]_systemVars
               PROVE  UsedWithinLimit'
    OBVIOUS
  <2>1. CASE [UploadsNext]_uploadsVars
    BY <2>1, NextWithinLimit DEF SystemTypeOK
  <2>2. CASE ProcessorNext
    BY <2>2, WorkersLeaveRows DEF UsedWithinLimit
  <2>3. QED
    BY <2>1, <2>2 DEF SystemNext, systemVars
<1>3. QED
  BY <1>1, <1>2, SystemTyping, PTL DEF SystemSpec

(* The workers' reports neither make a file owe more than it was charged   *)
(* nor move it to another subject: the quota covers what is completed in   *)
(* the whole system.                                                       *)
THEOREM SystemQuotaCovers == SystemSpec => []QuotaCoversCompleted
<1>1. SystemInit => SpentInv
  BY InitSpent DEF SystemInit
<1>2. SystemInv /\ SystemInv' /\ SpentInv /\ [SystemNext]_systemVars => SpentInv'
  BY NextSystemSpent
<1>3. SystemInv /\ SpentInv => QuotaCoversCompleted
  BY SpentCovers DEF SystemInv, SystemTypeOK
<1>4. QED
  BY <1>1, <1>2, <1>3, SystemInvariant, PTL DEF SystemSpec
=============================================================================
