---------------------------- MODULE PgQuotaProofs ----------------------------
(***************************************************************************)
(* PgQuota for any number of subjects and transactions: the lock invariant,*)
(* the limit, and the refinement of QuotaLedger.                           *)
(***************************************************************************)
EXTENDS PgQuota, TLAPS

\* The initial state satisfies the invariant.
LEMMA PgInitInv == PgInit => PgInv
  BY PgAssumption DEF PgInit, PgInv, PgTypeOK, NamesSubject, LockIsExclusive, ReadIsCurrent,
     VersionIsRight, InTransaction, NoTx, Tx, TxPCs, Answers

\* Every statement of every transaction preserves the invariant.
LEMMA PgNextInv == PgInv /\ [PgNext]_pgVars => PgInv'
<1> SUFFICES ASSUME PgInv, [PgNext]_pgVars PROVE PgInv'
  OBVIOUS
<1> USE PgAssumption DEF PgInv, PgTypeOK, NamesSubject, LockIsExclusive, ReadIsCurrent,
     VersionIsRight, InTransaction, Tx, TxPCs, Answers, OverLimit, RowUsed
<1>1. ASSUME NEW c \in Clients, Begin(c) PROVE PgInv'
  BY <1>1 DEF Begin
<1>2. ASSUME NEW c \in Clients, Upsert(c) PROVE PgInv'
  BY <1>2 DEF Upsert
<1>3. ASSUME NEW c \in Clients, Reject(c) PROVE PgInv'
  BY <1>3 DEF Reject, Unlock, Finish
<1>4. ASSUME NEW c \in Clients, Update(c) PROVE PgInv'
  <2> DEFINE sum == tx[c].version + tx[c].delta
             new == IF sum < 0 THEN 0 ELSE sum
  <2>1. /\ tx[c].pc = "locked" /\ ~OverLimit(c) /\ UNCHANGED <<row, lock>>
        /\ tx' = [tx EXCEPT ![c] = [pc |-> "updated", subject |-> tx[c].subject,
                                    delta |-> tx[c].delta, used |-> tx[c].used,
                                    version |-> new]]
    BY <1>4 DEF Update
  <2>2. tx[c].version = tx[c].used /\ tx[c].version \in Nat /\ tx[c].delta \in Int
    BY <2>1
  <2>3. new \in Nat
    BY <2>2
  <2>4. new = IF tx[c].used + tx[c].delta < 0 THEN 0 ELSE tx[c].used + tx[c].delta
    BY <2>2
  <2> HIDE DEF new
  <2>5. PgTypeOK' /\ LockIsExclusive' /\ ReadIsCurrent' /\ NamesSubject'
    BY <2>1, <2>3
  <2>6. VersionIsRight'
    BY <2>1, <2>3, <2>4
  <2>7. QED
    BY <2>5, <2>6
<1>5. ASSUME NEW c \in Clients, Commit(c) PROVE PgInv'
  BY <1>5 DEF Commit, Unlock, Finish
<1>6. ASSUME NEW c \in Clients, Rollback(c) PROVE PgInv'
  BY <1>6 DEF Rollback, Unlock, Finish
<1>7. ASSUME NEW c \in Clients, Return(c) PROVE PgInv'
  BY <1>7 DEF Return, NoTx
<1>8. CASE UNCHANGED pgVars
  BY <1>8 DEF pgVars
<1>9. QED
  BY <1>1, <1>2, <1>3, <1>4, <1>5, <1>6, <1>7, <1>8 DEF PgNext

\* PgInv holds of every reachable state.
THEOREM PgInvariance == PgSpec => []PgInv
<1>1. PgInit => PgInv
  BY PgInitInv
<1>2. PgInv /\ [PgNext]_pgVars => PgInv'
  BY PgNextInv
<1>3. QED
  BY <1>1, <1>2, PTL DEF PgSpec

(* No order of AddQuota transactions takes a subject over the limit: the   *)
(* UPDATE writes what the check allowed, because no one else could change  *)
(* the row in between.                                                     *)
THEOREM CommittedLimit == PgSpec => []CommittedWithinLimit
<1>1. PgInit => CommittedWithinLimit
  <2>1. 0 <= Limit
    BY PgAssumption
  <2>2. QED
    BY <2>1 DEF PgInit, CommittedWithinLimit, RowUsed
<1>2. PgInv /\ CommittedWithinLimit /\ [PgNext]_pgVars => CommittedWithinLimit'
  <2> SUFFICES ASSUME PgInv, CommittedWithinLimit, [PgNext]_pgVars
               PROVE  CommittedWithinLimit'
    OBVIOUS
  <2>1. CASE UNCHANGED row
    BY <2>1 DEF CommittedWithinLimit, RowUsed
  <2>2. ASSUME NEW c \in Clients, Commit(c) PROVE CommittedWithinLimit'
    <3> DEFINE s == tx[c].subject
    <3>1. s \in Subjects /\ row' = [row EXCEPT ![s] = tx[c].version] /\ tx[c].version \in Nat
      BY <2>2 DEF Commit, PgInv, NamesSubject, PgTypeOK, Tx
    <3>2. /\ tx[c].pc = "updated" /\ tx[c].used = RowUsed(s) /\ tx[c].used <= Limit
          /\ tx[c].used \in Nat /\ tx[c].delta \in Int
      BY <2>2, <3>1, PgAssumption DEF Commit, PgInv, PgTypeOK, Tx, NamesSubject, ReadIsCurrent,
         InTransaction, CommittedWithinLimit
    <3>3. tx[c].version <= Limit
      BY <3>2, PgAssumption DEF PgInv, VersionIsRight, OverLimit
    <3>4. QED
      BY <3>1, <3>3, PgAssumption DEF CommittedWithinLimit, RowUsed, PgInv, PgTypeOK
  <2>3. QED
    BY <2>1, <2>2 DEF PgNext, pgVars, Begin, Upsert, Reject, Update, Rollback, Return
<1>3. QED
  BY <1>1, <1>2, PgInvariance, PTL DEF PgSpec

-----------------------------------------------------------------------------
\* A transaction that only moves on inside its call is a stutter of the ledger.
LEMMA InsideCall ==
  ASSUME PgInv, NEW c \in Clients, row' = row,
         NEW new \in Tx, tx' = [tx EXCEPT ![c] = new],
         LedgerState(new.pc) = LedgerState(tx[c].pc),
         new.subject = tx[c].subject, new.delta = tx[c].delta
  PROVE  UNCHANGED <<usedBar, callBar>>
  BY DEF PgInv, PgTypeOK, usedBar, callBar, RowUsed

\* What changes in callBar when only the pc of c changes.
LEMMA AnswerBar ==
  ASSUME PgInv, NEW c \in Clients, NEW answer \in Answers, Finish(c, answer),
         tx[c].pc \in {"begun", "locked", "updated"}
  PROVE  Ledger!Answer(c, answer)
<1>1. callBar[c].state = "open"
  BY DEF callBar, LedgerState
<1>2. LedgerState(answer) = answer
  BY DEF LedgerState, Answers
<1>3. tx' = [tx EXCEPT ![c].pc = answer] /\ tx \in [Clients -> Tx]
  BY DEF Finish, PgInv, PgTypeOK
<1>4. callBar' = [callBar EXCEPT ![c].state = answer]
  <2>1. \A d \in Clients : callBar'[d] = [callBar EXCEPT ![c].state = answer][d]
    BY <1>2, <1>3 DEF callBar, Tx
  <2>2. QED
    BY <2>1 DEF callBar
<1>5. QED
  BY <1>1, <1>4 DEF Ledger!Answer

(* AddQuota, statement by statement, is the atomic AddQuota the service    *)
(* relies on: Commit is the instant at which it takes effect, and the      *)
(* failed check the instant at which it is refused.                        *)
THEOREM PgImplementsLedger == PgSpec => ImplementsLedger
<1>1. PgInit => Ledger!LedgerInit
  BY DEF PgInit, Ledger!LedgerInit, usedBar, callBar, Ledger!NoCall, NoTx, RowUsed, LedgerState
<1>2. PgInv /\ [PgNext]_pgVars => [Ledger!LedgerNext]_<<usedBar, callBar>>
  <2> SUFFICES ASSUME PgInv, [PgNext]_pgVars
               PROVE  [Ledger!LedgerNext]_<<usedBar, callBar>>
    OBVIOUS
  <2>1. ASSUME NEW c \in Clients, Begin(c) PROVE Ledger!Ask(c)
    <3>1. PICK s \in Subjects, delta \in Deltas :
            tx' = [tx EXCEPT ![c] = [pc |-> "begun", subject |-> s, delta |-> delta,
                                     used |-> 0, version |-> 0]]
      BY <2>1 DEF Begin
    <3>2. callBar[c].state = "none" /\ usedBar' = usedBar
      BY <2>1 DEF Begin, callBar, LedgerState, usedBar, RowUsed
    <3>3. callBar' = [callBar EXCEPT ![c] = [state |-> "open", subject |-> s, delta |-> delta]]
      BY <3>1 DEF callBar, LedgerState, PgInv, PgTypeOK
    <3>4. QED
      BY <3>2, <3>3 DEF Ledger!Ask
  <2>2. ASSUME NEW c \in Clients, Upsert(c) PROVE UNCHANGED <<usedBar, callBar>>
    <3> DEFINE new == [pc |-> "locked", subject |-> tx[c].subject, delta |-> tx[c].delta,
                       used |-> RowUsed(tx[c].subject), version |-> RowUsed(tx[c].subject)]
    <3>1. new \in Tx /\ tx' = [tx EXCEPT ![c] = new] /\ row' = row /\ tx[c].pc = "begun"
      BY <2>2 DEF Upsert, PgInv, PgTypeOK, NamesSubject, Tx, TxPCs, RowUsed
    <3>2. QED
      BY <3>1, InsideCall DEF LedgerState
  <2>3. ASSUME NEW c \in Clients, Reject(c) PROVE Ledger!Refuse(c)
    <3>1. Ledger!Answer(c, "quota")
      BY <2>3, AnswerBar DEF Reject, Answers
    <3>2. usedBar' = usedBar
      BY <2>3 DEF Reject, usedBar, RowUsed
    <3>3. /\ callBar[c].subject = tx[c].subject /\ callBar[c].delta = tx[c].delta
          /\ usedBar[tx[c].subject] = tx[c].used
      BY <2>3 DEF Reject, callBar, usedBar, PgInv, NamesSubject, ReadIsCurrent, InTransaction
    <3>4. Ledger!Exceeds(usedBar[callBar[c].subject], callBar[c].delta)
      BY <2>3, <3>3 DEF Reject, OverLimit, Ledger!Exceeds
    <3>5. QED
      BY <3>1, <3>2, <3>4 DEF Ledger!Refuse, Ledger!Answer
  <2>4. ASSUME NEW c \in Clients, Update(c) PROVE UNCHANGED <<usedBar, callBar>>
    <3> DEFINE new == [pc |-> "updated", subject |-> tx[c].subject, delta |-> tx[c].delta,
                       used |-> tx[c].used,
                       version |-> IF tx[c].version + tx[c].delta < 0 THEN 0
                                   ELSE tx[c].version + tx[c].delta]
    <3>1. tx' = [tx EXCEPT ![c] = new] /\ row' = row /\ tx[c].pc = "locked"
      BY <2>4 DEF Update
    <3>2. tx[c].version \in Nat /\ tx[c].delta \in Int /\ tx[c] \in Tx
      BY <3>1, PgAssumption DEF PgInv, PgTypeOK, NamesSubject, Tx
    <3>3. new.version \in Nat
      BY <3>2
    <3>4. new \in Tx
      BY <3>2, <3>3 DEF Tx, TxPCs
    <3>5. QED
      BY <3>1, <3>4, InsideCall DEF LedgerState
  <2>5. ASSUME NEW c \in Clients, Commit(c)
        PROVE  Ledger!Apply(c, "ok") \/ Ledger!Apply(c, "error")
    <3>1. Ledger!Answer(c, "ok") \/ Ledger!Answer(c, "error")
      BY <2>5, AnswerBar DEF Commit, Answers
    <3>2. /\ callBar[c].subject = tx[c].subject /\ callBar[c].delta = tx[c].delta
          /\ tx[c].subject \in Subjects
          /\ usedBar[tx[c].subject] = tx[c].used
      BY <2>5 DEF Commit, callBar, usedBar, PgInv, NamesSubject, ReadIsCurrent, InTransaction
    <3>3. ~Ledger!Exceeds(usedBar[callBar[c].subject], callBar[c].delta)
      BY <2>5, <3>2 DEF Commit, PgInv, VersionIsRight, OverLimit, Ledger!Exceeds
    <3>4. tx[c].version = Ledger!Added(usedBar[callBar[c].subject], callBar[c].delta)
      BY <2>5, <3>2 DEF Commit, PgInv, VersionIsRight, Ledger!Added
    <3>5. usedBar' = [usedBar EXCEPT ![tx[c].subject] = tx[c].version]
      BY <2>5, <3>2, PgAssumption DEF Commit, usedBar, RowUsed, PgInv, PgTypeOK, Tx
    <3>6. QED
      BY <3>1, <3>2, <3>3, <3>4, <3>5 DEF Ledger!Apply, Ledger!Answer
  <2>6. ASSUME NEW c \in Clients, Rollback(c) PROVE Ledger!Fail(c)
    <3>1. Ledger!Answer(c, "error")
      BY <2>6, AnswerBar DEF Rollback, Answers
    <3>2. QED
      BY <2>6, <3>1 DEF Rollback, Ledger!Fail, usedBar, RowUsed
  <2>7. ASSUME NEW c \in Clients, Return(c) PROVE Ledger!Leave(c)
    BY <2>7 DEF Return, Ledger!Leave, Ledger!Outcomes, Ledger!NoCall, NoTx, Answers, callBar,
       usedBar, RowUsed, LedgerState, PgInv, PgTypeOK
  <2>8. CASE UNCHANGED pgVars
    BY <2>8 DEF pgVars, usedBar, callBar, RowUsed
  <2>9. QED
    BY <2>1, <2>2, <2>3, <2>4, <2>5, <2>6, <2>7, <2>8 DEF PgNext, Ledger!LedgerNext
<1>3. QED
  BY <1>1, <1>2, PgInvariance, PTL DEF PgSpec, ImplementsLedger, Ledger!LedgerSpec,
     Ledger!ledgerVars
=============================================================================
