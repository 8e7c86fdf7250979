------------------------------- MODULE PgQuota -------------------------------
(***************************************************************************)
(* Store.AddQuota of the PostgreSQL store, statement by statement, in READ *)
(* COMMITTED transactions that run at the same time.  INSERT ... ON        *)
(* CONFLICT DO UPDATE makes or rewrites the row of the subject and so      *)
(* holds its lock until the transaction ends: a second transaction on the  *)
(* subject waits there, and then reads what the first one committed.       *)
(***************************************************************************)
EXTENDS Integers

CONSTANTS Subjects, Clients, Deltas, Limit, None

ASSUME PgAssumption ==
    /\ Deltas \subseteq Int
    /\ Limit \in Nat
    /\ None \notin Subjects \cup Clients \cup Nat

VARIABLES
    row,    \* committed user_quota: subject -> used_bytes, None without a row
    lock,   \* subject -> the transaction that holds the row
    tx      \* client -> its call of AddQuota

pgVars == <<row, lock, tx>>

Answers == {"ok", "quota", "error"}
TxPCs == {"none", "begun", "locked", "updated"} \cup Answers
Tx == [pc : TxPCs, subject : Subjects \cup {None}, delta : Deltas \cup {0},
       used : Nat,      \* the local variable used, read by RETURNING
       version : Nat]   \* used_bytes of the row version this transaction wrote
NoTx == [pc |-> "none", subject |-> None, delta |-> 0, used |-> 0, version |-> 0]

RowUsed(s) == IF row[s] = None THEN 0 ELSE row[s]

PgInit ==
    /\ row = [s \in Subjects |-> None]
    /\ lock = [s \in Subjects |-> None]
    /\ tx = [c \in Clients |-> NoTx]

Unlock(c) == lock' = [lock EXCEPT ![tx[c].subject] = IF @ = c THEN None ELSE @]
Finish(c, answer) == tx' = [tx EXCEPT ![c].pc = answer]

Begin(c) ==
    /\ tx[c].pc = "none"
    /\ \E s \in Subjects, delta \in Deltas :
            tx' = [tx EXCEPT ![c] = [pc |-> "begun", subject |-> s, delta |-> delta,
                                     used |-> 0, version |-> 0]]
    /\ UNCHANGED <<row, lock>>

\* Slip: a plain SELECT of used_bytes, which waits for nobody.
SelectUsed(c) ==
    LET s == tx[c].subject IN
    /\ tx[c].pc = "begun"
    /\ tx' = [tx EXCEPT ![c] = [pc |-> "locked", subject |-> s, delta |-> tx[c].delta,
                                used |-> RowUsed(s), version |-> RowUsed(s)]]
    /\ UNCHANGED <<row, lock>>

\* INSERT ... ON CONFLICT DO UPDATE ... RETURNING used_bytes.
Upsert(c) ==
    LET s == tx[c].subject IN
    /\ tx[c].pc = "begun"
    /\ lock[s] = None
    /\ lock' = [lock EXCEPT ![s] = c]
    /\ tx' = [tx EXCEPT ![c] = [pc |-> "locked", subject |-> s, delta |-> tx[c].delta,
                                used |-> RowUsed(s), version |-> RowUsed(s)]]
    /\ UNCHANGED row

\* Slip: the limit is noticed only once it has been reached.
OverLimitLate(c) == tx[c].delta > 0 /\ tx[c].used >= Limit
OverLimit(c) == tx[c].delta > 0 /\ tx[c].used + tx[c].delta > Limit

\* The limit check fails: ErrQuota, and the deferred Rollback undoes the INSERT.
Reject(c) ==
    /\ tx[c].pc = "locked"
    /\ OverLimit(c)
    /\ Unlock(c)
    /\ Finish(c, "quota")
    /\ UNCHANGED row

\* Slip: no GREATEST(0, ..).
UpdateUnfloored(c) ==
    /\ tx[c].pc = "locked"
    /\ ~OverLimit(c)
    /\ tx' = [tx EXCEPT ![c] = [pc |-> "updated", subject |-> tx[c].subject,
                                delta |-> tx[c].delta, used |-> tx[c].used,
                                version |-> tx[c].version + tx[c].delta]]
    /\ UNCHANGED <<row, lock>>

\* UPDATE ... SET used_bytes = GREATEST(0, used_bytes + delta).
Update(c) ==
    LET sum == tx[c].version + tx[c].delta IN
    /\ tx[c].pc = "locked"
    /\ ~OverLimit(c)
    /\ tx' = [tx EXCEPT ![c] = [pc |-> "updated", subject |-> tx[c].subject,
                                delta |-> tx[c].delta, used |-> tx[c].used,
                                version |-> IF sum < 0 THEN 0 ELSE sum]]
    /\ UNCHANGED <<row, lock>>

\* Commit; the answer may be lost after the server has committed.
Commit(c) ==
    /\ tx[c].pc = "updated"
    /\ row' = [row EXCEPT ![tx[c].subject] = tx[c].version]
    /\ Unlock(c)
    /\ Finish(c, "ok") \/ Finish(c, "error")

\* A statement, the connection or the context fails: the server rolls back.
Rollback(c) ==
    /\ tx[c].pc \in {"begun", "locked", "updated"}
    /\ Unlock(c)
    /\ Finish(c, "error")
    /\ UNCHANGED row

Return(c) ==
    /\ tx[c].pc \in Answers
    /\ tx' = [tx EXCEPT ![c] = NoTx]
    /\ UNCHANGED <<row, lock>>

PgNext ==
    \E c \in Clients :
        \/ Begin(c) \/ Upsert(c) \/ Reject(c) \/ Update(c) \/ Commit(c)
        \/ Rollback(c) \/ Return(c)

PgSpec == PgInit /\ [][PgNext]_pgVars

-----------------------------------------------------------------------------
(* Properties                                                              *)

PgTypeOK ==
    /\ row \in [Subjects -> Nat \cup {None}]
    /\ lock \in [Subjects -> Clients \cup {None}]
    /\ tx \in [Clients -> Tx]

(* A transaction past its upsert holds the lock of its subject, so two of  *)
(* them never work on one row, and the row it read is still the committed  *)
(* one: neither the check nor the UPDATE acts on a stale value.            *)
InTransaction(c) == tx[c].pc \in {"locked", "updated"}
LockIsExclusive ==
    \A c \in Clients : InTransaction(c) => lock[tx[c].subject] = c
ReadIsCurrent ==
    \A c \in Clients : InTransaction(c) => tx[c].used = RowUsed(tx[c].subject)
VersionIsRight ==
    \A c \in Clients :
        /\ tx[c].pc = "locked" => tx[c].version = tx[c].used
        /\ tx[c].pc = "updated" =>
              /\ ~OverLimit(c)
              /\ tx[c].version = IF tx[c].used + tx[c].delta < 0 THEN 0
                                 ELSE tx[c].used + tx[c].delta
NamesSubject == \A c \in Clients : tx[c].pc # "none" => tx[c].subject \in Subjects /\ tx[c].delta \in Deltas

PgInv == PgTypeOK /\ NamesSubject /\ LockIsExclusive /\ ReadIsCurrent /\ VersionIsRight

\* No subject is ever over the limit, whatever transactions run at the same time.
CommittedWithinLimit == \A s \in Subjects : RowUsed(s) <= Limit

(* AddQuota keeps the promise of QuotaLedger: the upsert, the check, the   *)
(* update and the commit act as one step.                                  *)
LedgerState(pc) == IF pc \in {"begun", "locked", "updated"} THEN "open" ELSE pc
usedBar == [s \in Subjects |-> RowUsed(s)]
callBar == [c \in Clients |-> [state |-> LedgerState(tx[c].pc), subject |-> tx[c].subject,
                               delta |-> tx[c].delta]]
Ledger == INSTANCE QuotaLedger WITH used <- usedBar, call <- callBar
ImplementsLedger == Ledger!LedgerSpec
=============================================================================
