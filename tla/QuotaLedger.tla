----------------------------- MODULE QuotaLedger -----------------------------
(***************************************************************************)
(* What domain.Store promises of AddQuota: each call takes effect at one   *)
(* instant between its start and its answer, or not at all; it never takes *)
(* a subject over the limit, and a refusal is justified by the bytes in    *)
(* use at that instant.  An error leaves open which of the two it was.     *)
(***************************************************************************)
EXTENDS Integers

CONSTANTS
    Subjects,   \* quota subjects
    Clients,    \* requests calling AddQuota at the same time
    Deltas,     \* the amounts they add: positive, negative or zero
    Limit,      \* the limit each call passes
    None

VARIABLES
    used,   \* subject -> bytes in use
    call    \* client -> its call of AddQuota, with the answer once there is one

ledgerVars == <<used, call>>

Outcomes == {"ok", "quota", "error"}
Call == [state : {"none", "open"} \cup Outcomes, subject : Subjects \cup {None},
         delta : Deltas \cup {0}]
NoCall == [state |-> "none", subject |-> None, delta |-> 0]

Added(n, delta) == IF n + delta < 0 THEN 0 ELSE n + delta
Exceeds(n, delta) == delta > 0 /\ n + delta > Limit

LedgerInit ==
    /\ used = [s \in Subjects |-> 0]
    /\ call = [c \in Clients |-> NoCall]

Answer(c, outcome) ==
    /\ call[c].state = "open"
    /\ call' = [call EXCEPT ![c].state = outcome]

Ask(c) ==
    /\ call[c].state = "none"
    /\ \E s \in Subjects, delta \in Deltas :
            call' = [call EXCEPT ![c] = [state |-> "open", subject |-> s, delta |-> delta]]
    /\ UNCHANGED used

Apply(c, outcome) ==
    LET s == call[c].subject IN
    /\ call[c].state = "open"
    /\ ~Exceeds(used[s], call[c].delta)
    /\ used' = [used EXCEPT ![s] = Added(@, call[c].delta)]
    /\ Answer(c, outcome)

Refuse(c) ==
    /\ call[c].state = "open"
    /\ Exceeds(used[call[c].subject], call[c].delta)
    /\ Answer(c, "quota")
    /\ UNCHANGED used

Fail(c) == Answer(c, "error") /\ UNCHANGED used

Leave(c) ==
    /\ call[c].state \in Outcomes
    /\ call' = [call EXCEPT ![c] = NoCall]
    /\ UNCHANGED used

LedgerNext ==
    \E c \in Clients :
        Ask(c) \/ Apply(c, "ok") \/ Apply(c, "error") \/ Refuse(c) \/ Fail(c) \/ Leave(c)

LedgerSpec == LedgerInit /\ [][LedgerNext]_ledgerVars
=============================================================================
