------------------------------ MODULE MCPgQuota ------------------------------
(* A small instance of PgQuota for TLC: two subjects, three transactions.  *)
EXTENDS PgQuota, TLC

Amounts == {-2, 1, 2}
Symmetric == Permutations(Subjects) \cup Permutations(Clients)
=============================================================================
