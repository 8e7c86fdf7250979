------------------------------- MODULE MCShares -------------------------------
(***************************************************************************)
(* Shares for TLC.  A second is two nanoseconds and an int64 has five      *)
(* bits: 2 seconds are the most a link may last, 3 are too many, 9 wrap to *)
(* a negative TTL and 17 to one second.  One password is the other one     *)
(* with a blank in front of it.                                            *)
(***************************************************************************)
EXTENDS Shares, TLC

MCSeconds == {0, 2, 3, 9, 17}
MCPasswords == {"", "pw", " pw"}
MCTrimmed == [p \in MCPasswords |-> IF p = " pw" THEN "pw" ELSE p]
Symmetric == Permutations(Handlers) \cup Permutations(Tokens) \cup Permutations(Owners)
=============================================================================
