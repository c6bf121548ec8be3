------------------------------ MODULE MCPresence ------------------------------
(***************************************************************************)
(* Presence with a few tasks of two accounts.  Both limits can be met: the *)
(* tasks are more than MaxConnections, which is more than MaxPerAccount.   *)
(***************************************************************************)
EXTENDS Presence, TLC
CONSTANTS a1, a2, s1, s2, s3, s4
TwoAccounts == {a1, a2}
OneAccount == {a1}
FourSessions == {s1, s2, s3, s4}
TwoSessions == {s1, s2}
Symmetry == Permutations(TwoAccounts) \cup Permutations(FourSessions)
===============================================================================
