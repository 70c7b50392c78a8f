----------------------------- MODULE MCWithdrawal -----------------------------
(***************************************************************************)
(* Small instances of Withdrawal.                                          *)
(***************************************************************************)
EXTENDS Withdrawal, TLC

Symmetry == Permutations(Ids) \cup Permutations(Reqs) \cup Permutations(Users)
=============================================================================
