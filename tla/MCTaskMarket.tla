---------------------------- MODULE MCTaskMarket ----------------------------
(* Small instances of TaskMarket for TLC. *)
EXTENDS TaskMarket, TLC

Interchangeable == Permutations(Reqs) \cup Permutations(Subs) \cup Permutations(Conns)
=============================================================================
