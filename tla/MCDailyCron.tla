------------------------------ MODULE MCDailyCron ------------------------------
(***************************************************************************)
(* Small instances of DailyCron: two servers with pools of two connections. *)
(***************************************************************************)
EXTENDS DailyCron, TLC

CONSTANTS a1, a2, b1, b2, serverA, serverB

MCConns == {a1, a2, b1, b2}
MCServers == {serverA, serverB}
MCServerOf == [c \in MCConns |-> IF c \in {a1, a2} THEN serverA ELSE serverB]
Symmetry == Permutations({a1, a2}) \cup Permutations({b1, b2})
=============================================================================
