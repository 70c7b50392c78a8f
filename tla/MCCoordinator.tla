---------------------------- MODULE MCCoordinator ----------------------------
(***************************************************************************)
(* Small instances of Coordinator: two planner items of the goal, one of    *)
(* which was made to wait for the item i1.                                 *)
(***************************************************************************)
EXTENDS Coordinator

CONSTANTS p2, i1
OnePlanWaits == [i \in Items |-> IF i = p2 THEN {i1} ELSE {}]
=============================================================================
