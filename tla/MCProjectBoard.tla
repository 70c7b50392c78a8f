---------------------------- MODULE MCProjectBoard ----------------------------
(***************************************************************************)
(* Small instances of ProjectBoard.                                        *)
(***************************************************************************)
EXTENDS ProjectBoard, TLC

Interchangeable == Permutations(Items) \cup Permutations(Calls)
=============================================================================
