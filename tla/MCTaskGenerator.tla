--------------------------- MODULE MCTaskGenerator ---------------------------
(* TaskGenerator on a small instance. *)
EXTENDS TaskGenerator
==============================================================================
