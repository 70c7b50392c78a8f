---------------------------- MODULE MCRunnerBridge ----------------------------
(***************************************************************************)
(* Small instances of RunnerBridge.                                        *)
(***************************************************************************)
EXTENDS RunnerBridge
=============================================================================
