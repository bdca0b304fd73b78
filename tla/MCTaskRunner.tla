---------------------------- MODULE MCTaskRunner ----------------------------
(* Three tasks.                                                             *)
EXTENDS TaskRunner
MCTasks == 1..3
=============================================================================
