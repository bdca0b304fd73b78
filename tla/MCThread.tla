------------------------------ MODULE MCThread ------------------------------
(* Two threads with one handler each.                                       *)
EXTENDS Thread
MCThreads == 1..2
MCOwner == [h \in Handlers |-> IF h = "h1" THEN 1 ELSE 2]
=============================================================================
