----------------------------- MODULE MCSession -----------------------------
(* The session model on small instances.                                    *)
EXTENDS Session
============================================================================
