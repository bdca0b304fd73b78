---------------------------- MODULE MCPseudoTcp -----------------------------
(* The instance of PseudoTcp that TLC checks: a transfer one way that fills *)
(* the window, and a little data both ways.                                 *)
EXTENDS PseudoTcp

MCLoads == {<<4, 0>>, <<2, 1>>}
=============================================================================
