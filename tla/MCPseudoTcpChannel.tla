------------------------ MODULE MCPseudoTcpChannel -------------------------
(* The instances of PseudoTcpChannel that TLC checks; the constants are in  *)
(* the configurations.                                                      *)
EXTENDS PseudoTcpChannel
=============================================================================
