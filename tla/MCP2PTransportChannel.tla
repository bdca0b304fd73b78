----------------------- MODULE MCP2PTransportChannel ------------------------
(* P2PTransportChannel for TLC.                                             *)
EXTENDS P2PTransportChannel

MCNetworkOf == [k \in Kinds |-> "n"]
MCPreference == [k \in Kinds |-> 1]
MCUserOf == [a \in Addr |-> "a"]
=============================================================================
