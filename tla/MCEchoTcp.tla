----------------------------- MODULE MCEchoTcp -----------------------------
(* Instances of EchoTcp for TLC.                                           *)
EXTENDS EchoTcp

CONSTANTS a, b

MCPeers == {a, b}
=============================================================================
