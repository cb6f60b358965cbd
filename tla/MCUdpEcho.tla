----------------------------- MODULE MCUdpEcho -----------------------------
(* Instances of UdpEcho for TLC: every peer has an address of its own.     *)
EXTENDS UdpEcho, TLC

CONSTANTS a, b, c, d

MCPeers == {a, b, c, d}
MCPair  == {a, b}
MCKeyOf == [e \in Events |-> e]
MCLengths   == {1, 2}
MCWithEmpty == {0, 1}

Symmetry == Permutations(Events)
=============================================================================
