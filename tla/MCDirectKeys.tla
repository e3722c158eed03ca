---------------------------- MODULE MCDirectKeys ----------------------------
(* Instances of DirectKeys for TLC: two peers; a rotates, or both do. *)
EXTENDS DirectKeys

CONSTANTS a, b
MCPeers == {a, b}
MCRotators == {a}
=============================================================================
