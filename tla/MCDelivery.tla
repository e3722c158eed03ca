----------------------------- MODULE MCDelivery -----------------------------
(* Instances of Delivery for TLC: two peers; a sends, or both do. *)
EXTENDS Delivery, TLC

CONSTANTS a, b
MCPeers == {a, b}
MCSenders == {a}

\* The poll loops of a peer are interchangeable.
LoopSymmetry == Permutations(Loops)
=============================================================================
