---------------------------- MODULE MCGroupKeys ----------------------------
(* Instances of GroupKeys for TLC: three peers; a knows the other two and  *)
(* founds the group; a and b rotate and remove.                            *)
EXTENDS GroupKeys

CONSTANTS a, b, c
MCPeers == {a, b, c}
MCFriends == [p \in MCPeers |-> IF p = a THEN {b, c} ELSE {}]
MCAdmins == {a, b}
=============================================================================
