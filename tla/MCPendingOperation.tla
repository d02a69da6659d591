------------------------- MODULE MCPendingOperation -------------------------
(* Two requests of any kind, the second of which may meet what the first   *)
(* has left behind.                                                        *)
EXTENDS PendingOperation, TLC

CONSTANTS o1, o2

MCOps == {o1, o2}
Symmetry == Permutations(MCOps)
=============================================================================
