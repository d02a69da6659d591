-------------------------- MODULE MCBoundedOutput --------------------------
(* Two report credits, one control and one reply reservation: the writer,   *)
(* three producers and the peer, with every reservation reachable.         *)
EXTENDS BoundedOutput

MCClasses == {"Report", "Control", "Reply"}
MCSizes == [c \in MCClasses |-> IF c = "Report" THEN {1, 2} ELSE {1, 3}]
MCFrames == [c \in MCClasses |-> 2]
MCBytes == [c \in MCClasses |-> 3]
MCFrame == [c \in MCClasses |-> IF c = "Control" THEN 2 ELSE 3]
=============================================================================
