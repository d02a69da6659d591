--------------------------- MODULE MCHostLifetime ---------------------------
(* The host process with five lines of input: the flow, the open, a request *)
(* that waits, one inside it, and one inside that.                          *)
EXTENDS HostLifetime
=============================================================================
