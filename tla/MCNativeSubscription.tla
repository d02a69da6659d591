------------------------ MODULE MCNativeSubscription ------------------------
(* One subscription with two path results and two generations.             *)
EXTENDS NativeSubscription
=============================================================================
