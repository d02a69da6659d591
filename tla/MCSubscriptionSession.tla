------------------------ MODULE MCSubscriptionSession -----------------------
(* Small instance of SubscriptionSession: two subscriptions, each able to  *)
(* recover, fail and be cancelled from both ends.                          *)
EXTENDS SubscriptionSession, TLC

CONSTANTS a, b

MCSubs == {a, b}
Symmetry == Permutations(MCSubs)
=============================================================================
