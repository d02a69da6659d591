---------------------------- MODULE MCReportFlow ----------------------------
(* Small instance of ReportFlow: three streams for two subscriptions, so   *)
(* that one may replace another, be full, or find the connection at its    *)
(* limit, while the other still consumes.                                  *)
EXTENDS ReportFlow

CONSTANTS s1, s2, s3

MCStreams == {s1, s2, s3}
MCQueueLimits == {2}
MCBodies == {1}
MCDigits == [n \in 1..MaximumSequence |-> IF n < 3 THEN 1 ELSE 2]
Symmetry == Permutations(MCStreams)
=============================================================================
