--------------------------- MODULE MCReportCredit ---------------------------
(* Small instance of ReportCredit: two streams, frames whose encoded        *)
(* length grows with the sequence, every limit reachable.                  *)
EXTENDS ReportCredit, TLC

CONSTANTS s1, s2

MCStreams == {s1, s2}
MCQueueLimits == {1, 2}
MCBodies == {1, 3, 9}
MCDigits == [n \in 1..MaximumSequence |-> IF n < 3 THEN 1 ELSE 2]
Symmetry == Permutations(MCStreams)
=============================================================================
