---------------------------- MODULE MCRetryBudget ----------------------------
(* RetryBudget on an 11-bit word with four ticks per second: the curve
   leaves the word at attempt 8 as 2^33 seconds leave an int64. *)
EXTENDS RetryBudget

MCMaxWaits == {0, 20, 1023}
MCHeaders == {-1, 1, 7, 60, 300}
=============================================================================
