-------------------------- MODULE MCUsageCollector --------------------------
(* Small instances of UsageCollector.                                      *)
EXTENDS UsageCollector

MCTwoRuns == 1..2

=============================================================================
