------------------------ MODULE MCExecutionRegistry ------------------------
(* Small instances of ExecutionRegistry.                                   *)
EXTENDS ExecutionRegistry, TLC

CONSTANTS g1, d1, d2

MCNoGroup     == {}
MCOneGroup    == {g1}
MCNoDrainer   == {}
MCOneDrainer  == {d1}
MCTwoDrainers == {d1, d2}
MCSymmetry    == Permutations({d1, d2})

=============================================================================
