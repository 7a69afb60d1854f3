--------------------------- MODULE MCAuthConductor ---------------------------
(* Small instances of AuthConductor for TLC. *)
EXTENDS AuthConductor, TLC

(* The goroutines are interchangeable and the run checks no liveness. *)
MCSymmetry == Permutations(Procs)
=============================================================================
