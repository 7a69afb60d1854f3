-------------------------- MODULE MCReleaseFlusher --------------------------
(* Small instances of ReleaseFlusher.                                      *)
EXTENDS ReleaseFlusher

MCTimings == {[interval |-> 1, backoff |-> 3], [interval |-> 2, backoff |-> 2]}

=============================================================================
