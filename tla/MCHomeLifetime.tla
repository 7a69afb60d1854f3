--------------------------- MODULE MCHomeLifetime ---------------------------
(* Small instances of HomeLifetime.                                        *)
EXTENDS HomeLifetime

CONSTANTS r1, r2

MCRequests == {r1, r2}

=============================================================================
