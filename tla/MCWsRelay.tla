----------------------------- MODULE MCWsRelay -----------------------------
(* Small instances of WsRelay.                                             *)
EXTENDS WsRelay

CONSTANTS s1, r1

MCSessions == {s1}
MCRequests == {r1}

=============================================================================
