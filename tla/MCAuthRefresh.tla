---------------------------- MODULE MCAuthRefresh ----------------------------
(* Small instances of AuthRefresh for TLC. *)
EXTENDS AuthRefresh
=============================================================================
