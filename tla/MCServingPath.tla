---------------------------- MODULE MCServingPath ----------------------------
(* Small instances of ServingPath for TLC. *)
EXTENDS ServingPath
=============================================================================
