---------------------------- MODULE MCWAFHandler ----------------------------
(* Small instances of WAFHandler for TLC. *)
EXTENDS WAFHandler
=============================================================================
