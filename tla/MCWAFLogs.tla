------------------------------ MODULE MCWAFLogs ------------------------------
(* Small instances of WAFLogs for TLC. *)
EXTENDS WAFLogs
=============================================================================
