---------------------------- MODULE MCAuthTokens ----------------------------
(* Small instances of AuthTokens for TLC. *)
EXTENDS AuthTokens
=============================================================================
