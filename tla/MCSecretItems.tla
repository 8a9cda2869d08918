---------------------------- MODULE MCSecretItems ----------------------------
(* SecretItems for TLC: the values the configuration gives its constants. *)
EXTENDS SecretItems
=============================================================================
