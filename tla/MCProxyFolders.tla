---------------------------- MODULE MCProxyFolders ----------------------------
(* ProxyFolders for TLC: the values the configuration gives its constants. *)
EXTENDS ProxyFolders
=============================================================================
