--------------------------- MODULE MCWalletBackend ---------------------------
(* WalletBackend for TLC: the values the configurations give its constants. *)
EXTENDS WalletBackend, TLC

AllRenames == Name \X Name

\* Sound for safety: Init and Next treat these values alike.
Symmetric == Permutations(Salt) \cup Permutations(Password) \cup Permutations(Name)
=============================================================================
