----------------------------- MODULE MCKSecretD -----------------------------
(* KSecretD for TLC: the values the configurations give its constants. *)
EXTENDS KSecretDStore, TLC

NoRenames == {}
AllRenames == Name \X Name
OneWay == {CHOOSE r \in AllRenames : r[1] # r[2]}

\* Sound for safety: Init and Next treat these values alike.
Symmetric == Permutations(Handle) \cup Permutations(Request) \cup Permutations(Name)
             \cup Permutations(WId)
=============================================================================
