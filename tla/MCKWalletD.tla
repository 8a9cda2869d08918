----------------------------- MODULE MCKWalletD -----------------------------
(* KWalletD for TLC: the values the configurations give its constants. *)
EXTENDS KWalletD, TLC

CONSTANTS o1, o2, c1, c2

\* An object in each of two processes.
Owners == [o \in Object |-> IF o = o1 THEN c1 ELSE c2]

\* Wallets, application names, and the processes with their objects.
Swap == [x \in {o1, o2, c1, c2} |->
           CASE x = o1 -> o2 [] x = o2 -> o1 [] x = c1 -> c2 [] x = c2 -> c1]
Symmetry == Permutations(Name) \cup Permutations(App) \cup {Swap}
=============================================================================
