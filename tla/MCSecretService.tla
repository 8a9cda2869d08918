-------------------------- MODULE MCSecretService --------------------------
(* SecretService for TLC: the values the configurations give its constants. *)
EXTENDS SecretService

CONSTANTS n1, n2, q1

Names == {n1, n2}
Ranks == [n \in Names |-> IF n = n1 THEN 1 ELSE 2]

\* One prompt for up to two collections, any other for one.
Objects == [q \in Prompt |-> IF q = q1 THEN 2 ELSE 1]
=============================================================================
