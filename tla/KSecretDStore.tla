--------------------------- MODULE KSecretDStore ---------------------------
(***************************************************************************)
(* KSecretD as an implementation of SecretStore: what the daemon has in    *)
(* memory of a wallet is its session, what its file holds is what is       *)
(* stored.  Handles, timers, the queue and most dialogs do not show; names *)
(* renamed onto while in use show only as mixed.                           *)
(***************************************************************************)
EXTENDS KSecretD

CONSTANTS
  NoWallet,    \* nothing is stored under a name
  MayLose      \* whether contents may be lost

ASSUME StoreAssumption ==
  /\ {Absent, Junk, NoWallet} \cap Content = {}
  /\ MayLose \in BOOLEAN
  /\ ~MayLose => Faults \cap {"sync", "open", "external"} = {}

\* The names in N of the .kwl files f.
StoredIn(f, N) ==
  [n \in Name |-> IF n \in N /\ f[n] \notin {Absent, Junk} THEN f[n] ELSE NoWallet]

\* The open backends of table w, by the names of their wallets.
OpenOf(w, n) == {h \in DOMAIN w : w[h].name = n /\ w[h].open}
SessionIn(w, N) ==
  [n \in {m \in N : OpenOf(w, m) # {}} |->
     LET b == w[CHOOSE h \in OpenOf(w, n) : TRUE]
     IN [data |-> b.data, password |-> b.password]]

Clean == Name \ renamedOnto
Disk == StoredIn(files, Clean)
Session == SessionIn(wallets, Clean)
Asked == IF stage \in OpenDialogs THEN {current.wallet} ELSE {}

Store == INSTANCE SecretStore
           WITH stored <- Disk, session <- Session, mixed <- renamedOnto, asked <- Asked

\* What clients see of contents is what a store of wallets would show them: no
\* dialog, timer, change of password or crash lets a session differ from what
\* was stored and put into it.
Implements == Store!StoreSpec
=============================================================================
