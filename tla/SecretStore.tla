---------------------------- MODULE SecretStore ----------------------------
(***************************************************************************)
(* What the wallet daemon promises about contents, with no handles, timers, *)
(* dialogs or queue: each wallet is stored under its password, unlocking it *)
(* starts a session on what is stored, changes happen to the session, and   *)
(* locking writes the session back.  A rename moves a wallet; onto a name   *)
(* somebody is unlocking it mixes two wallets up, of which the store then   *)
(* promises nothing.                                                       *)
(***************************************************************************)
EXTENDS Naturals

CONSTANTS
  Name, Password,
  NoWallet,    \* nothing is stored under a name
  MayLose      \* a Boolean: TRUE where a session may end, or a file vanish, unsaved

VARIABLES
  stored,      \* what survives the process
  session,     \* the contents of the unlocked wallets, by name
  mixed,       \* the names two wallets may share
  asked        \* input: the names whose password the user is being asked

store == <<stored, session, mixed>>

Content == [data : Nat, password : Password]
Unlocked == DOMAIN session

StoreTypeOK ==
  /\ stored \in [Name -> {NoWallet} \cup Content]
  /\ mixed \subseteq Name
  /\ Unlocked \subseteq Name \ mixed /\ session \in [Unlocked -> Content]

Hold(n, c) == [m \in Unlocked \cup {n} |-> IF m = n THEN c ELSE session[m]]
Drop(S) == [m \in Unlocked \ S |-> session[m]]
Write(n, c) == [stored EXCEPT ![n] = c]

StoreInit ==
  /\ stored \in [Name -> {NoWallet} \cup Content]
  /\ session = [n \in {} |-> NoWallet]
  /\ mixed = {}

\* A new wallet is empty and stored before anybody uses it.
Create(n, p) ==
  LET c == [data |-> 0, password |-> p] IN
  /\ n \notin Unlocked \cup mixed /\ stored[n] = NoWallet
  /\ stored' = Write(n, c) \/ (MayLose /\ UNCHANGED stored)
  /\ session' = Hold(n, c)

\* A session starts on exactly what is stored.
Unlock(n) ==
  /\ n \notin Unlocked /\ stored[n] # NoWallet
  /\ session' = Hold(n, stored[n])
  /\ UNCHANGED stored

Put(n) ==
  /\ n \in Unlocked /\ DOMAIN session' = Unlocked
  /\ session' = Hold(n, [session[n] EXCEPT !.data = session'[n].data])
  /\ session'[n].data > session[n].data
  /\ UNCHANGED stored

Save(n) ==
  /\ n \in Unlocked
  /\ stored' = Write(n, session[n])
  /\ UNCHANGED session

\* The session ends with its contents stored.
Lock(n) ==
  /\ n \in Unlocked
  /\ stored' = Write(n, session[n]) \/ (MayLose /\ UNCHANGED stored)
  /\ session' = Drop({n})

\* A new password takes effect on disk with the contents of the session, which
\* may end there.
Rekey(n, p) ==
  /\ n \in Unlocked
  /\ LET c == [session[n] EXCEPT !.password = p] IN
     \/ stored' = Write(n, c) /\ session' \in {Hold(n, c), Drop({n})}
     \/ MayLose /\ session' = Hold(n, c) /\ UNCHANGED stored

Remove(n) ==
  /\ stored' = Write(n, NoWallet)
  /\ session' = Drop({n}) \/ (MayLose /\ UNCHANGED session)

\* The process ends, perhaps right after a save: only what is stored remains.
Crash ==
  /\ session' = Drop(Unlocked)
  /\ UNCHANGED stored \/ \E n \in Unlocked : stored' = Write(n, session[n])

\* The sessions whose wallet vanished end with it.
Abandon ==
  /\ MayLose
  /\ \E S \in SUBSET Unlocked : session' = Drop(S)
  /\ UNCHANGED stored

\* An unlocked wallet moves to a free name.  When the file does not move, its
\* contents stay stored under the old name and an empty wallet has the new one.
Moved(o, n, c) == [m \in (Unlocked \ {o}) \cup {n} |-> IF m = n THEN c ELSE session[m]]
Rename(o, n) ==
  LET c == session[o]
      anew == [c EXCEPT !.data = 0]
  IN
  /\ o \in Unlocked /\ n \notin Unlocked \cup mixed /\ stored[n] = NoWallet
  /\ \/ /\ stored' = [stored EXCEPT ![o] = NoWallet, ![n] = c]
        /\ session' = Moved(o, n, c) \/ (MayLose /\ session' = Drop({o}))
     \/ /\ stored' = [stored EXCEPT ![o] = c, ![n] = anew]
        /\ session' = Moved(o, n, anew)

\* The name is not free: somebody is unlocking it, or has not noticed that its
\* file is gone.
Mix(o, n) ==
  /\ o \in Unlocked \cup mixed /\ o # n
  /\ n \in mixed \cup asked \/ MayLose
  /\ \/ stored' = Write(o, NoWallet)
     \/ o \in Unlocked /\ stored' = Write(o, session[o])
  /\ session' = Drop({o, n})
  /\ mixed' = mixed \cup {n}

\* What leaves a mixed name for a free one is a wallet like any other.
Return(o, n) ==
  /\ o \in mixed /\ n \notin Unlocked \cup mixed /\ stored[n] = NoWallet
  /\ stored'[n] \in Content /\ stored' = Write(n, stored'[n])
  /\ session' = Hold(n, stored'[n]) \/ (MayLose /\ UNCHANGED session)

Change ==
  \/ \E n \in Name : Unlock(n) \/ Put(n) \/ Save(n) \/ Lock(n) \/ Remove(n)
  \/ \E n \in Name, p \in Password : Create(n, p) \/ Rekey(n, p)
  \/ \E o, n \in Name : Rename(o, n) \/ Return(o, n)
  \/ Crash \/ Abandon

StoreNext == (Change /\ UNCHANGED mixed) \/ \E o, n \in Name : Mix(o, n)

StoreSpec == StoreInit /\ [][StoreNext]_store
=============================================================================
