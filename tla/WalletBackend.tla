---------------------------- MODULE WalletBackend ----------------------------
(***************************************************************************)
(* KWallet::Backend of src/src/runtime/kwalletbackend/kwalletbackend.cc:   *)
(* one backend over the .kwl and .salt files of the wallet directory.      *)
(*                                                                         *)
(* A .kwl file is encrypted with a key: version 0 files with the SHA-1     *)
(* hash of the password, version 1 files with the PBKDF2 hash of the       *)
(* password and of the random bytes in the wallet's .salt file.  A call is *)
(* cut into one action per change of the directory, because the process    *)
(* may die between two of them; nothing else runs in between.              *)
(***************************************************************************)
EXTENDS Naturals, FiniteSets

CONSTANTS
  Name, Password,
  Salt,          \* contents of .salt files
  MaxWrites,     \* bound: the changes of contents in one behaviour
  Renames,       \* pairs <<old, new>> the owner asks to rename
  Faults,        \* what may fail, a subset of AllFaults
  Absent, Empty, \* no file; a file of no bytes
  Junk,          \* a .kwl file below 60 bytes
  Sha1,          \* in a key, the place of the salt of the old hash
  Zero,          \* a hash filled with zeroes
  None           \* no backend

AllFaults == {"salt", "sync", "open", "rename", "unlink", "kill"}

Hash == [password : Password, salt : Salt \cup {Sha1}]
Key == Hash \cup {Zero}
File == [version : {0, 1}, key : Key, data : Nat]
Backend == [name : Name, open : BOOLEAN, cipher : {"unknown", "blowfish"},
            useNewHash : BOOLEAN, passhash : Key, newPassHash : Key, data : Nat]

ASSUME BackendAssumption ==
  /\ MaxWrites \in Nat
  /\ Renames \subseteq Name \X Name
  /\ Faults \subseteq AllFaults
  /\ Salt \cap {Absent, Empty, Sha1} = {} /\ Sha1 \notin {Absent, Empty}
  /\ Zero \notin [password : Password, salt : Salt \cup {Sha1, Absent, Empty}]
  /\ None \notin Backend
  /\ {Absent, Junk} \cap File = {}

VARIABLES
  kwl,       \* the .kwl file of each name
  salt,      \* its .salt file
  backend,   \* the Backend object, or None
  step,      \* where the call in progress is
  then,      \* where it goes on after setPassword(): "file" in open(), else "ready"
  arg,       \* its argument: a password, or a name
  writes,    \* number of changes of contents; stamps the contents
  stranded   \* history: names whose salt a call lost for the .kwl or the key in use

vars == <<kwl, salt, backend, step, then, arg, writes, stranded>>

SaltSteps == {"salt", "saltRemoved", "saltCreated"}
Steps == {"ready", "file", "creating", "moving", "movingSalt", "unlinking"} \cup SaltSteps

IsWallet(n) == kwl[n] \notin {Absent, Junk}
Upgraded(n) == IsWallet(n) /\ kwl[n].version = 1

\* Anybody who knows the password can compute the key of the file.
Opens(f, s) ==
  \E p \in Password :
    f.key = [password |-> p, salt |-> IF f.version = 1 THEN s ELSE Sha1]

SaltOf(key, s) == key # Zero /\ key.salt = s

Used == {salt[n] : n \in Name}
        \cup {kwl[n].key.salt : n \in {m \in Name : IsWallet(m) /\ kwl[m].key # Zero}}
        \cup (IF backend = None \/ backend.newPassHash = Zero THEN {}
              ELSE {backend.newPassHash.salt})

Own == backend.name
Ready == step = "ready" /\ backend # None

-----------------------------------------------------------------------------
(* setPassword() *)

New(n, c) ==
  /\ step = "ready" /\ backend = None
  /\ backend' = [name |-> n, open |-> FALSE, cipher |-> c, useNewHash |-> FALSE,
                 passhash |-> Zero, newPassHash |-> Zero, data |-> 0]
  /\ UNCHANGED <<kwl, salt, step, arg, writes, stranded, then>>

\* setPassword(p), whose caller goes on at "next".  (Mutant: it starts from the
\* old hash again.)
StartPasswordReset(p, next) ==
  /\ Ready
  /\ backend' = [backend EXCEPT !.passhash = [password |-> p, salt |-> Sha1],
                                !.newPassHash = Zero, !.useNewHash = FALSE]
  /\ step' = "salt" /\ then' = next /\ arg' = p
  /\ UNCHANGED <<kwl, salt, writes, stranded>>
StartPassword(p, next) ==
  /\ Ready
  /\ backend' = [backend EXCEPT !.passhash = [password |-> p, salt |-> Sha1],
                                !.newPassHash = Zero]
  /\ step' = "salt" /\ then' = next /\ arg' = p
  /\ UNCHANGED <<kwl, salt, writes, stranded>>

Derive(s) ==
  backend' = [backend EXCEPT !.newPassHash = [password |-> arg, salt |-> s],
                             !.useNewHash = TRUE]

\* What loses the salt of Own strands it when a key made from that salt is in use.
Strand ==
  stranded' = stranded \cup (IF Upgraded(Own) \/ backend.useNewHash THEN {Own} ELSE {})

ReadSalt ==
  /\ step = "salt" /\ salt[Own] \in Salt
  /\ Derive(salt[Own])
  /\ step' = then
  /\ UNCHANGED <<kwl, salt, arg, writes, stranded, then>>

\* createAndSaveSalt() removes the file first, also when it was only the
\* reading of it that failed.
RemoveSalt ==
  /\ step = "salt"
  /\ \/ salt[Own] \in {Absent, Empty} /\ UNCHANGED stranded
     \/ "salt" \in Faults /\ salt[Own] \in Salt /\ Strand
  /\ salt' = [salt EXCEPT ![Own] = Absent]
  /\ step' = "saltRemoved"
  /\ UNCHANGED <<kwl, backend, arg, writes, then>>

CreateSalt ==
  /\ step = "saltRemoved"
  /\ \/ /\ salt' = [salt EXCEPT ![Own] = Empty]
        /\ step' = "saltCreated"
        /\ UNCHANGED stranded
     \/ "salt" \in Faults /\ step' = then /\ UNCHANGED salt /\ Strand
  /\ UNCHANGED <<kwl, backend, arg, writes, then>>

\* The bytes are random, and in the file only once close() has flushed them,
\* which nobody checks.
WriteSalt ==
  /\ step = "saltCreated"
  /\ \E s \in Salt \ Used :
       \/ salt' = [salt EXCEPT ![Own] = s] /\ Derive(s) /\ UNCHANGED stranded
       \/ /\ "salt" \in Faults
          /\ UNCHANGED salt /\ Derive(s)
          /\ stranded' = stranded \cup {Own}
       \/ "salt" \in Faults /\ UNCHANGED <<salt, backend>> /\ Strand
  /\ step' = then
  /\ UNCHANGED <<kwl, arg, writes, then>>

-----------------------------------------------------------------------------
(* sync() *)

SyncKey == IF backend.useNewHash THEN backend.newPassHash ELSE backend.passhash
Swapped == [backend EXCEPT !.passhash = SyncKey]

\* QSaveFile replaces the whole file or leaves it alone.
\* (Mutant: the version is raised and the hash is not.)
SavedUnswapped(b) ==
  /\ backend.open /\ backend.cipher = "blowfish" /\ kwl[Own] # Absent
  /\ kwl' = [kwl EXCEPT ![Own] = [version |-> IF backend.useNewHash THEN 1 ELSE 0,
                                  key |-> backend.passhash, data |-> backend.data]]
  /\ backend' = b
Saved(b) ==
  /\ backend.open /\ backend.cipher = "blowfish" /\ kwl[Own] # Absent
  /\ kwl' = [kwl EXCEPT ![Own] = [version |-> IF backend.useNewHash THEN 1 ELSE 0,
                                  key |-> SyncKey, data |-> backend.data]]
  /\ backend' = b
NotSaved ==
  /\ UNCHANGED kwl
  /\ \/ /\ ~backend.open \/ kwl[Own] = Absent \/ "sync" \in Faults
        /\ UNCHANGED backend
     \/ /\ backend.open /\ kwl[Own] # Absent
        /\ backend.cipher = "unknown" \/ "sync" \in Faults
        /\ backend' = Swapped

Sync ==
  /\ Ready
  /\ Saved(Swapped) \/ NotSaved
  /\ UNCHANGED <<salt, step, arg, writes, stranded, then>>

-----------------------------------------------------------------------------
(* open(), openPreHashed() and openInternal() *)

Open(p) == Ready /\ ~backend.open /\ StartPassword(p, "file")

\* The hash comes from the PAM module, which makes it from the .salt file.
OpenPreHashed(p) ==
  /\ Ready /\ ~backend.open /\ salt[Own] \in Salt
  /\ LET hash == [password |-> p, salt |-> salt[Own]] IN
     backend' = [backend EXCEPT !.passhash = hash, !.newPassHash = hash, !.useNewHash = TRUE]
  /\ step' = "file"
  /\ UNCHANGED <<kwl, salt, arg, writes, stranded, then>>

\* There is no wallet: an empty file, then the empty wallet, are written.
MakeFile ==
  /\ step = "file" /\ ~IsWallet(Own) /\ ~backend.open
  /\ \/ /\ kwl' = [kwl EXCEPT ![Own] = Junk]
        /\ backend' = [backend EXCEPT !.open = TRUE]
        /\ step' = "creating"
     \/ "open" \in Faults /\ step' = "ready" /\ UNCHANGED <<kwl, backend>>
  /\ UNCHANGED <<salt, arg, writes, stranded, then>>

\* When this first sync() fails, open() fails and the backend is open.
CreateFile ==
  /\ step = "creating"
  /\ \/ Saved(Swapped) /\ step' = "file"
     \/ NotSaved /\ step' = "ready"
  /\ UNCHANGED <<salt, arg, writes, stranded, then>>

\* (Mutant: the entries are not loaded.)
LoadedEmpty(b) == [b EXCEPT !.open = TRUE, !.data = 0]
Loaded(b) == [b EXCEPT !.open = TRUE, !.data = kwl[Own].data]
ReadFile ==
  /\ step = "file" /\ IsWallet(Own)
  /\ LET hash == IF kwl[Own].version = 1 THEN SyncKey ELSE backend.passhash
         b == [backend EXCEPT !.passhash = hash, !.cipher = "blowfish"]
     IN \/ backend' = IF hash = kwl[Own].key THEN Loaded(b) ELSE b
        \/ "open" \in Faults /\ backend' \in {backend, b}
  /\ step' = "ready"
  /\ UNCHANGED <<kwl, salt, arg, writes, stranded, then>>

-----------------------------------------------------------------------------
(* close(), contents, the destructor *)

\* (Mutant: the hashes are emptied and the backend stays open.)
ClearedOpen ==
  [backend EXCEPT !.data = 0, !.passhash = Zero, !.newPassHash = Zero]
Cleared == [backend EXCEPT !.open = FALSE, !.data = 0, !.passhash = Zero, !.newPassHash = Zero]

Close(save) ==
  /\ Ready
  /\ IF save
     THEN Saved(Cleared) \/ NotSaved
     ELSE backend' = Cleared /\ UNCHANGED kwl
  /\ UNCHANGED <<salt, step, arg, writes, stranded, then>>

Destroy ==
  /\ Ready
  /\ backend' = None
  /\ UNCHANGED <<kwl, salt, step, arg, writes, stranded, then>>

WriteEntry ==
  /\ Ready /\ backend.open /\ writes < MaxWrites
  /\ writes' = writes + 1
  /\ backend' = [backend EXCEPT !.data = writes + 1]
  /\ UNCHANGED <<kwl, salt, step, arg, stranded, then>>

-----------------------------------------------------------------------------
(* renameWallet(n): closeInternal(true), two renames whose results nobody      *)
(* looks at, openInternal() with the hashes still in memory                *)

RenameWallet(n) ==
  /\ Ready /\ <<Own, n>> \in Renames /\ Own # n /\ kwl[n] = Absent
  /\ \/ /\ Saved([Swapped EXCEPT !.open = FALSE, !.data = 0])
        /\ step' = "moving" /\ arg' = n
     \/ NotSaved /\ UNCHANGED <<step, arg>>
  /\ UNCHANGED <<salt, writes, stranded, then>>

Moved(f, o, n) == [f EXCEPT ![n] = f[o], ![o] = Absent]

MoveFile ==
  /\ step = "moving"
  /\ \/ /\ kwl' = Moved(kwl, Own, arg)
        /\ stranded' = stranded \cup (IF Upgraded(Own) THEN {arg} ELSE {})
     \/ "rename" \in Faults /\ UNCHANGED <<kwl, stranded>>
  /\ step' = "movingSalt"
  /\ UNCHANGED <<salt, backend, arg, writes, then>>

\* The salt in use was the one under the old name.  The new name is without it when
\* that was stranded before or stays behind, a .kwl that stays behind when it was or
\* the .salt goes alone; a wallet of the old hash needs none.
Parted(moves) ==
  IF ~backend.useNewHash THEN {}
  ELSE (IF ~moves \/ Own \in stranded THEN {arg} ELSE {})
       \cup (IF IsWallet(Own) /\ (moves \/ Own \in stranded) THEN {Own} ELSE {})

\* A rename of a file fails when the new name exists: a .salt left over there
\* stays, and so does the wallet's own under the old name.  (Mutant: the new path
\* is made of the old name.)
SaltUnmoved == salt
SaltMoved == Moved(salt, Own, arg)
MoveSalt ==
  /\ step = "movingSalt"
  /\ \E moves \in BOOLEAN :
       /\ moves => salt[Own] # Absent /\ salt[arg] = Absent
       /\ ~moves => salt[Own] = Absent \/ salt[arg] # Absent \/ "rename" \in Faults
       /\ salt' = IF moves THEN SaltMoved ELSE salt
       /\ stranded' = (stranded \ {Own, arg}) \cup Parted(moves)
  /\ backend' = [backend EXCEPT !.name = arg]
  /\ step' = "file"
  /\ UNCHANGED <<kwl, arg, writes, then>>

-----------------------------------------------------------------------------
(* KSecretD::deleteWallet(), once the backend is closed; the end of the process *)

DeleteFile(n) ==
  /\ step = "ready" /\ backend = None /\ kwl[n] # Absent
  /\ \/ kwl' = [kwl EXCEPT ![n] = Absent] /\ stranded' = stranded \ {n}
     \/ "unlink" \in Faults /\ UNCHANGED <<kwl, stranded>>
  /\ step' = "unlinking" /\ arg' = n
  /\ UNCHANGED <<salt, backend, writes, then>>

DeleteSalt ==
  /\ step = "unlinking"
  /\ \/ salt' = [salt EXCEPT ![arg] = Absent]
        /\ stranded' = IF Upgraded(arg) THEN stranded \cup {arg} ELSE stranded
     \/ "unlink" \in Faults /\ UNCHANGED <<salt, stranded>>
  /\ step' = "ready"
  /\ UNCHANGED <<kwl, backend, arg, writes, then>>

Kill ==
  /\ "kill" \in Faults
  /\ backend # None \/ step # "ready"
  /\ backend' = None /\ step' = "ready"
  /\ UNCHANGED <<kwl, salt, arg, writes, stranded, then>>

-----------------------------------------------------------------------------
\* Wallets from before PBKDF2 and their passwords, or none.
Init ==
  /\ kwl \in [Name -> {Absent} \cup
       {[version |-> 0, key |-> [password |-> p, salt |-> Sha1], data |-> 0] : p \in Password}]
  /\ salt = [n \in Name |-> Absent]
  /\ backend = None /\ step = "ready" /\ then = "ready" /\ arg = None
  /\ writes = 0 /\ stranded = {}

Next ==
  \/ \E n \in Name, c \in {"unknown", "blowfish"} : New(n, c)
  \/ \E p \in Password : Open(p) \/ OpenPreHashed(p) \/ StartPassword(p, "ready")
  \/ ReadSalt \/ RemoveSalt \/ CreateSalt \/ WriteSalt
  \/ MakeFile \/ CreateFile \/ ReadFile
  \/ Sync \/ (\E save \in BOOLEAN : Close(save)) \/ Destroy \/ WriteEntry
  \/ (\E n \in Name : RenameWallet(n)) \/ MoveFile \/ MoveSalt
  \/ (\E n \in Name : DeleteFile(n)) \/ DeleteSalt
  \/ Kill

Spec == Init /\ [][Next]_vars

-----------------------------------------------------------------------------
(* Properties *)

TypeOK ==
  /\ kwl \in [Name -> {Absent, Junk} \cup File]
  /\ salt \in [Name -> Salt \cup {Absent, Empty}]
  /\ backend \in Backend \cup {None}
  /\ step \in Steps /\ then \in {"ready", "file"}
  /\ arg \in Password \cup Name \cup {None}
  /\ writes \in Nat /\ stranded \subseteq Name

\* Every wallet on disk can be opened by whoever knows its password, through
\* every crash, failed save, change of password and upgrade of the hash; what
\* can take that away is the loss of a salt in the few places named.
Readable == \A n \in Name \ stranded : IsWallet(n) => Opens(kwl[n], salt[n])

\* A wallet that was upgraded to the new hash never goes back to the old one.
NoDowngrade ==
  [][\A n \in Name : Upgraded(n) /\ IsWallet(n)' => kwl'[n].version = 1]_vars

\* No save replaces newer contents by older ones.
NoOlderContents ==
  [][\A n \in Name : IsWallet(n) /\ IsWallet(n)' => kwl'[n].data >= kwl[n].data]_vars

-----------------------------------------------------------------------------
(* What makes Readable inductive *)

\* The file is as the last sync() left it.
Written(n) ==
  /\ IsWallet(n) /\ kwl[n].key = SyncKey
  /\ kwl[n].version = IF backend.useNewHash THEN 1 ELSE 0

StepConsistent ==
  /\ backend = None => step \in {"ready", "unlinking"}
  /\ step = "unlinking" => backend = None
  /\ step \in {"moving", "movingSalt", "unlinking"} => arg \in Name
  /\ step \in {"moving", "movingSalt"} => ~backend.open /\ arg # Own
  /\ step \in SaltSteps => arg \in Password
  /\ step = "moving" => Written(Own) /\ kwl[arg] = Absent
  /\ step = "movingSalt" => \/ Written(Own) /\ kwl[arg] = Absent
                            \/ Written(arg) /\ kwl[Own] = Absent
  /\ step = "creating" => backend.open
  /\ step = "saltRemoved" => salt[Own] = Absent
  /\ step = "saltCreated" => salt[Own] = Empty

\* The key the next sync() writes with: made from what the .salt file holds, or
\* of the old hash.
KeyInUse ==
  backend # None =>
    /\ ~backend.useNewHash /\ (backend.open \/ step # "ready") => SaltOf(backend.passhash, Sha1)
    /\ /\ backend.useNewHash /\ Own \notin stranded
       /\ \/ backend.open /\ step = "ready"
          \/ step \in {"file", "creating", "moving", "movingSalt"}
       => SaltOf(backend.newPassHash, salt[Own])

\* The types, and how a call in progress, the hashes in memory and the .salt
\* file hang together: an open backend always saves under a key that the
\* password and the directory give back.
Structure == TypeOK /\ StepConsistent /\ KeyInUse
=============================================================================
