------------------------- MODULE WalletBackendProofs -------------------------
(* Theorems about WalletBackend, for every directory, password and salt.     *)
EXTENDS WalletBackend, TLAPS

\* A version 0 file needs no salt: it opens whatever happened to that.
OldReadable ==
  \A n \in Name : IsWallet(n) /\ ~Upgraded(n) => Opens(kwl[n], salt[n])

BackendInvariant == Structure /\ Readable /\ OldReadable

LEMMA InitInvariant == Init => BackendInvariant
  <1> SUFFICES ASSUME Init PROVE BackendInvariant
    OBVIOUS
  <1>1. TypeOK
    BY DEF Init, TypeOK, File, Key, Hash, Steps
  <1>2. StepConsistent /\ KeyInUse
    BY DEF Init, StepConsistent, KeyInUse, SaltSteps
  <1>3. Readable /\ OldReadable
    BY DEF Init, Readable, OldReadable, IsWallet, Opens
  <1> QED BY <1>1, <1>2, <1>3 DEF BackendInvariant, Structure

-----------------------------------------------------------------------------
(* The types *)

LEMMA OwnType == TypeOK /\ backend # None => backend \in Backend /\ Own \in Name
  BY DEF TypeOK, Own, Backend

LEMMA SyncKeyType == TypeOK /\ backend # None => SyncKey \in Key /\ Swapped \in Backend
  BY DEF TypeOK, SyncKey, Swapped, Backend

LEMMA SavedType ==
  ASSUME TypeOK, backend # None, NEW b \in Backend, Saved(b)
  PROVE  kwl' \in [Name -> {Absent, Junk} \cup File] /\ backend' \in Backend
  BY SyncKeyType DEF Saved, TypeOK, Backend, File

LEMMA NotSavedType ==
  ASSUME TypeOK, backend # None, NotSaved
  PROVE  kwl' \in [Name -> {Absent, Junk} \cup File] /\ backend' \in Backend
  BY SyncKeyType DEF NotSaved, TypeOK

\* What openInternal() makes of the backend, whether the key fits or not.
LEMMA ReadType ==
  ASSUME backend \in Backend, SyncKey \in Key, kwl[Own] \in File,
         NEW hash \in {SyncKey, backend.passhash}
  PROVE  LET b == [backend EXCEPT !.passhash = hash, !.cipher = "blowfish"]
         IN  b \in Backend /\ Loaded(b) \in Backend
  <1> DEFINE b == [backend EXCEPT !.passhash = hash, !.cipher = "blowfish"]
  <1>1. b \in Backend
    BY DEF Backend, Hash
  <1> HIDE DEF b
  <1>2. kwl[Own].data \in Nat
    BY DEF File
  <1>3. Loaded(b) \in Backend
    BY <1>1, <1>2 DEF Loaded, Backend
  <1> QED BY <1>1, <1>3 DEF b

LEMMA DeriveType ==
  ASSUME TypeOK, backend # None, arg \in Password, NEW s \in Salt, Derive(s)
  PROVE  backend' \in Backend
  BY DEF Derive, TypeOK, Backend, Key, Hash

LEMMA PasswordType ==
  ASSUME TypeOK, NEW p \in Password, NEW next \in {"ready", "file"}, StartPassword(p, next)
  PROVE  TypeOK'
  BY DEF StartPassword, Ready, TypeOK, Backend, Key, Hash, Steps, SaltSteps

LEMMA TypeStep == TypeOK /\ StepConsistent /\ [Next]_vars => TypeOK'
  <1> SUFFICES ASSUME TypeOK, StepConsistent, [Next]_vars PROVE TypeOK'
    OBVIOUS
  <1>1. ASSUME NEW n \in Name, NEW c \in {"unknown", "blowfish"}, New(n, c) PROVE TypeOK'
    BY <1>1 DEF New, TypeOK, Backend, Key
  <1>2. ASSUME NEW p \in Password, Open(p) \/ StartPassword(p, "ready") PROVE TypeOK'
    BY <1>2, PasswordType DEF Open
  <1>3. ASSUME NEW p \in Password, OpenPreHashed(p) PROVE TypeOK'
    BY <1>3 DEF OpenPreHashed, Ready, TypeOK, Backend, Key, Hash, Steps
  <1>4. CASE ReadSalt
    BY <1>4, DeriveType DEF ReadSalt, TypeOK, StepConsistent, Steps, SaltSteps
  <1>5. CASE RemoveSalt \/ CreateSalt
    <2>1. backend # None /\ Own \in Name
      BY <1>5, OwnType DEF RemoveSalt, CreateSalt, StepConsistent
    <2> QED BY <1>5, <2>1 DEF RemoveSalt, CreateSalt, Strand, TypeOK, Steps, SaltSteps
  <1>6. CASE WriteSalt
    <2>1. backend # None /\ arg \in Password /\ Own \in Name
      BY <1>6, OwnType DEF WriteSalt, StepConsistent, SaltSteps
    <2>2. backend' \in Backend
      BY <1>6, <2>1, DeriveType DEF WriteSalt, TypeOK
    <2>3. salt' \in [Name -> Salt \cup {Absent, Empty}] /\ stranded' \subseteq Name
      BY <1>6, <2>1 DEF WriteSalt, Strand, TypeOK
    <2> QED BY <1>6, <2>2, <2>3 DEF WriteSalt, TypeOK, Steps
  <1>7. CASE MakeFile
    <2>1. backend \in Backend
      BY <1>7, OwnType DEF MakeFile, StepConsistent, TypeOK
    <2>2. backend' \in Backend
      BY <1>7, <2>1 DEF MakeFile, Backend
    <2> QED BY <1>7, <2>2 DEF MakeFile, TypeOK, Steps
  <1>8. CASE CreateFile
    BY <1>8, SyncKeyType, SavedType, NotSavedType DEF CreateFile, TypeOK, StepConsistent, Steps
  <1>9. CASE ReadFile
    <2>1. backend # None /\ backend \in Backend /\ SyncKey \in Key
      BY <1>9, SyncKeyType DEF ReadFile, StepConsistent, TypeOK
    <2>2. Own \in Name /\ IsWallet(Own)
      BY <1>9, <2>1, OwnType DEF ReadFile
    <2>3. kwl[Own] \in File
      BY <2>2 DEF TypeOK, IsWallet
    <2>4. backend' \in Backend
      BY <1>9, <2>1, <2>3, ReadType DEF ReadFile
    <2> QED BY <1>9, <2>4 DEF ReadFile, TypeOK, Steps
  <1>10. CASE Sync
    BY <1>10, SyncKeyType, SavedType, NotSavedType DEF Sync, Ready, TypeOK
  <1>11. ASSUME NEW save \in BOOLEAN, Close(save) PROVE TypeOK'
    <2>1. backend # None /\ Cleared \in Backend
      BY <1>11 DEF Close, Ready, Cleared, TypeOK, Backend, Key
    <2> QED BY <1>11, <2>1, SavedType, NotSavedType DEF Close, TypeOK
  <1>12. CASE Destroy \/ Kill
    BY <1>12 DEF Destroy, Kill, TypeOK, Steps
  <1>13. CASE WriteEntry
    BY <1>13 DEF WriteEntry, Ready, TypeOK, Backend
  <1>14. ASSUME NEW n \in Name, RenameWallet(n) PROVE TypeOK'
    <2> DEFINE b == [Swapped EXCEPT !.open = FALSE, !.data = 0]
    <2>1. backend # None
      BY <1>14 DEF RenameWallet, Ready
    <2>2. b \in Backend
      BY <2>1, SyncKeyType DEF Backend
    <2>3. Saved(b) \/ NotSaved
      BY <1>14 DEF RenameWallet
    <2> HIDE DEF b
    <2>4. kwl' \in [Name -> {Absent, Junk} \cup File] /\ backend' \in Backend
      BY <2>1, <2>2, <2>3, SavedType, NotSavedType
    <2> QED BY <1>14, <2>4 DEF RenameWallet, TypeOK, Steps
  <1>15. CASE MoveFile
    <2>1. Own \in Name /\ arg \in Name
      BY <1>15, OwnType DEF MoveFile, StepConsistent
    <2> QED BY <1>15, <2>1 DEF MoveFile, Moved, TypeOK, Steps
  <1>16. CASE MoveSalt
    <2>1. backend \in Backend /\ Own \in Name /\ arg \in Name
      BY <1>16, OwnType DEF MoveSalt, StepConsistent
    <2>2. backend' \in Backend
      BY <1>16, <2>1 DEF MoveSalt, Backend
    <2>3. PICK moves \in BOOLEAN :
            /\ salt' = IF moves THEN SaltMoved ELSE salt
            /\ stranded' = (stranded \ {Own, arg}) \cup Parted(moves)
      BY <1>16 DEF MoveSalt
    <2>4. Parted(moves) \subseteq Name /\ SaltMoved \in [Name -> Salt \cup {Absent, Empty}]
      BY <2>1 DEF Parted, SaltMoved, Moved, TypeOK
    <2>5. salt' \in [Name -> Salt \cup {Absent, Empty}] /\ stranded' \subseteq Name
      BY <2>3, <2>4 DEF TypeOK
    <2> QED BY <1>16, <2>2, <2>5 DEF MoveSalt, TypeOK, Steps
  <1>17. ASSUME NEW n \in Name, DeleteFile(n) PROVE TypeOK'
    BY <1>17 DEF DeleteFile, TypeOK, Steps
  <1>18. CASE DeleteSalt
    BY <1>18 DEF DeleteSalt, TypeOK, StepConsistent, Steps
  <1>19. CASE UNCHANGED vars
    BY <1>19 DEF vars, TypeOK
  <1> QED
    BY <1>1, <1>2, <1>3, <1>4, <1>5, <1>6, <1>7, <1>8, <1>9, <1>10, <1>11, <1>12, <1>13,
       <1>14, <1>15, <1>16, <1>17, <1>18, <1>19 DEF Next

-----------------------------------------------------------------------------
(* The call in progress *)

LEMMA BackendIsNotNone == None \notin Backend
  BY BackendAssumption

\* What the sync() of renameWallet() leaves: the key in memory is that of the file.
LEMMA SavedWritten ==
  ASSUME TypeOK, NEW n \in Name, RenameWallet(n),
         Saved([Swapped EXCEPT !.open = FALSE, !.data = 0])
  PROVE  Written(Own)' /\ kwl'[n] = Absent
  <1> DEFINE b == [Swapped EXCEPT !.open = FALSE, !.data = 0]
  <1>1. /\ backend \in Backend /\ Own \in Name /\ Swapped \in Backend
        /\ Own # n /\ kwl[n] = Absent
    BY OwnType, SyncKeyType DEF RenameWallet, Ready
  <1>2. /\ b.name = Own /\ b.useNewHash = backend.useNewHash
        /\ b.newPassHash = backend.newPassHash /\ b.passhash = SyncKey
    BY <1>1 DEF Backend, Swapped, Own
  <1>3. backend' = b
    BY DEF Saved
  <1> HIDE DEF b
  <1> DEFINE f == [version |-> IF backend.useNewHash THEN 1 ELSE 0,
                   key |-> SyncKey, data |-> backend.data]
  <1>4. kwl' = [kwl EXCEPT ![Own] = f]
    BY DEF Saved
  <1>5. f \in File
    <2>1. SyncKey \in Key
      BY <1>1, SyncKeyType DEF RenameWallet, Ready
    <2> QED BY <1>1, <2>1 DEF File, Backend
  <1>6. f.key = SyncKey /\ f.version = IF backend.useNewHash THEN 1 ELSE 0
    OBVIOUS
  <1> HIDE DEF f
  <1>7. kwl'[Own] = f /\ kwl'[n] = Absent /\ Own' = Own
    BY <1>1, <1>2, <1>3, <1>4 DEF TypeOK, Own
  <1>8. SyncKey' = SyncKey
    BY <1>2, <1>3 DEF SyncKey
  <1>9. f \notin {Absent, Junk}
    BY <1>5, BackendAssumption
  <1> QED BY <1>2, <1>3, <1>6, <1>7, <1>8, <1>9 DEF Written, IsWallet

LEMMA StepStep == TypeOK /\ StepConsistent /\ [Next]_vars => StepConsistent'
  <1> SUFFICES ASSUME TypeOK, StepConsistent, [Next]_vars PROVE StepConsistent'
    OBVIOUS
  <1> USE DEF StepConsistent, SaltSteps
  <1>0. ASSUME NEW b \in Backend PROVE b # None
    BY BackendIsNotNone
  <1>1. ASSUME NEW n \in Name, NEW c \in {"unknown", "blowfish"}, New(n, c) PROVE StepConsistent'
    BY <1>1 DEF New
  <1>2. ASSUME NEW p \in Password, NEW next \in {"ready", "file"}, StartPassword(p, next)
        PROVE StepConsistent'
    <2>1. backend' \in Backend
      BY <1>2 DEF StartPassword, Ready, TypeOK, Backend, Key, Hash
    <2> QED BY <1>2, <2>1, <1>0 DEF StartPassword
  <1>3. ASSUME NEW p \in Password, OpenPreHashed(p) PROVE StepConsistent'
    <2>1. backend' \in Backend
      BY <1>3 DEF OpenPreHashed, Ready, TypeOK, Backend, Key, Hash
    <2> QED BY <1>3, <2>1, <1>0 DEF OpenPreHashed
  <1>4. CASE ReadSalt
    <2>1. backend' \in Backend
      BY <1>4, DeriveType DEF ReadSalt
    <2> QED BY <1>4, <2>1, <1>0 DEF ReadSalt, TypeOK
  <1>5. CASE RemoveSalt \/ CreateSalt
    <2>1. backend # None /\ Own \in Name /\ Own' = Own
      BY <1>5, OwnType DEF RemoveSalt, CreateSalt, Own
    <2> QED BY <1>5, <2>1 DEF RemoveSalt, CreateSalt, TypeOK
  <1>6. CASE WriteSalt
    <2>1. backend # None /\ arg \in Password
      BY <1>6 DEF WriteSalt
    <2>2. backend' \in Backend
      BY <1>6, <2>1, DeriveType DEF WriteSalt, TypeOK
    <2> QED BY <1>6, <2>2, <1>0 DEF WriteSalt, TypeOK
  <1>7. CASE MakeFile
    <2>1. backend \in Backend
      BY <1>7, OwnType DEF MakeFile
    <2>2. backend' \in Backend /\ (step' = "creating" => backend'.open)
      BY <1>7, <2>1 DEF MakeFile, Backend
    <2> QED BY <1>7, <2>2, <1>0 DEF MakeFile
  <1>8. CASE CreateFile
    <2>1. backend' \in Backend
      BY <1>8, SyncKeyType, SavedType, NotSavedType DEF CreateFile
    <2> QED BY <1>8, <2>1, <1>0 DEF CreateFile
  <1>9. CASE ReadFile
    <2>0. step = "file"
      BY <1>9 DEF ReadFile
    <2>1. backend # None /\ backend \in Backend /\ SyncKey \in Key
      BY <2>0, OwnType, SyncKeyType
    <2>2. Own \in Name /\ IsWallet(Own)
      BY <1>9, <2>1, OwnType DEF ReadFile
    <2>3. kwl[Own] \in File
      BY <2>2 DEF TypeOK, IsWallet
    <2>4. backend' \in Backend
      BY <1>9, <2>1, <2>3, ReadType DEF ReadFile
    <2> QED BY <1>9, <2>4, <1>0 DEF ReadFile
  <1>10. CASE Sync
    <2>1. backend' \in Backend
      BY <1>10, SyncKeyType, SavedType, NotSavedType DEF Sync, Ready
    <2> QED BY <1>10, <2>1, <1>0 DEF Sync, Ready
  <1>11. ASSUME NEW save \in BOOLEAN, Close(save) PROVE StepConsistent'
    BY <1>11 DEF Close, Ready
  <1>12. CASE Destroy \/ Kill
    BY <1>12 DEF Destroy, Kill, Ready
  <1>13. CASE WriteEntry
    BY <1>13 DEF WriteEntry, Ready
  <1>14. ASSUME NEW n \in Name, RenameWallet(n) PROVE StepConsistent'
    <2> DEFINE b == [Swapped EXCEPT !.open = FALSE, !.data = 0]
    <2>1. backend \in Backend /\ Swapped \in Backend /\ Own # n
      BY <1>14, OwnType, SyncKeyType DEF RenameWallet, Ready
    <2>2. b \in Backend /\ ~b.open /\ b.name = Own
      BY <2>1 DEF Backend, Own, Swapped
    <2>3. \/ Saved(b) /\ step' = "moving" /\ arg' = n
          \/ NotSaved /\ UNCHANGED <<step, arg>>
      BY <1>14 DEF RenameWallet
    <2> HIDE DEF b
    <2>4. CASE Saved(b) /\ step' = "moving" /\ arg' = n
      <3>1. Written(Own)' /\ kwl'[n] = Absent
        BY <1>14, <2>4, SavedWritten DEF b
      <3> QED BY <2>1, <2>2, <2>4, <3>1, <1>0 DEF Saved, Own
    <2>5. CASE NotSaved /\ UNCHANGED <<step, arg>>
      BY <1>14, <2>5 DEF RenameWallet, Ready
    <2> QED BY <2>3, <2>4, <2>5
  <1>15. CASE MoveFile
    <2>1. /\ backend # None /\ arg # Own /\ ~backend.open /\ arg \in Name /\ Own \in Name
          /\ Written(Own) /\ kwl[arg] = Absent
      BY <1>15, OwnType DEF MoveFile
    <2>2. \/ Written(Own)' /\ kwl'[arg] = Absent
          \/ Written(arg)' /\ kwl'[Own] = Absent
      <3>1. CASE kwl' = Moved(kwl, Own, arg)
        <4>1. kwl'[arg] = kwl[Own] /\ kwl'[Own] = Absent
          BY <2>1, <3>1 DEF Moved, TypeOK
        <4> QED BY <1>15, <2>1, <4>1 DEF Written, IsWallet, SyncKey, MoveFile
      <3>2. CASE UNCHANGED kwl
        BY <1>15, <2>1, <3>2 DEF Written, IsWallet, SyncKey, MoveFile, Own
      <3> QED BY <1>15, <3>1, <3>2 DEF MoveFile
    <2> QED BY <1>15, <2>1, <2>2 DEF MoveFile, Own
  <1>16. CASE MoveSalt
    <2>1. backend \in Backend /\ arg \in Name
      BY <1>16, OwnType DEF MoveSalt
    <2>2. backend' \in Backend
      BY <1>16, <2>1 DEF MoveSalt, Backend
    <2> QED BY <1>16, <2>2, <1>0 DEF MoveSalt
  <1>17. ASSUME NEW n \in Name, DeleteFile(n) PROVE StepConsistent'
    BY <1>17 DEF DeleteFile
  <1>18. CASE DeleteSalt
    BY <1>18 DEF DeleteSalt
  <1>19. CASE UNCHANGED vars
    BY <1>19 DEF vars, Own, Written, IsWallet, SyncKey
  <1>20. ASSUME NEW p \in Password, Open(p) PROVE StepConsistent'
    BY <1>2, <1>20 DEF Open
  <1> QED
    BY <1>1, <1>2, <1>3, <1>4, <1>5, <1>6, <1>7, <1>8, <1>9, <1>10, <1>11, <1>12, <1>13,
       <1>14, <1>15, <1>16, <1>17, <1>18, <1>19, <1>20 DEF Next

-----------------------------------------------------------------------------
(* The key in use *)

LEMMA SwappedKeepsKey ==
  ASSUME backend \in Backend
  PROVE  /\ Swapped.name = Own /\ Swapped.useNewHash = backend.useNewHash
         /\ Swapped.newPassHash = backend.newPassHash /\ Swapped.open = backend.open
         /\ ~backend.useNewHash => Swapped.passhash = backend.passhash
  BY DEF Swapped, SyncKey, Backend, Own

LEMMA NotSavedKeepsKey ==
  ASSUME backend \in Backend, NotSaved
  PROVE  /\ backend'.name = Own /\ backend'.useNewHash = backend.useNewHash
         /\ backend'.newPassHash = backend.newPassHash /\ backend'.open = backend.open
         /\ ~backend.useNewHash => backend'.passhash = backend.passhash
  BY SwappedKeepsKey DEF NotSaved, Own

\* The new name is not stranded only when the .salt came along with the key.
LEMMA SaltFollows ==
  ASSUME TypeOK, StepConsistent, KeyInUse, MoveSalt, backend.useNewHash, arg \notin stranded'
  PROVE  SaltOf(backend.newPassHash, salt'[arg])
  <1>1. /\ backend # None /\ backend \in Backend /\ Own \in Name /\ arg \in Name
        /\ arg # Own /\ step = "movingSalt"
    BY OwnType DEF MoveSalt, StepConsistent
  <1>2. PICK moves \in BOOLEAN :
          /\ salt' = IF moves THEN SaltMoved ELSE salt
          /\ stranded' = (stranded \ {Own, arg}) \cup Parted(moves)
    BY DEF MoveSalt
  <1>3. moves /\ Own \notin stranded
    BY <1>2 DEF Parted
  <1>4. salt'[arg] = salt[Own]
    BY <1>1, <1>2, <1>3 DEF SaltMoved, Moved, TypeOK
  <1> QED BY <1>1, <1>3, <1>4 DEF KeyInUse

LEMMA KeyStep == TypeOK /\ StepConsistent /\ KeyInUse /\ [Next]_vars => KeyInUse'
  <1> SUFFICES ASSUME TypeOK, StepConsistent, KeyInUse, [Next]_vars PROVE KeyInUse'
    OBVIOUS
  <1>1. ASSUME NEW n \in Name, NEW c \in {"unknown", "blowfish"}, New(n, c) PROVE KeyInUse'
    BY <1>1 DEF New, KeyInUse
  <1>2. ASSUME NEW p \in Password, NEW next \in {"ready", "file"}, StartPassword(p, next)
        PROVE KeyInUse'
    <2>1. backend \in Backend /\ [password |-> p, salt |-> Sha1] # Zero
      BY <1>2, OwnType, BackendAssumption DEF StartPassword, Ready, Hash
    <2>2. SaltOf(backend'.passhash, Sha1)
      BY <1>2, <2>1 DEF StartPassword, SaltOf, Backend
    <2> QED BY <1>2, <2>2 DEF StartPassword, KeyInUse, SaltOf
  <1>3. ASSUME NEW p \in Password, OpenPreHashed(p) PROVE KeyInUse'
    <2> DEFINE hash == [password |-> p, salt |-> salt[Own]]
    <2>1. backend \in Backend /\ salt[Own] \in Salt /\ hash # Zero
      BY <1>3, OwnType, BackendAssumption DEF OpenPreHashed, Ready, Hash
    <2>2. /\ backend'.useNewHash /\ backend'.newPassHash = hash /\ backend'.name = Own
          /\ salt' = salt
      BY <1>3, <2>1 DEF OpenPreHashed, Backend, Own
    <2> QED BY <2>1, <2>2 DEF KeyInUse, SaltOf, Own
  <1>4. ASSUME NEW s \in Salt, Derive(s), salt'[Own] = s \/ Own \in stranded',
               backend # None, arg \in Password
        PROVE  KeyInUse'
    <2>1. backend \in Backend /\ [password |-> arg, salt |-> s] # Zero
      BY <1>4, OwnType, BackendAssumption DEF Hash
    <2>2. /\ backend'.useNewHash /\ backend'.name = Own
          /\ backend'.newPassHash = [password |-> arg, salt |-> s]
      BY <1>4, <2>1 DEF Derive, Backend, Own
    <2> QED BY <1>4, <2>1, <2>2 DEF KeyInUse, SaltOf, Own
  <1>5. CASE ReadSalt
    BY <1>4, <1>5 DEF ReadSalt, StepConsistent, SaltSteps
  <1>6. ASSUME step \in SaltSteps, UNCHANGED backend, step' \in SaltSteps \/ Strand
        PROVE  KeyInUse'
    <2>1. backend # None /\ step # "ready"
      BY <1>6 DEF StepConsistent, SaltSteps
    <2>2. ~backend.useNewHash => SaltOf(backend.passhash, Sha1)
      BY <2>1 DEF KeyInUse
    <2> QED BY <1>6, <2>1, <2>2 DEF KeyInUse, Strand, SaltSteps, SaltOf, Own
  <1>7. CASE RemoveSalt \/ CreateSalt
    BY <1>6, <1>7 DEF RemoveSalt, CreateSalt, SaltSteps
  <1>8. CASE WriteSalt
    <2>1. backend # None /\ arg \in Password /\ Own \in Name
      BY <1>8, OwnType DEF WriteSalt, StepConsistent, SaltSteps
    <2> QED BY <1>4, <1>6, <1>8, <2>1 DEF WriteSalt, SaltSteps, TypeOK
  <1>9. CASE MakeFile
    <2>1. backend \in Backend
      BY <1>9, OwnType DEF MakeFile, StepConsistent
    <2>2. /\ backend'.useNewHash = backend.useNewHash /\ backend'.passhash = backend.passhash
          /\ backend'.newPassHash = backend.newPassHash /\ backend'.name = Own
      BY <1>9, <2>1 DEF MakeFile, Backend, Own
    <2> QED BY <1>9, <2>1, <2>2, BackendIsNotNone DEF MakeFile, KeyInUse, Own, SaltOf
  <1>10. ASSUME backend \in Backend, KeyInUse, UNCHANGED <<salt, stranded>>,
                backend'.name = Own, backend'.useNewHash = backend.useNewHash,
                backend'.newPassHash = backend.newPassHash,
                ~backend.useNewHash => backend'.passhash = backend.passhash,
                step \in {"file", "creating"} \/ (step = "ready" /\ backend.open),
                step' \in {"file", "creating", "ready", "moving"}
         PROVE  KeyInUse'
    BY <1>10, BackendIsNotNone DEF KeyInUse, Own, SaltOf
  <1>11. CASE CreateFile
    <2>1. backend \in Backend /\ (Saved(Swapped) \/ NotSaved)
      BY <1>11, OwnType DEF CreateFile, StepConsistent
    <2>2. CASE Saved(Swapped)
      BY <1>10, <1>11, <2>1, <2>2, OwnType, SwappedKeepsKey DEF CreateFile, StepConsistent, Saved
    <2>3. CASE NotSaved
      BY <1>10, <1>11, <2>1, <2>3, OwnType, NotSavedKeepsKey DEF CreateFile, StepConsistent
    <2> QED BY <2>1, <2>2, <2>3
  <1>12. CASE ReadFile
    <2>1. backend \in Backend
      BY <1>12, OwnType DEF ReadFile, StepConsistent
    <2>2. /\ backend'.useNewHash = backend.useNewHash /\ backend'.name = Own
          /\ backend'.newPassHash = backend.newPassHash
          /\ ~backend.useNewHash => backend'.passhash = backend.passhash
      BY <1>12, <2>1 DEF ReadFile, Loaded, SyncKey, Backend, Own
    <2> QED BY <1>10, <1>12, <2>1, <2>2 DEF ReadFile
  <1>13. ASSUME step = "ready", step' = "ready", backend # None, NotSaved,
                UNCHANGED <<salt, stranded>>
         PROVE  KeyInUse'
    BY <1>10, <1>13, OwnType, NotSavedKeepsKey DEF KeyInUse
  <1>14. CASE Sync
    <2>1. CASE Saved(Swapped)
      BY <1>10, <1>14, <2>1, OwnType, SwappedKeepsKey DEF Sync, Ready, Saved
    <2>2. CASE NotSaved
      BY <1>13, <1>14, <2>2 DEF Sync, Ready
    <2> QED BY <1>14, <2>1, <2>2 DEF Sync
  <1>15. ASSUME NEW save \in BOOLEAN, Close(save) PROVE KeyInUse'
    <2>1. backend \in Backend /\ step' = "ready"
      BY <1>15, OwnType DEF Close, Ready
    <2>2. CASE backend' = Cleared
      <3>1. ~backend'.open
        BY <2>1, <2>2 DEF Cleared, Backend
      <3> QED BY <2>1, <3>1 DEF KeyInUse
    <2>3. CASE NotSaved
      BY <1>13, <1>15, <2>3 DEF Close, Ready
    <2> QED BY <1>15, <2>2, <2>3 DEF Close, Saved
  <1>16. CASE Destroy \/ Kill
    BY <1>16 DEF Destroy, Kill, KeyInUse
  <1>17. CASE WriteEntry
    <2>1. backend \in Backend
      BY <1>17, OwnType DEF WriteEntry, Ready
    <2>2. /\ backend'.useNewHash = backend.useNewHash /\ backend'.passhash = backend.passhash
          /\ backend'.newPassHash = backend.newPassHash /\ backend'.name = Own
      BY <1>17, <2>1 DEF WriteEntry, Backend, Own
    <2> QED BY <1>10, <1>17, <2>1, <2>2 DEF WriteEntry, Ready
  <1>18. ASSUME NEW n \in Name, RenameWallet(n) PROVE KeyInUse'
    <2> DEFINE b == [Swapped EXCEPT !.open = FALSE, !.data = 0]
    <2>1. backend \in Backend /\ Swapped \in Backend /\ step = "ready"
      BY <1>18, OwnType, SyncKeyType DEF RenameWallet, Ready
    <2>2. CASE Saved(b) /\ step' = "moving"
      <3>1. /\ b.name = Own /\ b.useNewHash = backend.useNewHash
            /\ b.newPassHash = backend.newPassHash
            /\ ~backend.useNewHash => b.passhash = backend.passhash
        BY <2>1, SwappedKeepsKey DEF Backend
      <3> HIDE DEF b
      <3> QED BY <1>10, <1>18, <2>1, <2>2, <3>1 DEF RenameWallet, Saved
    <2>3. CASE NotSaved /\ UNCHANGED step
      BY <1>13, <1>18, <2>3 DEF RenameWallet, Ready
    <2> QED BY <1>18, <2>2, <2>3 DEF RenameWallet
  <1>19. CASE MoveFile
    BY <1>19 DEF MoveFile, KeyInUse, StepConsistent, SaltOf, Own
  <1>20. CASE MoveSalt
    <2>1. backend \in Backend /\ step # "ready"
      BY <1>20, OwnType DEF MoveSalt, StepConsistent
    <2>2. /\ backend'.useNewHash = backend.useNewHash /\ backend'.name = arg
          /\ backend'.newPassHash = backend.newPassHash
          /\ backend'.passhash = backend.passhash /\ step' = "file"
      BY <1>20, <2>1 DEF MoveSalt, Backend
    <2>3. ~backend.useNewHash => SaltOf(backend.passhash, Sha1)
      BY <2>1, BackendIsNotNone DEF KeyInUse
    <2>4. ASSUME backend.useNewHash, arg \notin stranded'
          PROVE  SaltOf(backend.newPassHash, salt'[arg])
      BY <1>20, <2>4, SaltFollows
    <2> QED BY <2>2, <2>3, <2>4 DEF KeyInUse, Own, SaltOf
  <1>21. ASSUME NEW n \in Name, DeleteFile(n) PROVE KeyInUse'
    BY <1>21 DEF DeleteFile, KeyInUse
  <1>22. CASE DeleteSalt
    BY <1>22 DEF DeleteSalt, KeyInUse, StepConsistent
  <1>23. CASE UNCHANGED vars
    BY <1>23 DEF vars, KeyInUse, Own, SaltOf
  <1>24. ASSUME NEW p \in Password, Open(p) PROVE KeyInUse'
    BY <1>2, <1>24 DEF Open
  <1> QED
    BY <1>1, <1>2, <1>3, <1>5, <1>7, <1>8, <1>9, <1>11, <1>12, <1>14, <1>15, <1>16, <1>17,
       <1>18, <1>19, <1>20, <1>21, <1>22, <1>23, <1>24 DEF Next

-----------------------------------------------------------------------------
(* The files *)

AllReadable == Readable /\ OldReadable

LEMMA WalletIsFile ==
  ASSUME TypeOK, NEW n \in Name, IsWallet(n)
  PROVE  kwl[n] \in File
  BY DEF TypeOK, IsWallet

LEMMA OldNeedsNoSalt ==
  ASSUME NEW f \in File, f.version # 1, NEW s, NEW t, Opens(f, s)
  PROVE  Opens(f, t)
  BY DEF Opens

\* No wallet opens with a .salt file that is absent or empty, except old ones.
LEMMA NoSaltIsStranded ==
  ASSUME TypeOK, Readable, NEW n \in Name, salt[n] \in {Absent, Empty}, Upgraded(n)
  PROVE  n \in stranded
  <1>1. kwl[n] \in File /\ kwl[n].version = 1 /\ IsWallet(n)
    BY WalletIsFile DEF Upgraded
  <1> SUFFICES ASSUME n \notin stranded PROVE FALSE
    OBVIOUS
  <1>2. PICK p \in Password : kwl[n].key = [password |-> p, salt |-> salt[n]]
    BY <1>1 DEF Readable, Opens
  <1>3. kwl[n].key \in Key /\ kwl[n].key.salt = salt[n] /\ salt[n] \notin Salt \cup {Sha1}
    BY <1>1, <1>2, BackendAssumption DEF File
  <1>4. kwl[n].key = Zero
    BY <1>3 DEF Key, Hash
  <1> QED BY <1>2, <1>3, <1>4, BackendAssumption DEF Key, Hash

LEMMA KeyOpens ==
  ASSUME NEW key \in Key, NEW s, SaltOf(key, s)
  PROVE  \E p \in Password : key = [password |-> p, salt |-> s]
  BY DEF SaltOf, Key, Hash

\* What sync() writes, the password and the .salt file open.
LEMMA SavedReadable ==
  ASSUME TypeOK, KeyInUse, AllReadable, backend # None, NEW b, Saved(b),
         step \in {"ready", "creating"}, UNCHANGED <<salt, stranded>>
  PROVE  AllReadable'
  <1> DEFINE f == [version |-> IF backend.useNewHash THEN 1 ELSE 0,
                   key |-> SyncKey, data |-> backend.data]
  <1>1. backend \in Backend /\ Own \in Name /\ backend.open /\ SyncKey \in Key
    BY OwnType, SyncKeyType DEF Saved
  <1>2. kwl' = [kwl EXCEPT ![Own] = f] /\ kwl \in [Name -> {Absent, Junk} \cup File]
    BY DEF Saved, TypeOK
  <1>3. ASSUME ~backend.useNewHash PROVE f.version # 1 /\ Opens(f, salt[Own])
    <2>1. SaltOf(SyncKey, Sha1)
      BY <1>1, <1>3 DEF KeyInUse, SyncKey
    <2>2. \E p \in Password : SyncKey = [password |-> p, salt |-> Sha1]
      BY <1>1, <2>1, KeyOpens
    <2> QED BY <1>3, <2>2 DEF Opens
  <1>4. ASSUME backend.useNewHash, Own \notin stranded PROVE Opens(f, salt[Own])
    <2>1. SaltOf(SyncKey, salt[Own])
      BY <1>1, <1>4 DEF KeyInUse, SyncKey
    <2>2. \E p \in Password : SyncKey = [password |-> p, salt |-> salt[Own]]
      BY <1>1, <2>1, KeyOpens
    <2> QED BY <1>4, <2>2 DEF Opens
  <1>5. f.version = 1 <=> backend.useNewHash
    OBVIOUS
  <1> HIDE DEF f
  <1>6. kwl'[Own] = f /\ \A n \in Name \ {Own} : kwl'[n] = kwl[n]
    BY <1>1, <1>2
  <1> SUFFICES ASSUME NEW n \in Name, IsWallet(n)', n \notin stranded \/ ~Upgraded(n)'
               PROVE  Opens(kwl'[n], salt[n])
    BY DEF AllReadable, Readable, OldReadable
  <1>7. CASE n = Own
    BY <1>3, <1>4, <1>5, <1>6, <1>7 DEF Upgraded
  <1>8. CASE n # Own
    <2>1. kwl'[n] = kwl[n]
      BY <1>6, <1>8
    <2>2. IsWallet(n) /\ (n \notin stranded \/ ~Upgraded(n))
      BY <2>1 DEF IsWallet, Upgraded
    <2> QED BY <2>1, <2>2 DEF AllReadable, Readable, OldReadable
  <1> QED BY <1>7, <1>8

\* The files and what is known of them are as before, or there is one file less.
LEMMA FewerReadable ==
  ASSUME AllReadable, UNCHANGED salt, stranded \subseteq stranded' \cup {n \in Name : ~IsWallet(n)'},
         \A n \in Name : kwl'[n] = kwl[n] \/ ~IsWallet(n)'
  PROVE  AllReadable'
  <1> SUFFICES ASSUME NEW n \in Name, IsWallet(n)', n \notin stranded' \/ ~Upgraded(n)'
               PROVE  Opens(kwl'[n], salt[n])
    BY DEF AllReadable, Readable, OldReadable
  <1>1. kwl'[n] = kwl[n]
    OBVIOUS
  <1>2. IsWallet(n) /\ (n \notin stranded \/ ~Upgraded(n))
    BY <1>1 DEF IsWallet, Upgraded
  <1> QED BY <1>1, <1>2 DEF AllReadable, Readable, OldReadable

\* One .salt file changed, and its wallet is old or known to be stranded.
LEMMA SaltReadable ==
  ASSUME TypeOK, AllReadable, UNCHANGED kwl, NEW m \in Name, NEW s,
         salt' = [salt EXCEPT ![m] = s], stranded \subseteq stranded',
         Upgraded(m) => m \in stranded'
  PROVE  AllReadable'
  <1> SUFFICES ASSUME NEW n \in Name, IsWallet(n)', n \notin stranded' \/ ~Upgraded(n)'
               PROVE  Opens(kwl[n], salt'[n])
    BY DEF AllReadable, Readable, OldReadable
  <1>1. IsWallet(n) /\ (n \notin stranded \/ ~Upgraded(n)) /\ Upgraded(n)' = Upgraded(n)
    BY DEF IsWallet, Upgraded
  <1>2. Opens(kwl[n], salt[n]) /\ kwl[n] \in File
    BY <1>1, WalletIsFile DEF AllReadable, Readable, OldReadable
  <1>3. CASE n = m
    <2>1. ~Upgraded(n)
      BY <1>1, <1>3
    <2>2. kwl[n].version # 1
      BY <1>1, <2>1 DEF Upgraded
    <2> QED BY <1>2, <2>2, OldNeedsNoSalt
  <1>4. CASE n # m
    BY <1>2, <1>4 DEF TypeOK
  <1> QED BY <1>3, <1>4

\* The two names of a rename, once its last step is done.
LEMMA MovedReadable ==
  ASSUME TypeOK, StepConsistent, KeyInUse, AllReadable, MoveSalt,
         NEW n \in {Own, arg}, Upgraded(n), n \notin stranded'
  PROVE  Opens(kwl[n], salt'[n])
  <1>1. /\ backend # None /\ backend \in Backend /\ Own \in Name /\ arg \in Name
        /\ arg # Own /\ step = "movingSalt"
    BY OwnType DEF MoveSalt, StepConsistent
  <1>2. PICK moves \in BOOLEAN :
          /\ salt' = IF moves THEN SaltMoved ELSE salt
          /\ stranded' = (stranded \ {Own, arg}) \cup Parted(moves)
    BY DEF MoveSalt
  <1>3. IsWallet(n) /\ kwl[n].version = 1 /\ n \in Name
    BY <1>1 DEF Upgraded
  <1>4. Written(n) /\ backend.useNewHash
    <2>1. Written(n)
      BY <1>1, <1>3 DEF StepConsistent, IsWallet
    <2> QED BY <1>3, <2>1 DEF Written
  <1>5. CASE n = arg
    <2>1. SaltOf(SyncKey, salt'[arg]) /\ SyncKey \in Key
      BY <1>1, <1>4, <1>5, SaltFollows, SyncKeyType DEF SyncKey
    <2>2. \E p \in Password : SyncKey = [password |-> p, salt |-> salt'[arg]]
      BY <2>1, KeyOpens
    <2> QED BY <1>3, <1>4, <1>5, <2>2 DEF Opens, Written
  <1>6. CASE n = Own
    <2>1. ~moves /\ Own \notin stranded
      BY <1>2, <1>3, <1>4, <1>6 DEF Parted
    <2>2. salt' = salt
      BY <1>2, <2>1
    <2> QED BY <1>3, <1>6, <2>1, <2>2 DEF AllReadable, Readable
  <1> QED BY <1>5, <1>6

LEMMA ReadableStep == TypeOK /\ StepConsistent /\ KeyInUse /\ AllReadable /\ [Next]_vars => AllReadable'
  <1> SUFFICES ASSUME TypeOK, StepConsistent, KeyInUse, AllReadable, [Next]_vars PROVE AllReadable'
    OBVIOUS
  <1>1. ASSUME UNCHANGED <<kwl, salt>>, stranded \subseteq stranded' PROVE AllReadable'
    BY <1>1, FewerReadable
  <1>2. ASSUME NEW n \in Name, NEW c, New(n, c) PROVE AllReadable'
    BY <1>1, <1>2 DEF New
  <1>3. ASSUME NEW p, Open(p) \/ OpenPreHashed(p) \/ StartPassword(p, "ready") PROVE AllReadable'
    BY <1>1, <1>3 DEF Open, OpenPreHashed, StartPassword
  <1>4. CASE ReadSalt \/ ReadFile \/ Destroy \/ WriteEntry \/ Kill \/ UNCHANGED vars
    BY <1>1, <1>4 DEF ReadSalt, ReadFile, Destroy, WriteEntry, Kill, vars
  <1>5. CASE RemoveSalt
    <2>1. backend # None /\ Own \in Name
      BY <1>5, OwnType DEF RemoveSalt, StepConsistent, SaltSteps
    <2>2. Upgraded(Own) => Own \in stranded'
      BY <1>5, <2>1, NoSaltIsStranded DEF RemoveSalt, Strand, AllReadable
    <2>3. stranded \subseteq stranded'
      BY <1>5 DEF RemoveSalt, Strand
    <2> QED BY <1>5, <2>1, <2>2, <2>3, SaltReadable DEF RemoveSalt
  <1>6. CASE CreateSalt
    <2>1. Own \in Name /\ salt[Own] = Absent
      BY <1>6, OwnType DEF CreateSalt, StepConsistent, SaltSteps
    <2>2. Upgraded(Own) => Own \in stranded
      BY <2>1, NoSaltIsStranded DEF AllReadable
    <2>3. stranded \subseteq stranded'
      BY <1>6 DEF CreateSalt, Strand
    <2> QED BY <1>1, <1>6, <2>1, <2>2, <2>3, SaltReadable DEF CreateSalt
  <1>7. CASE WriteSalt
    <2>1. Own \in Name /\ salt[Own] = Empty
      BY <1>7, OwnType DEF WriteSalt, StepConsistent, SaltSteps
    <2>2. Upgraded(Own) => Own \in stranded
      BY <2>1, NoSaltIsStranded DEF AllReadable
    <2>3. stranded \subseteq stranded'
      BY <1>7 DEF WriteSalt, Strand
    <2>4. PICK s : UNCHANGED salt \/ salt' = [salt EXCEPT ![Own] = s]
      BY <1>7 DEF WriteSalt
    <2>5. UNCHANGED kwl
      BY <1>7 DEF WriteSalt
    <2> QED BY <1>1, <2>1, <2>2, <2>3, <2>4, <2>5, SaltReadable
  <1>8. CASE MakeFile
    <2>1. Own \in Name
      BY <1>8, OwnType DEF MakeFile, StepConsistent
    <2>2. \A n \in Name : kwl'[n] = kwl[n] \/ ~IsWallet(n)'
      BY <1>8, <2>1 DEF MakeFile, IsWallet, TypeOK
    <2> QED BY <1>8, <2>2, FewerReadable DEF MakeFile
  <1>9. CASE CreateFile
    BY <1>1, <1>9, SavedReadable DEF CreateFile, StepConsistent, NotSaved
  <1>10. CASE Sync
    BY <1>1, <1>10, SavedReadable DEF Sync, Ready, NotSaved
  <1>11. ASSUME NEW save \in BOOLEAN, Close(save) PROVE AllReadable'
    BY <1>1, <1>11, SavedReadable DEF Close, Ready, NotSaved
  <1>12. ASSUME NEW n \in Name, RenameWallet(n) PROVE AllReadable'
    BY <1>1, <1>12, SavedReadable DEF RenameWallet, Ready, NotSaved
  <1>13. CASE MoveFile
    <2>1. Own \in Name /\ arg \in Name /\ arg # Own /\ UNCHANGED salt
      BY <1>13, OwnType DEF MoveFile, StepConsistent
    <2>2. CASE UNCHANGED <<kwl, stranded>>
      BY <1>1, <2>1, <2>2
    <2>3. CASE /\ kwl' = Moved(kwl, Own, arg)
               /\ stranded' = stranded \cup (IF Upgraded(Own) THEN {arg} ELSE {})
      <3>1. kwl'[arg] = kwl[Own] /\ kwl'[Own] = Absent
            /\ \A n \in Name \ {Own, arg} : kwl'[n] = kwl[n]
        BY <2>1, <2>3 DEF Moved, TypeOK
      <3> SUFFICES ASSUME NEW n \in Name, IsWallet(n)', n \notin stranded' \/ ~Upgraded(n)'
                   PROVE  Opens(kwl'[n], salt[n])
        BY <2>1 DEF AllReadable, Readable, OldReadable
      <3>2. CASE n = arg
        <4>1. IsWallet(Own) /\ ~Upgraded(Own)
          BY <2>3, <3>1, <3>2 DEF IsWallet, Upgraded
        <4>2. Opens(kwl[Own], salt[Own]) /\ kwl[Own] \in File /\ kwl[Own].version # 1
          BY <2>1, <4>1, WalletIsFile DEF AllReadable, OldReadable, Upgraded
        <4> QED BY <3>1, <3>2, <4>2, OldNeedsNoSalt
      <3>3. CASE n # arg
        <4>1. n # Own /\ kwl'[n] = kwl[n]
          BY <2>1, <3>1, <3>3 DEF IsWallet
        <4>2. IsWallet(n) /\ (n \notin stranded \/ ~Upgraded(n))
          BY <2>3, <4>1 DEF IsWallet, Upgraded
        <4> QED BY <4>1, <4>2 DEF AllReadable, Readable, OldReadable
      <3> QED BY <3>2, <3>3
    <2> QED BY <1>13, <2>2, <2>3 DEF MoveFile
  <1>14. CASE MoveSalt
    <2>1. Own \in Name /\ arg \in Name /\ UNCHANGED kwl
      BY <1>14, OwnType DEF MoveSalt, StepConsistent
    <2>2. \A n \in Name \ {Own, arg} : salt'[n] = salt[n]
      BY <1>14, <2>1 DEF MoveSalt, SaltMoved, Moved, TypeOK
    <2>3. \A n \in Name \ {Own, arg} : n \in stranded => n \in stranded'
      BY <1>14 DEF MoveSalt
    <2> SUFFICES ASSUME NEW n \in Name, IsWallet(n)', n \notin stranded' \/ ~Upgraded(n)'
                 PROVE  Opens(kwl[n], salt'[n])
      BY <2>1 DEF AllReadable, Readable, OldReadable
    <2>4. IsWallet(n) /\ Upgraded(n)' = Upgraded(n)
      BY <2>1 DEF IsWallet, Upgraded
    <2>5. CASE ~Upgraded(n)
      <3>1. Opens(kwl[n], salt[n]) /\ kwl[n] \in File /\ kwl[n].version # 1
        BY <2>4, <2>5, WalletIsFile DEF AllReadable, OldReadable, Upgraded
      <3> QED BY <3>1, OldNeedsNoSalt
    <2>6. CASE Upgraded(n) /\ n \in {Own, arg}
      BY <1>14, <2>4, <2>6, MovedReadable
    <2>7. CASE Upgraded(n) /\ n \notin {Own, arg}
      BY <2>2, <2>3, <2>4, <2>7 DEF AllReadable, Readable
    <2> QED BY <2>5, <2>6, <2>7
  <1>15. ASSUME NEW n \in Name, DeleteFile(n) PROVE AllReadable'
    <2>1. \A m \in Name : kwl'[m] = kwl[m] \/ (m = n /\ ~IsWallet(m)')
      BY <1>15 DEF DeleteFile, IsWallet, TypeOK
    <2>2. stranded \subseteq stranded' \cup {m \in Name : ~IsWallet(m)'}
      BY <1>15 DEF DeleteFile, IsWallet, TypeOK
    <2>3. UNCHANGED salt
      BY <1>15 DEF DeleteFile
    <2> QED BY <2>1, <2>2, <2>3, FewerReadable
  <1>16. CASE DeleteSalt
    <2>1. arg \in Name /\ UNCHANGED kwl /\ stranded \subseteq stranded'
      BY <1>16 DEF DeleteSalt, StepConsistent
    <2>2. CASE UNCHANGED salt
      BY <1>1, <2>1, <2>2
    <2>3. CASE /\ salt' = [salt EXCEPT ![arg] = Absent]
               /\ stranded' = IF Upgraded(arg) THEN stranded \cup {arg} ELSE stranded
      BY <2>1, <2>3, SaltReadable
    <2> QED BY <1>16, <2>2, <2>3 DEF DeleteSalt
  <1> QED
    BY <1>2, <1>3, <1>4, <1>5, <1>6, <1>7, <1>8, <1>9, <1>10, <1>11, <1>12, <1>13, <1>14,
       <1>15, <1>16 DEF Next

-----------------------------------------------------------------------------
(* Versions and contents *)

Salted(k) == k = Zero \/ k.salt # Sha1

\* An open backend is never behind its file, neither in its contents nor in its
\* hash; the file a rename moves does not replace another.
Current ==
  /\ \A n \in Name : IsWallet(n) => kwl[n].data =< writes
  /\ \A n \in Name : Upgraded(n) => Salted(kwl[n].key)
  /\ step = "moving" => kwl[arg] = Absent
  /\ backend # None =>
       /\ backend.data =< writes /\ Salted(backend.newPassHash)
       /\ backend.open /\ IsWallet(Own) =>
            /\ backend.data >= kwl[Own].data
            /\ Upgraded(Own) => backend.useNewHash

LEMMA InitCurrent == Init => Current
  BY DEF Init, Current, IsWallet, Upgraded

\* What a step may do to the file of a wallet that stays one.
NoneOlder ==
  \A n \in Name : IsWallet(n) /\ IsWallet(n)' =>
    kwl'[n].data >= kwl[n].data /\ (Upgraded(n) => kwl'[n].version = 1)

CurrentStep == Current' /\ NoneOlder

LEMMA FilesTyped ==
  ASSUME TypeOK, NEW n \in Name, IsWallet(n)
  PROVE  kwl[n] \in File /\ kwl[n].data \in Nat
  BY DEF TypeOK, IsWallet, File

\* Steps that leave the files, and nothing newer in memory than what was there.
LEMMA SameFiles ==
  ASSUME TypeOK, Current, UNCHANGED <<kwl, writes>>, step' # "moving",
         \/ backend' = None
         \/ /\ backend' # None /\ backend'.data =< writes /\ Salted(backend'.newPassHash)
            /\ backend'.open => \/ ~IsWallet(backend'.name)
                                \/ /\ backend'.data >= kwl[backend'.name].data
                                   /\ Upgraded(backend'.name) => backend'.useNewHash
  PROVE  CurrentStep
  <1>1. NoneOlder
    BY FilesTyped DEF NoneOlder, IsWallet, Upgraded
  <1>2. Current'
    BY DEF Current, IsWallet, Upgraded, Own
  <1> QED BY <1>1, <1>2 DEF CurrentStep

LEMMA SavedCurrent ==
  ASSUME TypeOK, Current, backend # None, NEW b \in Backend, Saved(b), UNCHANGED writes,
         b.name = Own, Salted(b.newPassHash), b.data =< backend.data,
         b.open => b.data = backend.data /\ b.useNewHash = backend.useNewHash,
         step' = "moving" => arg' \in Name \ {Own} /\ kwl[arg'] = Absent
  PROVE  CurrentStep
  <1> DEFINE f == [version |-> IF backend.useNewHash THEN 1 ELSE 0,
                   key |-> SyncKey, data |-> backend.data]
  <1>1. Own \in Name /\ backend \in Backend /\ backend.open
    BY OwnType DEF Saved
  <1>2. kwl' = [kwl EXCEPT ![Own] = f] /\ backend' = b
    BY DEF Saved
  <1>3. /\ f.version \in {0, 1} /\ f.data = backend.data
        /\ f.version = 1 <=> backend.useNewHash
        /\ f.version = 1 => Salted(f.key)
    BY DEF SyncKey, Current
  <1>4. backend.data \in Nat /\ b.data \in Nat /\ writes \in Nat
    BY <1>1 DEF TypeOK, Backend
  <1>5. f \in File /\ f \notin {Absent, Junk}
    BY <1>1, <1>4, SyncKeyType, BackendAssumption DEF File
  <1> HIDE DEF f
  <1>6. kwl'[Own] = f /\ \A n \in Name \ {Own} : kwl'[n] = kwl[n]
    BY <1>1, <1>2 DEF TypeOK
  <1>7. NoneOlder
    <2> SUFFICES ASSUME NEW n \in Name, IsWallet(n), IsWallet(n)'
                 PROVE  kwl'[n].data >= kwl[n].data /\ (Upgraded(n) => kwl'[n].version = 1)
      BY DEF NoneOlder
    <2>1. CASE n = Own
      BY <1>1, <1>3, <1>6, <2>1 DEF Current
    <2>2. CASE n # Own
      BY <1>6, <2>2, FilesTyped DEF Upgraded
    <2> QED BY <2>1, <2>2
  <1>8. Current'
    <2>1. ASSUME NEW n \in Name, IsWallet(n)'
          PROVE  kwl'[n].data =< writes' /\ (Upgraded(n)' => Salted(kwl'[n].key))
      <3>1. CASE n = Own
        BY <1>3, <1>6, <3>1 DEF Current, Upgraded
      <3>2. CASE n # Own
        BY <1>6, <2>1, <3>2 DEF Current, Upgraded, IsWallet
      <3> QED BY <3>1, <3>2
    <2>2. step' = "moving" => kwl'[arg'] = Absent
      BY <1>6
    <2>3. b.data =< writes
      BY <1>4 DEF Current
    <2>4. b.open => /\ b.data >= kwl'[Own].data
                    /\ Upgraded(Own)' => b.useNewHash
      BY <1>2, <1>3, <1>4, <1>6 DEF Upgraded, Own
    <2> QED BY <1>2, <2>1, <2>2, <2>3, <2>4 DEF Current, Own, Upgraded
  <1> QED BY <1>7, <1>8 DEF CurrentStep

LEMMA NotSavedCurrent ==
  ASSUME TypeOK, Current, backend # None, NotSaved, UNCHANGED writes, step' # "moving"
  PROVE  CurrentStep
  <1>1. backend' \in {backend, Swapped} /\ UNCHANGED kwl
    BY DEF NotSaved
  <1>2. /\ backend'.data = backend.data /\ backend'.newPassHash = backend.newPassHash
        /\ backend'.open = backend.open /\ backend'.name = Own
        /\ backend'.useNewHash = backend.useNewHash /\ backend' \in Backend
    BY <1>1, OwnType, SyncKeyType DEF Swapped, Backend, Own
  <1> QED BY <1>1, <1>2, SameFiles, BackendIsNotNone DEF Current

LEMMA CurrentNext ==
  ASSUME TypeOK, StepConsistent, KeyInUse, Current, [Next]_vars
  PROVE  CurrentStep
  <1> USE BackendIsNotNone
  <1>1. backend # None =>
          /\ backend \in Backend /\ Own \in Name /\ backend.name = Own
          /\ backend.data \in Nat /\ writes \in Nat
    BY OwnType DEF TypeOK, Backend, Own
  <1>2. ASSUME backend # None, UNCHANGED <<kwl, writes>>, step' # "moving",
               backend' \in Backend, backend'.name = Own, backend'.data =< backend.data,
               Salted(backend'.newPassHash), backend'.open => backend.open,
               backend'.open => backend'.data = backend.data,
               backend.useNewHash => backend'.useNewHash
        PROVE  CurrentStep
    <2>1. backend' # None /\ backend'.data \in Nat /\ backend'.data =< writes
      BY <1>1, <1>2 DEF Current, Backend
    <2>2. backend'.open => \/ ~IsWallet(Own)
                           \/ /\ backend'.data >= kwl[Own].data
                              /\ Upgraded(Own) => backend'.useNewHash
      BY <1>1, <1>2 DEF Current
    <2> QED BY <1>2, <2>1, <2>2, SameFiles
  <1>3. ASSUME NEW n \in Name, NEW c \in {"unknown", "blowfish"}, New(n, c) PROVE CurrentStep
    <2>1. backend' \in Backend /\ ~backend'.open /\ backend'.data = 0 /\ backend'.newPassHash = Zero
      BY <1>3 DEF New, Backend, Key
    <2> QED BY <1>3, <2>1, SameFiles DEF New, Salted, TypeOK
  <1>4. ASSUME NEW p \in Password, NEW next \in {"ready", "file"}, StartPassword(p, next)
        PROVE  CurrentStep
    <2> DEFINE b == [backend EXCEPT !.passhash = [password |-> p, salt |-> Sha1],
                                    !.newPassHash = Zero]
    <2>1. /\ b \in Backend /\ b.name = Own /\ b.data = backend.data
          /\ b.open = backend.open /\ b.useNewHash = backend.useNewHash
          /\ b.newPassHash = Zero
      BY <1>1, <1>4 DEF StartPassword, Ready, Backend, Key, Hash
    <2>2. backend' = b /\ backend # None /\ step' = "salt" /\ UNCHANGED <<kwl, writes>>
      BY <1>4 DEF StartPassword, Ready
    <2> HIDE DEF b
    <2> QED BY <1>1, <1>2, <2>1, <2>2 DEF Salted
  <1>5. ASSUME NEW p \in Password, OpenPreHashed(p) PROVE CurrentStep
    <2> DEFINE hash == [password |-> p, salt |-> salt[Own]]
               b == [backend EXCEPT !.passhash = hash, !.newPassHash = hash, !.useNewHash = TRUE]
    <2>1. hash \in Hash /\ Salted(hash)
      BY <1>1, <1>5, BackendAssumption DEF OpenPreHashed, Ready, Hash, Salted
    <2> HIDE DEF hash
    <2>2. /\ b \in Backend /\ b.name = Own /\ b.data = backend.data
          /\ b.open = backend.open /\ b.useNewHash /\ b.newPassHash = hash
      BY <1>1, <1>5, <2>1 DEF OpenPreHashed, Ready, Backend, Key
    <2>3. backend' = b /\ backend # None /\ step' = "file" /\ UNCHANGED <<kwl, writes>>
      BY <1>5 DEF OpenPreHashed, Ready, hash
    <2> HIDE DEF b
    <2> QED BY <1>1, <1>2, <2>1, <2>2, <2>3
  <1>6. ASSUME backend # None, UNCHANGED <<kwl, writes>>, step' # "moving", arg \in Password,
               UNCHANGED backend \/ \E s \in Salt : Derive(s)
        PROVE  CurrentStep
    <2>1. CASE UNCHANGED backend
      BY <1>1, <1>2, <1>6, <2>1 DEF Current
    <2>2. ASSUME NEW s \in Salt, Derive(s) PROVE CurrentStep
      <3> DEFINE hash == [password |-> arg, salt |-> s]
                 b == [backend EXCEPT !.newPassHash = hash, !.useNewHash = TRUE]
      <3>1. hash \in Hash /\ Salted(hash)
        BY <1>6, BackendAssumption DEF Hash, Salted
      <3>2. backend' = b
        BY <2>2 DEF Derive
      <3> HIDE DEF hash
      <3>3. /\ b \in Backend /\ b.name = Own /\ b.data = backend.data
            /\ b.open = backend.open /\ b.useNewHash /\ b.newPassHash = hash
        BY <1>1, <1>6, <3>1 DEF Backend, Key
      <3> HIDE DEF b
      <3> QED BY <1>1, <1>2, <1>6, <3>1, <3>2, <3>3
    <2> QED BY <1>6, <2>1, <2>2
  <1>7. CASE ReadSalt \/ RemoveSalt \/ CreateSalt \/ WriteSalt
    <2>1. backend # None /\ arg \in Password /\ Own \in Name
      BY <1>1, <1>7 DEF ReadSalt, RemoveSalt, CreateSalt, WriteSalt, StepConsistent, SaltSteps
    <2>2. step' # "moving" /\ UNCHANGED <<kwl, writes>>
      BY <1>7 DEF ReadSalt, RemoveSalt, CreateSalt, WriteSalt, TypeOK
    <2>3. UNCHANGED backend \/ \E s \in Salt : Derive(s)
      BY <1>7, <2>1 DEF ReadSalt, RemoveSalt, CreateSalt, WriteSalt
    <2> QED BY <1>6, <2>1, <2>2, <2>3
  <1>8. CASE MakeFile
    <2>1. backend # None /\ step' # "moving" /\ UNCHANGED writes
      BY <1>8 DEF MakeFile, StepConsistent
    <2>2. CASE UNCHANGED <<kwl, backend>>
      BY <1>1, <1>2, <2>1, <2>2 DEF Current
    <2>3. CASE kwl' = [kwl EXCEPT ![Own] = Junk] /\ backend' = [backend EXCEPT !.open = TRUE]
      <3>1. ~IsWallet(Own)' /\ \A n \in Name \ {Own} : kwl'[n] = kwl[n]
        BY <1>1, <2>1, <2>3 DEF TypeOK, IsWallet, Own, Backend
      <3>2. NoneOlder
        BY <1>1, <2>1, <2>3, <3>1, FilesTyped DEF NoneOlder, IsWallet, Upgraded, TypeOK
      <3>3. /\ backend'.name = Own /\ backend'.data = backend.data
            /\ backend'.newPassHash = backend.newPassHash
        BY <1>1, <2>1, <2>3 DEF Backend
      <3> QED
        BY <1>1, <2>1, <2>3, <3>1, <3>2, <3>3
        DEF Current, CurrentStep, IsWallet, Upgraded, Own, TypeOK
    <2> QED BY <1>8, <2>2, <2>3 DEF MakeFile
  <1>9. backend # None =>
          /\ Swapped \in Backend /\ Swapped.name = Own /\ Swapped.data = backend.data
          /\ Swapped.open = backend.open /\ Swapped.useNewHash = backend.useNewHash
          /\ Salted(Swapped.newPassHash)
    BY <1>1, SyncKeyType DEF Swapped, Backend, Current
  <1>10. CASE CreateFile \/ Sync
    <2>1. backend # None /\ step' # "moving" /\ UNCHANGED writes
      BY <1>10 DEF CreateFile, Sync, Ready, StepConsistent
    <2> QED
      BY <1>1, <1>9, <1>10, <2>1, SavedCurrent, NotSavedCurrent DEF CreateFile, Sync
  <1>11. CASE ReadFile
    <2> DEFINE hash == IF kwl[Own].version = 1 THEN SyncKey ELSE backend.passhash
               b == [backend EXCEPT !.passhash = hash, !.cipher = "blowfish"]
    <2>1. /\ backend # None /\ step' = "ready" /\ step = "file" /\ IsWallet(Own)
          /\ UNCHANGED <<kwl, writes>>
      BY <1>11 DEF ReadFile, StepConsistent
    <2>2. kwl[Own] \in File /\ kwl[Own].data \in Nat /\ kwl[Own].data =< writes
      BY <1>1, <2>1, FilesTyped DEF Current
    <2>3. hash \in Key
      BY <1>1, <2>1, SyncKeyType DEF Backend
    <2>4. backend' \in {backend, b} \/ (backend' = Loaded(b) /\ hash = kwl[Own].key)
      BY <1>11 DEF ReadFile
    <2>5. CASE backend' = backend
      BY <1>1, <1>2, <2>1, <2>5 DEF Current
    <2>6. CASE backend' = b
      <3>1. /\ b \in Backend /\ b.name = Own /\ b.data = backend.data
            /\ b.open = backend.open /\ b.useNewHash = backend.useNewHash
            /\ b.newPassHash = backend.newPassHash
        <4> HIDE DEF hash
        <4> QED BY <1>1, <2>1, <2>3 DEF Backend
      <3> HIDE DEF b
      <3> QED BY <1>1, <1>2, <2>1, <2>6, <3>1 DEF Current
    <2>7. CASE backend' = Loaded(b) /\ hash = kwl[Own].key
      <3>1. Upgraded(Own) => backend.useNewHash
        <4> SUFFICES ASSUME Upgraded(Own), ~backend.useNewHash PROVE FALSE
          BY <1>1, <2>1 DEF Backend
        <4>1. hash = backend.passhash
          BY DEF SyncKey, Upgraded
        <4>2. SaltOf(backend.passhash, Sha1)
          BY <2>1 DEF KeyInUse
        <4>3. Salted(kwl[Own].key)
          BY <1>1, <2>1 DEF Current
        <4> QED BY <2>7, <4>1, <4>2, <4>3 DEF SaltOf, Salted
      <3>2. /\ Loaded(b) \in Backend /\ Loaded(b).name = Own /\ Loaded(b).data = kwl[Own].data
            /\ Loaded(b).useNewHash = backend.useNewHash
            /\ Loaded(b).newPassHash = backend.newPassHash
        <4> HIDE DEF hash
        <4> QED BY <1>1, <2>1, <2>2, <2>3 DEF Loaded, Backend
      <3> HIDE DEF b, hash
      <3>3. backend'.name = Own /\ backend'.data >= kwl[Own].data /\ backend'.data =< writes
        BY <2>2, <2>7, <3>2
      <3>4. Salted(backend'.newPassHash) /\ backend' # None
        BY <2>1, <2>7, <3>2 DEF Current
      <3> QED BY <2>1, <2>7, <3>1, <3>2, <3>3, <3>4, SameFiles
    <2> QED BY <2>4, <2>5, <2>6, <2>7
  <1>12. backend # None =>
          /\ Cleared \in Backend /\ Cleared.name = Own /\ Cleared.data = 0
          /\ ~Cleared.open /\ Salted(Cleared.newPassHash)
          /\ Cleared.useNewHash = backend.useNewHash
    BY <1>1 DEF Cleared, Backend, Key, Salted
  <1>13. ASSUME NEW save \in BOOLEAN, Close(save) PROVE CurrentStep
    <2>1. backend # None /\ step' # "moving" /\ UNCHANGED writes
      BY <1>13 DEF Close, Ready
    <2>2. CASE backend' = Cleared /\ UNCHANGED kwl
      BY <1>1, <1>2, <1>12, <2>1, <2>2
    <2> QED
      BY <1>1, <1>12, <1>13, <2>1, <2>2, SavedCurrent, NotSavedCurrent DEF Close
  <1>14. CASE Destroy \/ Kill
    BY <1>14, SameFiles DEF Destroy, Kill, Ready
  <1>15. CASE WriteEntry
    <2>1. backend # None /\ backend.open /\ step' # "moving" /\ UNCHANGED kwl /\ writes' = writes + 1
      BY <1>15 DEF WriteEntry, Ready
    <2>2. /\ backend' \in Backend /\ backend'.name = Own /\ backend'.data = writes + 1
          /\ backend'.newPassHash = backend.newPassHash
          /\ backend'.useNewHash = backend.useNewHash
      BY <1>1, <1>15, <2>1 DEF WriteEntry, Backend
    <2>3. \A n \in Name : IsWallet(n) => kwl[n].data \in Nat /\ kwl[n].data =< writes
      BY FilesTyped DEF Current
    <2>4. NoneOlder
      BY <2>1, <2>3 DEF NoneOlder, IsWallet, Upgraded
    <2>5. \A n \in Name : IsWallet(n) => kwl[n].data =< writes + 1
      BY <1>1, <2>1, <2>3
    <2>6. Current'
      BY <1>1, <2>1, <2>2, <2>5 DEF Current, IsWallet, Upgraded, Own
    <2> QED BY <2>4, <2>6 DEF CurrentStep
  <1>16. ASSUME NEW n \in Name, RenameWallet(n) PROVE CurrentStep
    <2>1. backend # None /\ n # Own /\ kwl[n] = Absent /\ UNCHANGED writes /\ step = "ready"
      BY <1>16 DEF RenameWallet, Ready
    <2> DEFINE b == [Swapped EXCEPT !.open = FALSE, !.data = 0]
    <2>2. CASE Saved(b) /\ step' = "moving" /\ arg' = n
      <3>1. /\ b \in Backend /\ b.name = Own /\ b.data = 0 /\ ~b.open
            /\ Salted(b.newPassHash)
        BY <1>1, <1>9, <2>1 DEF Backend
      <3> HIDE DEF b
      <3> QED BY <1>1, <2>1, <2>2, <3>1, SavedCurrent
    <2>3. CASE NotSaved /\ UNCHANGED step
      BY <2>1, <2>3, NotSavedCurrent
    <2> QED BY <1>16, <2>2, <2>3 DEF RenameWallet
  <1>17. CASE MoveFile
    <2>1. /\ backend # None /\ arg \in Name /\ arg # Own /\ ~backend.open /\ kwl[arg] = Absent
          /\ UNCHANGED <<backend, writes>> /\ step' # "moving" /\ Own \in Name
      BY <1>1, <1>17 DEF MoveFile, StepConsistent, Current
    <2>2. \A n \in Name : kwl'[n] \in {kwl[n], Absent} \/ (n = arg /\ kwl'[n] = kwl[Own])
      BY <1>17, <2>1 DEF MoveFile, Moved, TypeOK
    <2>3. NoneOlder
      BY <2>1, <2>2, FilesTyped DEF NoneOlder, IsWallet, Upgraded
    <2>4. \A n \in Name : IsWallet(n)' =>
            kwl'[n].data =< writes /\ (kwl'[n].version = 1 => Salted(kwl'[n].key))
      BY <2>1, <2>2 DEF Current, IsWallet, Upgraded
    <2>5. Current'
      BY <2>1, <2>4 DEF Current, Upgraded
    <2> QED BY <2>3, <2>5 DEF CurrentStep
  <1>18. CASE MoveSalt
    <2>1. backend # None /\ ~backend.open /\ UNCHANGED <<kwl, writes>> /\ step' = "file"
          /\ arg \in Name
      BY <1>18 DEF MoveSalt, StepConsistent
    <2>2. /\ backend' \in Backend /\ ~backend'.open /\ backend'.data = backend.data
          /\ backend'.newPassHash = backend.newPassHash
      BY <1>1, <1>18, <2>1 DEF MoveSalt, Backend
    <2> QED BY <2>1, <2>2, SameFiles DEF Current
  <1>19. ASSUME NEW n \in Name, DeleteFile(n) PROVE CurrentStep
    <2>1. backend' = None /\ UNCHANGED writes /\ step' # "moving"
          /\ \A m \in Name : kwl'[m] \in {kwl[m], Absent}
      BY <1>19 DEF DeleteFile, TypeOK
    <2>2. NoneOlder
      BY <2>1, FilesTyped DEF NoneOlder, IsWallet, Upgraded
    <2>3. Current'
      BY <2>1 DEF Current, IsWallet, Upgraded
    <2> QED BY <2>2, <2>3 DEF CurrentStep
  <1>20. CASE DeleteSalt
    <2>1. backend' = None /\ UNCHANGED <<kwl, writes>> /\ step' # "moving"
      BY <1>20 DEF DeleteSalt, StepConsistent
    <2> QED BY <2>1, SameFiles
  <1>21. CASE UNCHANGED vars
    <2>1. NoneOlder
      BY <1>21, FilesTyped DEF NoneOlder, IsWallet, Upgraded, vars
    <2>2. Current'
      BY <1>21 DEF Current, IsWallet, Upgraded, Own, vars
    <2> QED BY <2>1, <2>2 DEF CurrentStep
  <1>22. ASSUME NEW p \in Password, Open(p) \/ StartPassword(p, "ready") PROVE CurrentStep
    BY <1>4, <1>22 DEF Open
  <1> QED
    BY <1>3, <1>5, <1>7, <1>8, <1>10, <1>11, <1>13, <1>14, <1>15, <1>16, <1>17,
       <1>18, <1>19, <1>20, <1>21, <1>22 DEF Next

-----------------------------------------------------------------------------
(* The theorems *)

LEMMA BackendAlways == Spec => []BackendInvariant
  <1>1. BackendInvariant /\ [Next]_vars => BackendInvariant'
    BY TypeStep, StepStep, KeyStep, ReadableStep DEF BackendInvariant, Structure, AllReadable
  <1> QED BY <1>1, InitInvariant, PTL DEF Spec

\* An open backend saves under a key that the password and the .salt file give
\* back, wherever a call failed or the process died.
THEOREM KeysAreKept == Spec => []Structure
  BY BackendAlways, PTL DEF BackendInvariant

\* No crash, failed save, change of password, upgrade of the hash or rename
\* leaves a wallet nobody can open, outside the places where a salt is lost.
THEOREM WalletsStayReadable == Spec => []Readable
  BY BackendAlways, PTL DEF BackendInvariant

\* No step takes a wallet back to the old hash, or to older contents.
LEMMA NeverOlder == Spec => [][NoneOlder]_vars
  <1>1. BackendInvariant /\ Current /\ [Next]_vars => Current' /\ NoneOlder
    BY CurrentNext DEF BackendInvariant, Structure, CurrentStep
  <1> QED BY <1>1, BackendAlways, InitCurrent, PTL DEF Spec

\* A wallet upgraded to PBKDF2 is never written under the old hash again.
THEOREM UpgradesStay == Spec => NoDowngrade
  <1>1. NoneOlder => \A n \in Name : Upgraded(n) /\ IsWallet(n)' => kwl'[n].version = 1
    BY DEF NoneOlder, Upgraded
  <1> QED BY <1>1, NeverOlder, PTL DEF NoDowngrade

\* No save, of whatever backend, replaces newer contents by older ones.
THEOREM ContentsStayNew == Spec => NoOlderContents
  <1>1. NoneOlder =>
          \A n \in Name : IsWallet(n) /\ IsWallet(n)' => kwl'[n].data >= kwl[n].data
    BY DEF NoneOlder
  <1> QED BY <1>1, NeverOlder, PTL DEF NoOlderContents
=============================================================================
