------------------------ MODULE KSecretDStoreProofs ------------------------
(* Theorems about the contents of wallets, in memory and on disk, and that    *)
(* KSecretD implements SecretStore, for every value of the constants.        *)
EXTENDS KSecretDProofs, KSecretDStore

-----------------------------------------------------------------------------
(* What a step may do to contents is one of these. *)

SameStep ==
  /\ UNCHANGED <<wallets, files, writes>>
  /\ life' = "up" => syncTimers \subseteq syncTimers'
SaveStep ==
  \E h \in Opened :
    Sync(wallets[h]) /\ syncTimers' = syncTimers \ {h} /\ UNCHANGED <<wallets, writes>>
CloseStep ==
  \E h \in Opened : InternalClose(h) /\ UNCHANGED writes
DropStep ==
  Forget(Gone) /\ UNCHANGED <<files, writes>>
CrashStep ==
  /\ wallets' = NoWallets /\ UNCHANGED writes
  /\ UNCHANGED files \/ \E h \in Opened : Sync(wallets[h])
OpenStep ==
  \E h \in Handle, n \in Name, p \in Password, c \in {"blowfish", "unknown"}, idle \in BOOLEAN :
    /\ Opens(n, p, c) /\ Insert(h, OpenBackend(n, p, c), idle)
    /\ FindWallet(n) = {} \/ n \in renamedOnto
    /\ c = "unknown" => IsFile(n) \/ "open" \in Faults
    /\ UNCHANGED writes
UnopenedStep ==
  \E h \in Handle, b \in Backend, idle \in BOOLEAN :
    /\ ~b.open /\ b.data = 0 /\ Insert(h, b, idle)
    /\ "open" \in Faults /\ UNCHANGED <<files, writes>>
RekeyStep ==
  \E h \in Opened, p \in Password :
    LET b == [wallets[h] EXCEPT !.password = p] IN
    /\ \/ Saved(b) /\ Forget({h})
       \/ Sync(b) /\ wallets' = With(h, b) /\ UNCHANGED syncTimers
       \/ /\ Saved(b) /\ wallets' = With(h, [b EXCEPT !.open = FALSE]) /\ UNCHANGED syncTimers
          /\ "open" \in Faults
    /\ UNCHANGED writes
PutStep == \E h \in Handle : WriteEntry(h)
RemoveStep ==
  \E n \in Name : \E h \in FindWallet(n) :
    files' = [files EXCEPT ![n] = Absent] /\ Forget({h}) /\ UNCHANGED writes
VanishStep ==
  \E n \in Name :
    /\ "external" \in Faults /\ files' = [files EXCEPT ![n] = Absent]
    /\ UNCHANGED <<wallets, syncTimers, writes>>
RenamedStep ==
  \E o, n \in Name, h \in Handle : RenameWallet(o, n, h)
JunkStep ==
  \E n \in Name :
    /\ files[n] = Absent /\ files' = [files EXCEPT ![n] = Junk]
    /\ UNCHANGED <<wallets, syncTimers, writes>>

DataStep ==
  /\ life' = "up" => life = "up" \/ Opened = {}
  /\ UNCHANGED renamedOnto \/ RenamedStep
  /\ \/ SameStep \/ SaveStep \/ CloseStep \/ DropStep \/ CrashStep \/ OpenStep \/ UnopenedStep
     \/ RekeyStep \/ PutStep \/ RemoveStep \/ VanishStep \/ RenamedStep \/ JunkStep

\* The dialog for a wallet whose header could not be read is up.
Unread == stage = "unreadable" => "open" \in Faults

LEMMA DieData ==
  ASSUME NEW how \in Lives \ {"up", "quitting"}, Die(how),
         UNCHANGED files \/ \E h \in Opened : Sync(wallets[h])
  PROVE  DataStep
  BY DEF Die, DataStep, CrashStep, Lives, world

LEMMA ProcessingData == Structure /\ Processing => DataStep
  <1>1. ASSUME StartProcessing \/ Pop \/ EndProcessing \/ OpenTooMany \/ ShowOpenDialog
        PROVE  DataStep
    BY <1>1
    DEF StartProcessing, Pop, EndProcessing, OpenTooMany, ShowOpenDialog, DataStep, SameStep,
        table, world
  <1>2. ASSUME NEW h \in Handle, OpenFound(h) PROVE DataStep
    BY <1>2 DEF OpenFound, DataStep, SameStep, table, world
  <1>3. ASSUME Structure, NEW h \in Handle, OpenWithoutDialog(h) PROVE DataStep
    <2>1. current.wallet \in Name /\ EmptyPassword \in Password /\ closeIdle \in BOOLEAN
      BY <1>3, ConstantsAssumption
      DEF OpenWithoutDialog, Beginning, Structure, TypeOK, QueueConsistent, Transaction
    <2>2. OpenStep /\ UNCHANGED <<life, renamedOnto>>
      BY <1>3, <2>1 DEF OpenWithoutDialog, OpenStep, Unopened, world
    <2> QED BY <2>2 DEF DataStep
  <1> QED BY <1>1, <1>2, <1>3 DEF Processing

LEMMA DialogEndsData ==
  ASSUME Structure, DialogConsistent, Unread, DialogEnds
  PROVE  DataStep
  <1>1. ASSUME NEW p \in Password, NEW h \in Handle, OpenDialogAccepted(p, h) PROVE DataStep
    <2>1. current.wallet \in Name /\ closeIdle \in BOOLEAN
      BY <1>1 DEF OpenDialogAccepted, Structure, TypeOK, QueueConsistent, OpenDialogs, Transaction
    <2>2. DialogCipher \in {"blowfish", "unknown"} /\ (DialogCipher = "unknown" => "open" \in Faults)
      BY DEF DialogCipher, Unread
    <2>3. FindWallet(current.wallet) = {} \/ current.wallet \in renamedOnto
      BY <1>1 DEF OpenDialogAccepted, DialogConsistent
    <2>4. OpenStep /\ UNCHANGED <<life, renamedOnto>>
      BY <1>1, <2>1, <2>2, <2>3 DEF OpenDialogAccepted, OpenStep, world
    <2> QED BY <2>4 DEF DataStep
  <1>2. ASSUME OpenDialogRetried PROVE DataStep
    BY <1>2 DEF OpenDialogRetried, DataStep, SameStep, table, world
  <1>3. ASSUME NEW h \in Handle, OpenDialogCancelled(h) PROVE DataStep
    <2>1. CASE stage = "unreadable"
      <3> DEFINE b == [name |-> current.wallet, open |-> FALSE, cipher |-> "unknown",
                       data |-> 0, password |-> EmptyPassword]
      <3>1. b \in Backend /\ ~b.open /\ b.data = 0 /\ closeIdle \in BOOLEAN
        BY <1>3, <2>1, ConstantsAssumption
        DEF OpenDialogCancelled, Structure, TypeOK, QueueConsistent, Transaction, Backend
      <3>2. Insert(h, b, closeIdle) /\ "open" \in Faults /\ UNCHANGED <<files, writes, life, renamedOnto>>
        BY <1>3, <2>1 DEF OpenDialogCancelled, Unread, world
      <3> HIDE DEF b
      <3>3. UnopenedStep
        BY <3>1, <3>2 DEF UnopenedStep
      <3> QED BY <3>2, <3>3 DEF DataStep
    <2>2. CASE stage # "unreadable"
      BY <1>3, <2>2 DEF OpenDialogCancelled, DataStep, SameStep, table, world
    <2> QED BY <2>1, <2>2
  <1>4. ASSUME CloseAndFinish, stage \in {"newPassword", "notChanged", "mayBeLost"} PROVE DataStep
    <2>1. CASE target = "freed" /\ Stop("dangling")
      BY <2>1, DieData DEF Stop, Lives
    <2>2. CASE target # "freed" /\ InternalClose(target) /\ UNCHANGED <<life, world>>
      BY <1>4, <2>2 DEF DataStep, CloseStep, Structure, TargetConsistent, world
    <2> QED BY <1>4, <2>1, <2>2 DEF CloseAndFinish
  <1>5. ASSUME NewPasswordCancelled \/ BoxClosed PROVE DataStep
    <2>1. CASE UNCHANGED <<life, closeIdle, files, table, transactions, world>>
      BY <2>1 DEF DataStep, SameStep, table, world
    <2> QED BY <1>4, <1>5, <2>1 DEF NewPasswordCancelled, BoxClosed
  <1>6. ASSUME NEW p \in Password, NewPasswordAccepted(p) PROVE DataStep
    <2>1. CASE target = "freed"
      BY <1>6, <2>1, DieData DEF NewPasswordAccepted, Stop, Lives
    <2>2. CASE target # "freed"
      <3>1. target \in Opened /\ UNCHANGED <<life, writes, renamedOnto>>
        BY <1>6, <2>2 DEF NewPasswordAccepted, Structure, TargetConsistent, world
      <3>2. RekeyStep
        BY <1>6, <2>2, <3>1 DEF NewPasswordAccepted, RekeyStep, Sync
      <3> QED BY <3>1, <3>2 DEF DataStep
    <2> QED BY <2>1, <2>2
  <1> QED BY <1>1, <1>2, <1>3, <1>5, <1>6 DEF DialogEnds

LEMMA CallsData ==
  ASSUME Structure, TimersMatchTable, Calls \/ Timers \/ EmitWalletListDirty \/ Requests
  PROVE  DataStep
  <1>1. ASSUME NEW h \in Handle, Close(h) \/ TimedOutClose(h) PROVE DataStep
    BY <1>1 DEF Close, TimedOutClose, DataStep, CloseStep, world
  <1>2. ASSUME NEW h \in Handle, WriteEntry(h) PROVE DataStep
    BY <1>2 DEF WriteEntry, DataStep, PutStep
  <1>3. ASSUME NEW n \in Name, DeleteWallet(n) PROVE DataStep
    <2>1. CASE Stop("nullptr")
      BY <2>1, DieData DEF Stop, Lives
    <2>2. ASSUME NEW h \in FindWallet(n), files' = [files EXCEPT ![n] = Absent], Forget({h}),
                 UNCHANGED <<life, world>>
          PROVE  DataStep
      BY <2>2 DEF DataStep, RemoveStep, world
    <2>3. CASE Die("nullptr") /\ \E h \in FindWallet(n) : Sync(wallets[h])
      BY <2>3, DieData DEF Lives, FindWallet
    <2> QED BY <1>3, <2>1, <2>2, <2>3 DEF DeleteWallet
  <1>4. ASSUME NEW o \in Name, NEW n \in Name, RenameLocked(o, n) PROVE DataStep
    BY <1>4, DieData DEF RenameLocked, Stop, Lives
  <1>5. ASSUME NEW o \in Name, NEW n \in Name, NEW h \in Handle, RenameWallet(o, n, h)
        PROVE  DataStep
    <2>1. RenamedStep /\ UNCHANGED life
      BY <1>5 DEF RenamedStep, RenameWallet
    <2> QED BY <2>1 DEF DataStep
  <1>6. ASSUME NEW h \in Handle, TimedOutSync(h) PROVE DataStep
    <2>1. h \in Opened /\ Sync(wallets[h])
      BY <1>6 DEF TimedOutSync, EventLoop, TimersMatchTable
    <2> QED BY <1>6, <2>1 DEF TimedOutSync, DataStep, SaveStep, world
  <1>7. ASSUME EmitWalletListDirty PROVE DataStep
    BY <1>7 DEF EmitWalletListDirty, DataStep, DropStep, world
  <1>8. ASSUME NEW n \in Name, NEW w \in WId, NEW r \in Request, Open(n, w, r) \/ ChangePassword(n, w, r)
        PROVE  DataStep
    BY <1>8 DEF Open, ChangePassword, DataStep, SameStep, table, world
  <1> QED
    BY <1>1, <1>2, <1>3, <1>4, <1>5, <1>6, <1>7, <1>8 DEF Calls, Timers, Requests

LEMMA ProcessData == Structure /\ (Process \/ Environment) => DataStep
  <1>1. ASSUME Structure, Start PROVE DataStep
    <2>1. Opened = {} /\ UNCHANGED <<writes, renamedOnto>>
      BY <1>1 DEF Start, Structure, TypeOK, QueueConsistent, Lives, world
    <2>2. CASE UNCHANGED <<files, table>>
      BY <2>1, <2>2 DEF DataStep, SameStep, table
    <2>3. ASSUME NEW n \in Name, NEW p \in Password, NEW h \in Handle,
                 Opens(n, p, "blowfish"), Insert(h, OpenBackend(n, p, "blowfish"), closeIdle')
          PROVE  DataStep
      <3>1. FindWallet(n) = {} /\ closeIdle' \in BOOLEAN
        BY <1>1, <2>1 DEF FindWallet, Start
      <3>2. OpenStep
        BY <2>1, <2>3, <3>1 DEF OpenStep
      <3> QED BY <2>1, <3>2 DEF DataStep
    <2>4. ASSUME NEW n \in Name, files[n] = Absent, files' = [files EXCEPT ![n] = Junk],
                 UNCHANGED table
          PROVE  DataStep
      BY <2>1, <2>4 DEF DataStep, JunkStep, table
    <2> QED BY <1>1, <2>2, <2>3, <2>4 DEF Start
  <1>2. ASSUME Kill PROVE DataStep
    BY <1>2, DieData DEF Kill, Stop, Lives
  <1>3. ASSUME Quit PROVE DataStep
    <2>1. CASE Stop("dangling")
      BY <2>1, DieData DEF Stop, Lives
    <2> QED BY <1>3, <2>1 DEF Quit, DataStep, SameStep, world
  <1>4. ASSUME Exit PROVE DataStep
    BY <1>4 DEF Exit, DataStep, SameStep, table, world
  <1>5. ASSUME NEW h \in Handle, CloseAtExit(h) PROVE DataStep
    BY <1>5 DEF CloseAtExit, DataStep, CloseStep, world
  <1>6. ASSUME ChangeEnabled PROVE DataStep
    BY <1>6 DEF ChangeEnabled, DataStep, SameStep, table
  <1>7. ASSUME NEW n \in Name, ExternalRemove(n) PROVE DataStep
    <2>1. VanishStep /\ UNCHANGED <<life, renamedOnto>>
      BY <1>7 DEF ExternalRemove, VanishStep, table, world
    <2> QED BY <2>1 DEF DataStep
  <1> QED BY <1>1, <1>2, <1>3, <1>4, <1>5, <1>6, <1>7 DEF Process, Environment

LEMMA DataSteps ==
  ASSUME Structure, TableInvariant, Unread, [Next]_vars
  PROVE  DataStep
  <1>1. ASSUME UNCHANGED vars PROVE DataStep
    BY <1>1 DEF vars, DataStep, SameStep, table, world
  <1> QED
    BY <1>1, ProcessingData, DialogEndsData, CallsData, ProcessData DEF Next, TableInvariant

LEMMA UnreadStep == Unread /\ [Next]_vars => Unread'
  <1> SUFFICES ASSUME Unread, [Next]_vars PROVE Unread'
    OBVIOUS
  <1>1. CASE UNCHANGED vars
    BY <1>1 DEF Unread, vars, queue
  <1>2. ASSUME NEW h, NEW new, Succeed(h, new) PROVE Unread'
    BY <1>2 DEF Succeed, Finish, Unread
  <1>3. CASE Fail
    BY <1>3 DEF Fail, Finish, Unread
  <1>4. CASE Processing
    BY <1>2, <1>3, <1>4
    DEF Processing, StartProcessing, Pop, EndProcessing, OpenTooMany, ShowOpenDialog, OpenFound,
        OpenWithoutDialog, Unread
  <1>5. ASSUME NEW how, Die(how) PROVE Unread'
    BY <1>5 DEF Die, Unwind, Unread
  <1>6. CASE Done
    BY <1>6 DEF Done, Finish, Unread
  <1>7. CASE DialogEnds
    BY <1>2, <1>3, <1>5, <1>6, <1>7
    DEF DialogEnds, OpenDialogAccepted, OpenDialogRetried, OpenDialogCancelled, NewPasswordAccepted,
        NewPasswordCancelled, BoxClosed, CloseAndFinish, Stop, Unread
  <1>8. CASE Requests \/ EmitWalletListDirty
    BY <1>8 DEF Requests, Open, ChangePassword, EmitWalletListDirty, Unread, queue
  <1>9. CASE Calls \/ Timers
    BY <1>5, <1>9, CallsAnswerNobody DEF Unread
  <1>10. CASE Process
    <2>1. CASE Kill \/ Quit
      BY <1>5, <2>1 DEF Kill, Quit, Stop, Unwind, Unread
    <2>2. CASE Start \/ Exit \/ \E h \in Handle : CloseAtExit(h)
      BY <2>2 DEF Start, Exit, CloseAtExit, Unread, queue
    <2> QED BY <1>10, <2>1, <2>2 DEF Process
  <1>11. CASE Environment
    BY <1>5, <1>11 DEF Environment, ChangeEnabled, ExternalRemove, Stop, Unread, queue
  <1> QED BY <1>1, <1>4, <1>7, <1>8, <1>9, <1>10, <1>11 DEF Next

-----------------------------------------------------------------------------
(* Contents in memory and on disk *)

Bounded ==
  /\ \A n \in Name : IsFile(n) => files[n].data =< writes
  /\ \A h \in Opened : wallets[h].data =< writes

\* An open backend is never behind its file, and ahead of it only while its sync
\* timer runs; that it can be saved is part of it.
Fresh(h) ==
  LET b == wallets[h] IN
  b.open /\ b.name \notin renamedOnto /\ IsFile(b.name) =>
    /\ b.cipher = "blowfish" /\ b.data >= files[b.name].data
    /\ "sync" \notin Faults /\ life = "up" /\ files[b.name].data # b.data => h \in syncTimers

Contents == Bounded /\ \A h \in Opened : Fresh(h)

NotOlder ==
  \A n \in Name \ renamedOnto' :
    IsFile(n) /\ IsFile(n)' => files'[n].data >= files[n].data

LEMMA FileType ==
  ASSUME Structure, NEW n \in Name, IsFile(n)
  PROVE  files[n] \in Content /\ files[n].data \in Nat
  BY DEF Structure, TypeOK, IsFile, Content

LEMMA WalletType ==
  ASSUME Structure, NEW h \in Opened
  PROVE  wallets[h] \in Backend /\ wallets[h].name \in Name /\ wallets[h].data \in Nat
  BY DEF Structure, TypeOK, Backend

LEMMA SameName ==
  ASSUME UniqueOpen, NEW h \in Opened, NEW g \in Opened \ {h}, wallets[g].name = wallets[h].name
  PROVE  wallets[g].name \in renamedOnto
  BY DEF UniqueOpen

\* A step that writes the files of N at most, and leaves the backends but those
\* of H as they are or closes them.
LEMMA KeptContents ==
  ASSUME Structure, Contents, UNCHANGED <<writes, renamedOnto>>,
         life' = "up" => life = "up" \/ Opened = {},
         NEW N \in SUBSET Name, NEW H,
         \A n \in Name \ N : IsFile(n)' => IsFile(n) /\ files'[n] = files[n],
         \A n \in N : IsFile(n)' =>
           /\ files'[n].data =< writes
           /\ n \notin renamedOnto /\ IsFile(n) => files'[n].data >= files[n].data,
         \A h \in Opened' \ H :
           /\ h \in Opened
           /\ wallets'[h] = wallets[h]
           /\ life' = "up" /\ h \in syncTimers => h \in syncTimers'
           /\ wallets[h].name \in N => wallets[h].name \in renamedOnto,
         \A h \in Opened' \cap H : Fresh(h)' /\ wallets'[h].data =< writes
  PROVE  Contents' /\ NotOlder
  <1>1. NotOlder
    BY FileType DEF NotOlder
  <1>2. Bounded'
    BY DEF Contents, Bounded
  <1>3. ASSUME NEW h \in Opened' PROVE Fresh(h)'
    <2>1. CASE h \in H
      BY <2>1
    <2>2. CASE h \notin H
      <3>1. h \in Opened /\ wallets'[h] = wallets[h] /\ wallets[h].name \in Name /\ Fresh(h)
        BY <2>2, WalletType DEF Contents
      <3>2. CASE wallets[h].name \in N
        BY <2>2, <3>1, <3>2 DEF Fresh
      <3>3. CASE wallets[h].name \notin N
        <4>1. IsFile(wallets[h].name)' =>
                IsFile(wallets[h].name) /\ files'[wallets[h].name] = files[wallets[h].name]
          BY <3>1, <3>3
        <4>2. life' = "up" => life = "up" /\ (h \in syncTimers => h \in syncTimers')
          BY <2>2, <3>1
        <4> QED BY <3>1, <4>1, <4>2 DEF Fresh
      <3> QED BY <3>2, <3>3
    <2> QED BY <2>1, <2>2
  <1> QED BY <1>1, <1>2, <1>3 DEF Contents

\* What sync() of b does to the files: none but its own, which it makes no older.
LEMMA SyncFiles ==
  ASSUME Structure, Contents, NEW h \in Opened, NEW b \in Backend, Sync(b),
         b.name = wallets[h].name, b.data = wallets[h].data, b.open = wallets[h].open,
         b.cipher = wallets[h].cipher
  PROVE  /\ \A n \in Name \ {b.name} : IsFile(n)' => IsFile(n) /\ files'[n] = files[n]
         /\ b.name \in Name
         /\ IsFile(b.name)' =>
              /\ files'[b.name].data =< writes
              /\ b.name \notin renamedOnto /\ IsFile(b.name) =>
                   files'[b.name].data >= files[b.name].data
              /\ b.open /\ b.name \notin renamedOnto =>
                   /\ b.cipher = "blowfish" /\ b.data >= files'[b.name].data
                   /\ "sync" \notin Faults => files'[b.name].data = b.data
  <1> DEFINE n == b.name
  <1>1. n \in Name /\ b.data \in Nat /\ b.data =< writes
    BY WalletType DEF Contents, Bounded
  <1>2. IsFile(n) => files[n].data \in Nat /\ files[n].data =< writes
    BY <1>1, FileType DEF Contents, Bounded
  <1>3. b.open /\ n \notin renamedOnto /\ IsFile(n) =>
          b.cipher = "blowfish" /\ b.data >= files[n].data
    BY DEF Contents, Fresh
  <1>4. CASE Saved(b)
    <2>1. /\ files'[n] = [data |-> b.data, password |-> b.password]
          /\ \A m \in Name \ {n} : files'[m] = files[m]
          /\ b.open /\ b.cipher = "blowfish"
      BY <1>1, <1>4 DEF Saved, Savable, Structure, TypeOK
    <2>2. \A m \in Name \ {n} : IsFile(m)' => IsFile(m) /\ files'[m] = files[m]
      BY <2>1 DEF IsFile
    <2>3. files'[n].data = b.data
      BY <2>1
    <2> QED BY <1>1, <1>2, <1>3, <2>1, <2>2, <2>3
  <1>5. CASE NotSaved(b)
    <2>1. files' = files /\ (~Savable(b) \/ "sync" \in Faults)
      BY <1>5 DEF NotSaved
    <2>2. \A m \in Name : IsFile(m)' => IsFile(m)
      BY <2>1 DEF IsFile
    <2>3. b.open /\ n \notin renamedOnto /\ IsFile(n) => "sync" \in Faults
      BY <1>3, <2>1 DEF Savable, IsFile
    <2> QED BY <1>1, <1>2, <1>3, <2>1, <2>2, <2>3
  <1> QED BY <1>4, <1>5 DEF Sync

LEMMA ForgetWallets ==
  ASSUME NEW S, Forget(S)
  PROVE  /\ Opened' = Opened \ S /\ \A h \in Opened' : wallets'[h] = wallets[h]
         /\ syncTimers' = syncTimers \ S
  BY DEF Forget, Opened

LEMMA WithWallets ==
  ASSUME NEW h, NEW b, wallets' = With(h, b)
  PROVE  /\ Opened' = Opened \cup {h} /\ wallets'[h] = b
         /\ \A k \in Opened \ {h} : wallets'[k] = wallets[k]
  BY DEF With, Opened

LEMMA DataCalm ==
  ASSUME Structure, TableInvariant, Contents, DataStep, UNCHANGED renamedOnto,
         SameStep \/ DropStep \/ RemoveStep \/ VanishStep \/ JunkStep
  PROVE  Contents' /\ NotOlder
  <1>1. /\ UNCHANGED writes /\ (life' = "up" => life = "up" \/ Opened = {})
        /\ \A n \in Name : IsFile(n)' => IsFile(n) /\ files'[n] = files[n]
    <2>1. ASSUME NEW n \in Name, NEW a \in {Absent, Junk}, files' = [files EXCEPT ![n] = a]
          PROVE  \A m \in Name : IsFile(m)' => IsFile(m) /\ files'[m] = files[m]
      BY <2>1 DEF IsFile, Structure, TypeOK
    <2> QED
      BY <2>1
      DEF DataStep, SameStep, DropStep, RemoveStep, VanishStep, JunkStep, IsFile
  <1>2. \A h \in Opened' : /\ h \in Opened /\ wallets'[h] = wallets[h]
                           /\ life' = "up" /\ h \in syncTimers => h \in syncTimers'
    <2>1. CASE SameStep \/ VanishStep \/ JunkStep
      BY <2>1 DEF SameStep, VanishStep, JunkStep, Opened
    <2>2. ASSUME NEW S, Forget(S)
          PROVE  \A h \in Opened' : /\ h \in Opened /\ wallets'[h] = wallets[h]
                                    /\ h \in syncTimers => h \in syncTimers'
      BY <2>2, ForgetWallets
    <2> QED BY <2>1, <2>2 DEF DropStep, RemoveStep
  <1> DEFINE N == {}
             H == {}
  <1>3. N \in SUBSET Name
    OBVIOUS
  <1>4. /\ \A n \in Name \ N : IsFile(n)' => IsFile(n) /\ files'[n] = files[n]
        /\ \A n \in N : IsFile(n)' =>
             /\ files'[n].data =< writes
             /\ n \notin renamedOnto /\ IsFile(n) => files'[n].data >= files[n].data
    BY <1>1
  <1>5. /\ \A h \in Opened' \ H :
             /\ h \in Opened
             /\ wallets'[h] = wallets[h]
             /\ life' = "up" /\ h \in syncTimers => h \in syncTimers'
             /\ wallets[h].name \in N => wallets[h].name \in renamedOnto
        /\ \A h \in Opened' \cap H : Fresh(h)' /\ wallets'[h].data =< writes
    BY <1>2
  <1> HIDE DEF N, H
  <1> QED BY <1>1, <1>3, <1>4, <1>5, KeptContents

LEMMA DataSaved ==
  ASSUME Structure, TableInvariant, Contents, DataStep, UNCHANGED renamedOnto,
         SaveStep \/ CloseStep
  PROVE  Contents' /\ NotOlder
  <1>1. PICK h \in Opened :
          /\ Sync(wallets[h]) /\ UNCHANGED writes
          /\ \A k \in Opened' \ {h} : /\ k \in Opened /\ wallets'[k] = wallets[k]
                                      /\ k \in syncTimers => k \in syncTimers'
          /\ h \in Opened' => wallets'[h] = wallets[h]
    <2>1. CASE SaveStep
      BY <2>1 DEF SaveStep, Opened
    <2>2. CASE CloseStep
      BY <2>2, ForgetWallets DEF CloseStep, InternalClose
    <2> QED BY <2>1, <2>2
  <1>2. PICK b \in Backend, n \in Name : b = wallets[h] /\ n = b.name
    BY WalletType
  <1> DEFINE N == {n}
             H == {h}
  <1>3. /\ \A m \in Name \ {n} : IsFile(m)' => IsFile(m) /\ files'[m] = files[m]
        /\ IsFile(n)' =>
             /\ files'[n].data =< writes
             /\ n \notin renamedOnto /\ IsFile(n) => files'[n].data >= files[n].data
             /\ b.open /\ n \notin renamedOnto =>
                  /\ b.cipher = "blowfish" /\ b.data >= files'[n].data
                  /\ "sync" \notin Faults => files'[n].data = b.data
    BY <1>1, <1>2, SyncFiles
  <1>4. h \in Opened' => Fresh(h)' /\ wallets'[h].data =< writes
    BY <1>1, <1>2, <1>3 DEF Fresh, Contents, Bounded
  <1>5. \A k \in Opened' \ {h} : wallets[k].name = n => n \in renamedOnto
    BY <1>1, <1>2, SameName DEF TableInvariant
  <1>6. N \in SUBSET Name /\ (life' = "up" => life = "up" \/ Opened = {})
    BY DEF DataStep
  <1>7. /\ \A m \in Name \ N : IsFile(m)' => IsFile(m) /\ files'[m] = files[m]
        /\ \A m \in N : IsFile(m)' =>
             /\ files'[m].data =< writes
             /\ m \notin renamedOnto /\ IsFile(m) => files'[m].data >= files[m].data
    BY <1>3
  <1>8. /\ \A k \in Opened' \ H :
             /\ k \in Opened
             /\ wallets'[k] = wallets[k]
             /\ life' = "up" /\ k \in syncTimers => k \in syncTimers'
             /\ wallets[k].name \in N => wallets[k].name \in renamedOnto
        /\ \A k \in Opened' \cap H : Fresh(k)' /\ wallets'[k].data =< writes
    BY <1>1, <1>4, <1>5
  <1> HIDE DEF N, H
  <1> QED BY <1>1, <1>6, <1>7, <1>8, KeptContents

LEMMA DataCrash ==
  ASSUME Structure, TableInvariant, Contents, DataStep, UNCHANGED renamedOnto, CrashStep
  PROVE  Contents' /\ NotOlder
  <1>1. Opened' = {} /\ UNCHANGED writes
    BY NoWalletsType DEF CrashStep, Opened
  <1>2. \A m \in Name : IsFile(m)' =>
          /\ files'[m].data =< writes
          /\ m \notin renamedOnto /\ IsFile(m) => files'[m].data >= files[m].data
    <2>1. CASE UNCHANGED files
      BY <2>1, FileType DEF Contents, Bounded, IsFile
    <2>2. ASSUME NEW h \in Opened, Sync(wallets[h])
          PROVE  \A m \in Name : IsFile(m)' =>
                   /\ files'[m].data =< writes
                   /\ m \notin renamedOnto /\ IsFile(m) => files'[m].data >= files[m].data
      <3>1. PICK b \in Backend, n \in Name : b = wallets[h] /\ n = b.name
        BY WalletType
      <3>2. /\ \A m \in Name \ {n} : IsFile(m)' => IsFile(m) /\ files'[m] = files[m]
            /\ IsFile(n)' =>
                 /\ files'[n].data =< writes
                 /\ n \notin renamedOnto /\ IsFile(n) => files'[n].data >= files[n].data
        BY <2>2, <3>1, SyncFiles
      <3>3. \A m \in Name : IsFile(m) => files[m].data \in Nat /\ files[m].data =< writes
        BY FileType DEF Contents, Bounded
      <3>4. ASSUME NEW m \in Name, IsFile(m)'
            PROVE  /\ files'[m].data =< writes
                   /\ m \notin renamedOnto /\ IsFile(m) => files'[m].data >= files[m].data
        <4>1. CASE m = n
          BY <3>2, <3>4, <4>1
        <4>2. CASE m # n
          <5>1. files'[m] = files[m] /\ IsFile(m)
            BY <3>2, <3>4, <4>2
          <5> QED BY <3>3, <5>1
        <4> QED BY <4>1, <4>2
      <3> QED BY <3>4
    <2> QED BY <2>1, <2>2 DEF CrashStep
  <1> QED BY <1>1, <1>2 DEF Contents, Bounded, NotOlder

LEMMA DataOpened ==
  ASSUME Structure, TableInvariant, Contents, DataStep, UNCHANGED renamedOnto,
         OpenStep \/ UnopenedStep
  PROVE  Contents' /\ NotOlder
  <1>0. writes \in Nat /\ (life' = "up" => life = "up" \/ Opened = {})
    BY DEF Structure, TypeOK, DataStep
  <1>1. ASSUME NEW n \in Name, NEW h \in Handle, NEW b \in Backend, NEW idle \in BOOLEAN,
               Insert(h, b, idle), UNCHANGED writes,
               \A m \in Name \ {n} : files'[m] = files[m],
               files'[n] = files[n] \/ (~IsFile(n) /\ (IsFile(n)' => files'[n].data = 0)),
               b.open => \/ FindWallet(n) = {} \/ n \in renamedOnto,
               files'[n] # files[n] => \/ FindWallet(n) = {} \/ n \in renamedOnto,
               b.data =< writes,
               b.open => /\ b.name = n
                         /\ IsFile(n)' => b.cipher = "blowfish" /\ b.data >= files'[n].data
        PROVE  Contents' /\ NotOlder
    <2> DEFINE N == {m \in {n} : files'[m] # files[m]}
               H == {h}
    <2>1. /\ h \notin Opened /\ Opened' = Opened \cup {h}
          /\ wallets'[h] = b /\ \A k \in Opened : wallets'[k] = wallets[k]
          /\ syncTimers' = syncTimers \cup {h}
      BY <1>1, InsertTable DEF TableInvariant
    <2>2. N \in SUBSET Name
      OBVIOUS
    <2>3. \A m \in Name \ N : IsFile(m)' => IsFile(m) /\ files'[m] = files[m]
      BY <1>1 DEF IsFile
    <2>4. \A m \in N : IsFile(m)' =>
            /\ files'[m].data =< writes
            /\ m \notin renamedOnto /\ IsFile(m) => files'[m].data >= files[m].data
      BY <1>0, <1>1
    <2>5. \A k \in Opened' \ H :
            /\ k \in Opened
            /\ wallets'[k] = wallets[k]
            /\ life' = "up" /\ k \in syncTimers => k \in syncTimers'
            /\ wallets[k].name \in N => wallets[k].name \in renamedOnto
      BY <1>1, <2>1 DEF FindWallet
    <2>6. \A k \in Opened' \cap H : Fresh(k)' /\ wallets'[k].data =< writes
      BY <1>1, <2>1 DEF Fresh
    <2> HIDE DEF N, H
    <2> QED BY <1>0, <1>1, <2>2, <2>3, <2>4, <2>5, <2>6, KeptContents
  <1>2. CASE OpenStep
    <2>1. PICK h \in Handle, n \in Name, p \in Password, c \in {"blowfish", "unknown"}, idle \in BOOLEAN :
            /\ Opens(n, p, c) /\ Insert(h, OpenBackend(n, p, c), idle)
            /\ FindWallet(n) = {} \/ n \in renamedOnto
            /\ UNCHANGED writes
      BY <1>2 DEF OpenStep
    <2>2. OpenBackend(n, p, c) \in Backend
      BY <2>1, OpensType
    <2>3. OpenBackend(n, p, c).name = n /\ OpenBackend(n, p, c).open
      BY DEF OpenBackend
    <2>4. CASE IsFile(n)
      <3>1. /\ UNCHANGED files /\ OpenBackend(n, p, c).data = files[n].data
            /\ OpenBackend(n, p, c).cipher = "blowfish"
        BY <2>1, <2>4 DEF Opens, OpenBackend
      <3>2. files[n].data =< writes /\ files[n].data \in Nat
        BY <2>4, FileType DEF Contents, Bounded
      <3> QED BY <1>1, <2>1, <2>2, <2>3, <3>1, <3>2
    <2>5. CASE ~IsFile(n)
      <3>1. OpenBackend(n, p, c).data = 0 /\ OpenBackend(n, p, c).cipher = c
        BY <2>5 DEF OpenBackend
      <3>2. /\ \A m \in Name \ {n} : files'[m] = files[m]
            /\ IsFile(n)' => files'[n].data = 0 /\ c = "blowfish"
        BY <2>1, <2>5 DEF Opens, IsFile, Structure, TypeOK
      <3> QED BY <1>0, <1>1, <2>1, <2>2, <2>3, <2>5, <3>1, <3>2
    <2> QED BY <2>4, <2>5
  <1>3. CASE UnopenedStep
    <2>1. PICK h \in Handle, b \in Backend, idle \in BOOLEAN :
            /\ ~b.open /\ b.data = 0 /\ Insert(h, b, idle) /\ UNCHANGED <<files, writes>>
      BY <1>3 DEF UnopenedStep
    <2> QED BY <1>0, <1>1, <2>1 DEF Backend
  <1> QED BY <1>2, <1>3

LEMMA DataRekeyed ==
  ASSUME Structure, TableInvariant, Contents, DataStep, UNCHANGED renamedOnto, RekeyStep
  PROVE  Contents' /\ NotOlder
  <1>0. PICK h \in Opened, p \in Password :
          LET b == [wallets[h] EXCEPT !.password = p] IN
          /\ UNCHANGED writes
          /\ \/ Saved(b) /\ Forget({h})
             \/ Sync(b) /\ wallets' = With(h, b) /\ UNCHANGED syncTimers
             \/ /\ Saved(b) /\ wallets' = With(h, [b EXCEPT !.open = FALSE])
                /\ UNCHANGED syncTimers
    BY DEF RekeyStep
  <1>1. PICK b, c :
          /\ b = [wallets[h] EXCEPT !.password = p] /\ c = [b EXCEPT !.open = FALSE]
          /\ UNCHANGED writes
          /\ \/ Saved(b) /\ Forget({h})
             \/ Sync(b) /\ wallets' = With(h, b) /\ UNCHANGED syncTimers
             \/ Saved(b) /\ wallets' = With(h, c) /\ UNCHANGED syncTimers
    BY <1>0
  <1>2. /\ b \in Backend /\ b.name = wallets[h].name /\ b.data = wallets[h].data
        /\ b.open = wallets[h].open /\ b.cipher = wallets[h].cipher
        /\ c \in Backend /\ c.data = b.data /\ ~c.open
    BY <1>1, WalletType DEF Backend
  <1>3. PICK n \in Name : n = b.name
    BY <1>2, WalletType
  <1> DEFINE N == {n}
             H == {h}
  <1>4. Sync(b)
    BY <1>1 DEF Sync
  <1>5. /\ \A m \in Name \ {n} : IsFile(m)' => IsFile(m) /\ files'[m] = files[m]
        /\ IsFile(n)' =>
             /\ files'[n].data =< writes
             /\ n \notin renamedOnto /\ IsFile(n) => files'[n].data >= files[n].data
             /\ b.open /\ n \notin renamedOnto =>
                  /\ b.cipher = "blowfish" /\ b.data >= files'[n].data
                  /\ "sync" \notin Faults => files'[n].data = b.data
    BY <1>2, <1>3, <1>4, SyncFiles
  <1>6. /\ \A k \in Opened' \ {h} : /\ k \in Opened /\ wallets'[k] = wallets[k]
                                    /\ k \in syncTimers => k \in syncTimers'
        /\ h \in Opened' => wallets'[h] \in {b, c}
    BY <1>1, ForgetWallets, WithWallets
  <1>7. h \in Opened' => Fresh(h)' /\ wallets'[h].data =< writes
    <2>1. b.data =< writes
      BY <1>2 DEF Contents, Bounded
    <2> QED BY <1>1, <1>2, <1>3, <1>5, <1>6, <2>1 DEF Fresh
  <1>8. \A k \in Opened' \ {h} : wallets[k].name = n => n \in renamedOnto
    BY <1>2, <1>3, <1>6, SameName DEF TableInvariant
  <1>9. N \in SUBSET Name /\ (life' = "up" => life = "up" \/ Opened = {})
    BY DEF DataStep
  <1>10. /\ \A m \in Name \ N : IsFile(m)' => IsFile(m) /\ files'[m] = files[m]
         /\ \A m \in N : IsFile(m)' =>
              /\ files'[m].data =< writes
              /\ m \notin renamedOnto /\ IsFile(m) => files'[m].data >= files[m].data
    BY <1>5
  <1>11. /\ \A k \in Opened' \ H :
              /\ k \in Opened
              /\ wallets'[k] = wallets[k]
              /\ life' = "up" /\ k \in syncTimers => k \in syncTimers'
              /\ wallets[k].name \in N => wallets[k].name \in renamedOnto
         /\ \A k \in Opened' \cap H : Fresh(k)' /\ wallets'[k].data =< writes
    BY <1>6, <1>7, <1>8
  <1> HIDE DEF N, H
  <1> QED BY <1>1, <1>9, <1>10, <1>11, KeptContents

LEMMA DataPut ==
  ASSUME Structure, Contents, NEW h \in Handle, WriteEntry(h)
  PROVE  Contents' /\ NotOlder
  <1>1. /\ h \in Opened /\ writes \in Nat /\ writes' = writes + 1
        /\ UNCHANGED <<life, files, renamedOnto>> /\ syncTimers' = syncTimers \cup {h}
    BY DEF WriteEntry, Structure, TypeOK
  <1>2. PICK b \in Backend : b = wallets[h] /\ b.data \in Nat /\ b.data =< writes
    BY <1>1, WalletType DEF Contents, Bounded
  <1>3. PICK d : d = IF b.open THEN writes + 1 ELSE b.data
    OBVIOUS
  <1>4. PICK c : c = [b EXCEPT !.data = d]
    OBVIOUS
  <1>5. /\ wallets' = [wallets EXCEPT ![h] = c] /\ Opened' = Opened
        /\ wallets'[h] = c /\ \A k \in Opened \ {h} : wallets'[k] = wallets[k]
    BY <1>1, <1>2, <1>3, <1>4 DEF WriteEntry, Opened, Structure, TypeOK
  <1>6. /\ c.name = b.name /\ c.open = b.open /\ c.cipher = b.cipher /\ c.data = d
        /\ d \in Nat /\ d =< writes + 1 /\ (b.open => d = writes + 1)
    BY <1>1, <1>2, <1>3, <1>4 DEF Backend
  <1>7. /\ \A n \in Name : IsFile(n) => files[n].data \in Nat /\ files[n].data =< writes
        /\ \A k \in Opened : wallets[k].data \in Nat /\ wallets[k].data =< writes
        /\ \A n : IsFile(n)' <=> IsFile(n)
    BY <1>1, FileType, WalletType DEF Contents, Bounded, IsFile
  <1>8. Bounded'
    BY <1>1, <1>5, <1>6, <1>7 DEF Bounded
  <1>9. NotOlder
    BY <1>1, <1>7 DEF NotOlder
  <1>10. Fresh(h)'
    <2>1. b.open /\ b.name \notin renamedOnto /\ IsFile(b.name) =>
            b.cipher = "blowfish" /\ d >= files[b.name].data
      <3>1. b.name \in Name
        BY DEF Backend
      <3> QED BY <1>1, <1>2, <1>6, <1>7, <3>1 DEF Contents, Fresh
    <2> QED BY <1>1, <1>5, <1>6, <1>7, <2>1 DEF Fresh
  <1>11. \A k \in Opened \ {h} : Fresh(k)'
    BY <1>1, <1>5, <1>7 DEF Contents, Fresh
  <1> QED BY <1>5, <1>8, <1>9, <1>10, <1>11 DEF Contents

LEMMA DataRenamed ==
  ASSUME Structure, TableInvariant, Contents, NEW o \in Name, NEW n \in Name, NEW h \in Handle,
         RenameWallet(o, n, h)
  PROVE  Contents' /\ NotOlder
  <1>1. /\ o # n /\ h \in Opened /\ wallets[h].name = o /\ files[n] = Absent
        /\ UNCHANGED <<life, writes, syncTimers>> /\ writes \in Nat
        /\ renamedOnto \subseteq renamedOnto' /\ (FindWallet(n) # {} => n \in renamedOnto')
    BY DEF RenameWallet, FindWallet, Structure, TypeOK
  <1>2. PICK b \in Backend : b = wallets[h] /\ b.data \in Nat /\ b.data =< writes
    BY <1>1, WalletType DEF Contents, Bounded
  <1>3. /\ b.open /\ b.cipher = "blowfish" /\ b.name = o
        /\ o \notin renamedOnto /\ IsFile(o) => b.data >= files[o].data
    BY <1>1, <1>2 DEF RenameWallet, Savable, Contents, Fresh
  <1>4. PICK c, d, u, v :
          /\ wallets' = With(h, c) /\ files' = [files EXCEPT ![o] = u, ![n] = v]
          /\ c.name = n /\ c.data = d /\ c.cipher = "blowfish" /\ v.data = d
          /\ d \in Nat /\ d =< b.data
          /\ u = Absent \/ u.data = b.data
    <2> DEFINE moved == [b EXCEPT !.name = n]
    <2>1. /\ moved.name = n /\ moved.data = b.data /\ moved.cipher = "blowfish"
          /\ [moved EXCEPT !.open = FALSE].name = n /\ [moved EXCEPT !.open = FALSE].data = b.data
          /\ [moved EXCEPT !.open = FALSE].cipher = "blowfish"
          /\ [moved EXCEPT !.data = 0].name = n /\ [moved EXCEPT !.data = 0].data = 0
          /\ [moved EXCEPT !.data = 0].cipher = "blowfish"
      BY <1>3 DEF Backend
    <2>2. \/ \E c \in {moved, [moved EXCEPT !.open = FALSE]} :
               /\ wallets' = With(h, c)
               /\ files' = [files EXCEPT ![o] = Absent,
                                         ![n] = [data |-> b.data, password |-> b.password]]
          \/ /\ wallets' = With(h, [moved EXCEPT !.data = 0])
             /\ files' = [files EXCEPT ![o] = [data |-> b.data, password |-> b.password],
                                       ![n] = [data |-> 0, password |-> b.password]]
      BY <1>2 DEF RenameWallet
    <2> HIDE DEF moved
    <2>3. CASE \E c \in {moved, [moved EXCEPT !.open = FALSE]} :
                 /\ wallets' = With(h, c)
                 /\ files' = [files EXCEPT ![o] = Absent,
                                           ![n] = [data |-> b.data, password |-> b.password]]
      <3>1. PICK c : /\ c \in {moved, [moved EXCEPT !.open = FALSE]} /\ wallets' = With(h, c)
                     /\ files' = [files EXCEPT ![o] = Absent,
                                               ![n] = [data |-> b.data, password |-> b.password]]
        BY <2>3
      <3>2. PICK v, u : v = [data |-> b.data, password |-> b.password] /\ u = Absent
        OBVIOUS
      <3>3. /\ wallets' = With(h, c) /\ files' = [files EXCEPT ![o] = u, ![n] = v]
            /\ c.name = n /\ c.data = b.data /\ c.cipher = "blowfish" /\ v.data = b.data
            /\ b.data \in Nat /\ b.data =< b.data /\ u = Absent
        <4>1. wallets' = With(h, c) /\ files' = [files EXCEPT ![o] = u, ![n] = v]
          BY <3>1, <3>2
        <4>2. c.name = n /\ c.data = b.data /\ c.cipher = "blowfish" /\ v.data = b.data
          BY <2>1, <3>1, <3>2
        <4> QED BY <1>2, <3>2, <4>1, <4>2
      <3> QED BY <3>3
    <2>4. CASE /\ wallets' = With(h, [moved EXCEPT !.data = 0])
               /\ files' = [files EXCEPT ![o] = [data |-> b.data, password |-> b.password],
                                         ![n] = [data |-> 0, password |-> b.password]]
      <3>1. PICK c, v, u : /\ c = [moved EXCEPT !.data = 0]
                           /\ v = [data |-> 0, password |-> b.password]
                           /\ u = [data |-> b.data, password |-> b.password]
        OBVIOUS
      <3>2. /\ wallets' = With(h, c) /\ files' = [files EXCEPT ![o] = u, ![n] = v]
            /\ c.name = n /\ c.data = 0 /\ c.cipher = "blowfish" /\ v.data = 0
            /\ 0 \in Nat /\ 0 =< b.data /\ u.data = b.data
        BY <1>2, <2>1, <2>4, <3>1
      <3> QED BY <3>2
    <2> QED BY <2>2, <2>3, <2>4
  <1>5. /\ Opened' = Opened /\ wallets'[h] = c
        /\ \A k \in Opened \ {h} : wallets'[k] = wallets[k]
    BY <1>1, <1>4, WithWallets
  <1>6. /\ files'[o] = u /\ files'[n] = v /\ \A m \in Name \ {o, n} : files'[m] = files[m]
        /\ ~IsFile(n)
    BY <1>1, <1>4 DEF Structure, TypeOK, IsFile
  <1>7. /\ \A m \in Name : IsFile(m) => files[m].data \in Nat /\ files[m].data =< writes
        /\ \A k \in Opened : wallets[k].data \in Nat /\ wallets[k].data =< writes
    BY FileType, WalletType DEF Contents, Bounded
  <1>8. \A m \in Name \ {o, n} : IsFile(m)' <=> IsFile(m)
    BY <1>6 DEF IsFile
  <1>9. IsFile(o)' => u.data = b.data
    BY <1>4, <1>6 DEF IsFile
  <1>10. Bounded'
    <2>1. \A m \in Name : IsFile(m)' => files'[m].data =< writes
      <3>1. IsFile(o)' => files'[o].data =< writes
        BY <1>2, <1>6, <1>9
      <3>2. files'[n].data =< writes
        BY <1>1, <1>2, <1>4, <1>6
      <3>3. \A m \in Name \ {o, n} : IsFile(m)' => files'[m].data =< writes
        BY <1>6, <1>7, <1>8
      <3> QED BY <3>1, <3>2, <3>3
    <2>2. \A k \in Opened : wallets'[k].data =< writes
      BY <1>1, <1>2, <1>4, <1>5, <1>7
    <2> QED BY <1>1, <1>5, <2>1, <2>2 DEF Bounded
  <1>11. NotOlder
    <2>1. o \notin renamedOnto' /\ IsFile(o) /\ IsFile(o)' => files'[o].data >= files[o].data
      BY <1>1, <1>3, <1>6, <1>9
    <2>2. \A m \in Name \ {o, n} : IsFile(m) => files'[m].data >= files[m].data
      BY <1>6, <1>7
    <2> QED BY <1>6, <2>1, <2>2 DEF NotOlder
  <1>12. Fresh(h)'
    <2>1. c.data >= v.data /\ c.data = v.data
      BY <1>4
    <2> QED BY <1>4, <1>5, <1>6, <2>1 DEF Fresh
  <1>13. ASSUME NEW k \in Opened \ {h} PROVE Fresh(k)'
    <2>1. PICK m \in Name : m = wallets[k].name
      BY WalletType
    <2>2. CASE m = n
      BY <1>1, <1>5, <2>1, <2>2 DEF FindWallet, Fresh
    <2>3. CASE m = o
      BY <1>1, <1>5, <2>1, <2>3, SameName DEF TableInvariant, Fresh
    <2>4. CASE m \notin {n, o}
      BY <1>1, <1>5, <1>6, <1>8, <2>1, <2>4 DEF Contents, Fresh
    <2> QED BY <2>2, <2>3, <2>4
  <1> QED BY <1>5, <1>10, <1>11, <1>12, <1>13 DEF Contents

LEMMA ContentsInit == Init => Contents /\ Unread
  <1> SUFFICES ASSUME Init PROVE Contents /\ Unread
    OBVIOUS
  <1>1. Opened = {}
    BY NoWalletsType DEF Init, Opened
  <1>2. \A n \in Name : IsFile(n) => files[n].data = 0
    BY DEF Init, IsFile
  <1> QED BY <1>1, <1>2 DEF Init, Contents, Bounded, Unread

LEMMA ContentsNext ==
  ASSUME Structure, TableInvariant, Unread, Contents, [Next]_vars
  PROVE  Contents' /\ NotOlder
  <1>1. DataStep
    BY DataSteps
  <1>2. CASE UNCHANGED renamedOnto /\ ~PutStep /\ ~RenamedStep
    BY <1>1, <1>2, DataCalm, DataSaved, DataCrash, DataOpened, DataRekeyed DEF DataStep
  <1>3. CASE PutStep
    BY <1>3, DataPut DEF PutStep
  <1>4. CASE RenamedStep
    BY <1>4, DataRenamed DEF RenamedStep
  <1> QED BY <1>1, <1>2, <1>3, <1>4 DEF DataStep

StoreInvariant == Structure /\ TableInvariant /\ Unread /\ Contents

LEMMA StoreInvariantStep ==
  /\ Spec => []StoreInvariant
  /\ Spec => [][NotOlder]_vars
  <1>1. Init => StoreInvariant
    BY StructureInit, TableInit, ContentsInit DEF StoreInvariant
  <1>2. StoreInvariant /\ [Next]_vars => StoreInvariant' /\ NotOlder
    BY StructureStep, TableNext, UnreadStep, ContentsNext DEF StoreInvariant
  <1> QED BY <1>1, <1>2, PTL DEF Spec

\* While saving works, whatever is newer in memory than on disk has its sync
\* timer running, however writes, saves, renames and changes of password mix.
THEOREM ChangesAreTimed == Spec => []DirtyHasTimer
  <1>1. StoreInvariant => DirtyHasTimer
    BY DEF StoreInvariant, Contents, Fresh, DirtyHasTimer
  <1> QED BY <1>1, StoreInvariantStep, PTL

\* No save of any backend takes a file back to older contents, but where a
\* rename put two backends over one file.
THEOREM FilesStayNew == Spec => NoStaleWriteBack
  <1>1. NotOlder =>
          \A n \in Name \ renamedOnto' :
            IsFile(n) /\ IsFile(n)' => files'[n].data >= files[n].data
    BY DEF NotOlder
  <1> QED BY <1>1, StoreInvariantStep, PTL DEF NoStaleWriteBack

-----------------------------------------------------------------------------
(* Sessions and files as the store sees them: of the names in N only *)

UniqueIn(w, N) ==
  \A g, h \in DOMAIN w : w[g].name = w[h].name /\ w[h].name \in N => g = h
ContentOf(b) == [data |-> b.data, password |-> b.password]
OpenIn(w, N) == {h \in DOMAIN w : w[h].open /\ w[h].name \in N}
NamesIn(w, S, N) == {w[h].name : h \in S \cap OpenIn(w, N)}
HeldIn(s, n, c) == [m \in DOMAIN s \cup {n} |-> IF m = n THEN c ELSE s[m]]
DropIn(s, S) == [m \in DOMAIN s \ S |-> s[m]]

LEMMA SessionDomain ==
  ASSUME NEW w, NEW N
  PROVE  \A m : m \in DOMAIN SessionIn(w, N) <=> \E h \in OpenIn(w, N) : w[h].name = m
  BY DEF SessionIn, OpenOf, OpenIn

LEMMA SessionValue ==
  ASSUME NEW w, NEW N, UniqueIn(w, N), NEW h \in OpenIn(w, N)
  PROVE  /\ w[h].name \in DOMAIN SessionIn(w, N)
         /\ SessionIn(w, N)[w[h].name] = ContentOf(w[h])
  <1> DEFINE n == w[h].name
  <1>1. OpenOf(w, n) = {h}
    BY DEF OpenOf, OpenIn, UniqueIn
  <1>2. (CHOOSE k \in OpenOf(w, n) : TRUE) = h
    BY <1>1
  <1>3. n \in {m \in N : OpenOf(w, m) # {}}
    BY <1>1 DEF OpenIn
  <1> QED BY <1>2, <1>3 DEF SessionIn, ContentOf

\* Fewer names are looked at.
LEMMA SessionOfFewer ==
  ASSUME NEW w, NEW N, NEW S
  PROVE  SessionIn(w, N \ S) = DropIn(SessionIn(w, N), S)
  BY DEF SessionIn, DropIn

\* The backends of S are gone or no longer open, the others are as before.
LEMMA SessionDrop ==
  ASSUME NEW w, NEW v, NEW S, NEW N, UniqueIn(w, N), UniqueIn(v, N),
         OpenIn(v, N) = OpenIn(w, N) \ S,
         \A h \in OpenIn(v, N) : v[h].name = w[h].name /\ ContentOf(v[h]) = ContentOf(w[h])
  PROVE  SessionIn(v, N) = DropIn(SessionIn(w, N), NamesIn(w, S, N))
  <1> DEFINE names == {w[h].name : h \in S \cap OpenIn(w, N)}
             T == [m \in DOMAIN SessionIn(w, N) \ names |-> SessionIn(w, N)[m]]
  <1>1. DOMAIN SessionIn(v, N) = DOMAIN T
    <2>1. \A g \in OpenIn(w, N), h \in OpenIn(w, N) : w[g].name = w[h].name => g = h
      BY DEF UniqueIn, OpenIn
    <2>2. ASSUME NEW m
          PROVE  m \in DOMAIN SessionIn(v, N) <=> m \in DOMAIN SessionIn(w, N) \ names
      <3>1. m \in DOMAIN SessionIn(v, N) <=> \E h \in OpenIn(v, N) : v[h].name = m
        BY SessionDomain
      <3>2. m \in DOMAIN SessionIn(w, N) <=> \E h \in OpenIn(w, N) : w[h].name = m
        BY SessionDomain
      <3> QED BY <2>1, <3>1, <3>2
    <2> QED BY <2>2
  <1>2. \A m \in DOMAIN SessionIn(v, N) : SessionIn(v, N)[m] = T[m]
    <2> SUFFICES ASSUME NEW m \in DOMAIN SessionIn(v, N) PROVE SessionIn(v, N)[m] = T[m]
      OBVIOUS
    <2>1. PICK h \in OpenIn(v, N) : v[h].name = m
      BY SessionDomain
    <2>2. SessionIn(v, N)[m] = ContentOf(v[h])
      BY <2>1, SessionValue
    <2>3. SessionIn(w, N)[m] = ContentOf(w[h])
      BY <2>1, SessionValue
    <2> QED BY <1>1, <2>1, <2>2, <2>3
  <1>3. SessionIn(v, N) = [m \in DOMAIN SessionIn(v, N) |-> SessionIn(v, N)[m]]
    BY DEF SessionIn
  <1>4. SessionIn(v, N) = T
    BY <1>1, <1>2, <1>3
  <1> QED BY <1>4 DEF DropIn, NamesIn

\* Backend h is open, with new contents, and the others are as before.
LEMMA SessionHold ==
  ASSUME NEW w, NEW v, NEW N, NEW h \in OpenIn(v, N), UniqueIn(w, N), UniqueIn(v, N),
         OpenIn(v, N) = OpenIn(w, N) \cup {h},
         \A k \in OpenIn(w, N) : v[k].name = w[k].name,
         \A k \in OpenIn(w, N) \ {h} : ContentOf(v[k]) = ContentOf(w[k])
  PROVE  SessionIn(v, N) = HeldIn(SessionIn(w, N), v[h].name, ContentOf(v[h]))
  <1> DEFINE n == v[h].name
             T == [m \in DOMAIN SessionIn(w, N) \cup {n} |->
                     IF m = n THEN ContentOf(v[h]) ELSE SessionIn(w, N)[m]]
  <1>1. DOMAIN SessionIn(v, N) = DOMAIN T
    <2>1. ASSUME NEW m PROVE m \in DOMAIN SessionIn(v, N) <=> m \in DOMAIN SessionIn(w, N) \cup {n}
      <3>1. m \in DOMAIN SessionIn(v, N) <=> \E k \in OpenIn(v, N) : v[k].name = m
        BY SessionDomain
      <3>2. m \in DOMAIN SessionIn(w, N) <=> \E k \in OpenIn(w, N) : w[k].name = m
        BY SessionDomain
      <3> QED BY <3>1, <3>2
    <2> QED BY <2>1
  <1>2. \A m \in DOMAIN SessionIn(v, N) : SessionIn(v, N)[m] = T[m]
    <2> SUFFICES ASSUME NEW m \in DOMAIN SessionIn(v, N) PROVE SessionIn(v, N)[m] = T[m]
      OBVIOUS
    <2>1. PICK k \in OpenIn(v, N) : v[k].name = m
      BY SessionDomain
    <2>2. SessionIn(v, N)[m] = ContentOf(v[k])
      BY <2>1, SessionValue
    <2>3. CASE k = h
      BY <1>1, <2>1, <2>2, <2>3
    <2>4. CASE k # h
      <3>1. k \in OpenIn(w, N) /\ m # n
        BY <2>1, <2>4 DEF UniqueIn, OpenIn
      <3>2. SessionIn(w, N)[m] = ContentOf(w[k])
        BY <2>1, <3>1, SessionValue
      <3> QED BY <1>1, <2>1, <2>2, <2>4, <3>1, <3>2
    <2> QED BY <2>3, <2>4
  <1>3. SessionIn(v, N) = [m \in DOMAIN SessionIn(v, N) |-> SessionIn(v, N)[m]]
    BY DEF SessionIn
  <1> QED BY <1>1, <1>2, <1>3 DEF HeldIn

LEMMA DiskWritten ==
  ASSUME Structure, NEW n \in Name, NEW c \in Content, files' = [files EXCEPT ![n] = c],
         UNCHANGED renamedOnto
  PROVE  /\ n \in Clean => Disk' = [Disk EXCEPT ![n] = c]
         /\ n \notin Clean => Disk' = Disk
  BY StoreAssumption DEF Disk, StoredIn, Clean, Structure, TypeOK

LEMMA DiskRemoved ==
  ASSUME Structure, NEW n \in Name, NEW a \in {Absent, Junk}, files' = [files EXCEPT ![n] = a],
         UNCHANGED renamedOnto
  PROVE  Disk' = [Disk EXCEPT ![n] = NoWallet] /\ (~IsFile(n) => Disk' = Disk)
  <1>1. Disk' = [Disk EXCEPT ![n] = NoWallet]
    BY DEF Disk, StoredIn, Clean, Structure, TypeOK
  <1>2. ~IsFile(n) => Disk[n] = NoWallet
    BY DEF Disk, StoredIn, IsFile
  <1>3. Disk = [m \in Name |-> Disk[m]]
    BY DEF Disk, StoredIn
  <1> QED BY <1>1, <1>2, <1>3

LEMMA DiskSame == UNCHANGED <<files, renamedOnto>> => Disk' = Disk
  BY DEF Disk, Clean

\* A step of the store, or none.
StoreStep == [Store!StoreNext]_(Store!store)

\* Where nothing may be lost, each backend nobody renamed onto is open and can
\* be saved.
Kept ==
  ~MayLose => \A h \in Opened : wallets[h].name \in Clean =>
    wallets[h].open /\ wallets[h].cipher = "blowfish" /\ IsFile(wallets[h].name)

StoreKnown == Structure /\ TableInvariant /\ Contents /\ Kept
StoreNow == StoreKnown /\ Structure' /\ UniqueOpen' /\ UNCHANGED renamedOnto

LEMMA StoreStutters ==
  ASSUME StoreNow, Session' = Session, Disk' = Disk
  PROVE  StoreStep
  BY DEF StoreNow, StoreStep, Store!store

LEMMA StoreChanges ==
  ASSUME StoreNow, Store!Change
  PROVE  StoreStep
  BY DEF StoreNow, StoreStep, Store!StoreNext

LEMMA NowUnique ==
  ASSUME StoreNow
  PROVE  /\ UniqueIn(wallets, Clean) /\ UniqueIn(wallets', Clean) /\ Clean' = Clean
         /\ \A h \in Opened : wallets[h] \in Backend /\ wallets[h].name \in Name
         /\ \A h \in Opened' : wallets'[h] \in Backend /\ wallets'[h].name \in Name
         /\ \A h \in Opened : ContentOf(wallets[h]) \in Content
  <1>1. UniqueIn(wallets, Clean) /\ UniqueIn(wallets', Clean) /\ Clean' = Clean
    BY DEF StoreNow, StoreKnown, TableInvariant, UniqueOpen, UniqueIn, Opened, Clean
  <1>2. \A h \in Opened : wallets[h] \in Backend /\ wallets[h].name \in Name
    BY WalletType DEF StoreNow, StoreKnown
  <1>3. \A h \in Opened' : wallets'[h] \in Backend /\ wallets'[h].name \in Name
    BY DEF StoreNow, Structure, TypeOK, Backend
  <1> QED BY <1>1, <1>2, <1>3 DEF ContentOf, Content, Backend

\* The tables before and after, as constants.
Tables(w, v, N) ==
  /\ w = wallets /\ v = wallets' /\ N = Clean
  /\ DOMAIN w = Opened /\ DOMAIN v = Opened'
  /\ UniqueIn(w, N) /\ UniqueIn(v, N)
  /\ Session = SessionIn(w, N) /\ Session' = SessionIn(v, N)

LEMMA NowTables ==
  ASSUME StoreNow
  PROVE  \E w, v, N : Tables(w, v, N)
  <1>1. PICK w, v, N : w = wallets /\ v = wallets' /\ N = Clean /\ N = Clean'
    BY NowUnique
  <1>2. UniqueIn(w, N) /\ UniqueIn(v, N)
    BY <1>1, NowUnique
  <1>3. Session = SessionIn(w, N) /\ Session' = SessionIn(v, N)
    BY <1>1 DEF Session
  <1> QED BY <1>1, <1>2, <1>3 DEF Tables, Opened

LEMMA NowDrops ==
  ASSUME StoreNow, NEW S,
         OpenIn(wallets', Clean) = OpenIn(wallets, Clean) \ S,
         \A h \in OpenIn(wallets', Clean) :
           /\ wallets'[h].name = wallets[h].name
           /\ ContentOf(wallets'[h]) = ContentOf(wallets[h])
  PROVE  /\ Session' = Store!Drop(NamesIn(wallets, S, Clean))
         /\ NamesIn(wallets, S, Clean) \subseteq Store!Unlocked
  <1>1. PICK w, v, N : Tables(w, v, N)
    BY NowTables
  <1>2. /\ OpenIn(v, N) = OpenIn(w, N) \ S
        /\ \A h \in OpenIn(v, N) : v[h].name = w[h].name /\ ContentOf(v[h]) = ContentOf(w[h])
    BY <1>1 DEF Tables
  <1>3. SessionIn(v, N) = DropIn(SessionIn(w, N), NamesIn(w, S, N))
    BY <1>1, <1>2, SessionDrop DEF Tables
  <1>4. NamesIn(w, S, N) \subseteq DOMAIN SessionIn(w, N)
    BY <1>1, SessionValue DEF NamesIn, Tables
  <1> QED BY <1>1, <1>3, <1>4 DEF Store!Drop, Store!Unlocked, DropIn, Tables

LEMMA NowStays ==
  ASSUME StoreNow,
         OpenIn(wallets', Clean) = OpenIn(wallets, Clean),
         \A h \in OpenIn(wallets', Clean) :
           /\ wallets'[h].name = wallets[h].name
           /\ ContentOf(wallets'[h]) = ContentOf(wallets[h])
  PROVE  Session' = Session
  <1> DEFINE S == {}
  <1>1. OpenIn(wallets', Clean) = OpenIn(wallets, Clean) \ S
    OBVIOUS
  <1>2. NamesIn(wallets, S, Clean) = {}
    BY DEF NamesIn
  <1> HIDE DEF S
  <1>3. Session' = Store!Drop({})
    BY <1>1, <1>2, NowDrops
  <1>4. Session = [m \in DOMAIN Session |-> Session[m]]
    BY DEF Session, SessionIn
  <1> QED BY <1>3, <1>4 DEF Store!Drop, Store!Unlocked

\* One backend is replaced, or added, under its name.
LEMMA NowHolds ==
  ASSUME StoreNow, NEW h \in Opened', NEW b, wallets'[h] = b,
         Opened' = Opened \cup {h}, \A k \in Opened \ {h} : wallets'[k] = wallets[k],
         h \in Opened => wallets[h].name = b.name
  PROVE  /\ b.open /\ b.name \in Clean => Session' = Store!Hold(b.name, ContentOf(b))
         /\ (b.name \notin Clean \/ ~b.open) /\ (h \in Opened /\ wallets[h].name \in Clean => ~wallets[h].open)
            => Session' = Session
  <1>1. PICK w, v, N : Tables(w, v, N)
    BY NowTables
  <1>2. v[h] = b /\ DOMAIN v = DOMAIN w \cup {h} /\ \A k \in DOMAIN w \ {h} : v[k] = w[k]
    BY <1>1 DEF Tables
  <1>3. ASSUME b.open, b.name \in N PROVE Session' = Store!Hold(b.name, ContentOf(b))
    <2>1. h \in OpenIn(v, N) /\ UniqueIn(w, N) /\ UniqueIn(v, N)
      BY <1>1, <1>2, <1>3 DEF OpenIn, Tables
    <2>2. h \in DOMAIN w => w[h].name = b.name
      BY <1>1 DEF Tables
    <2>3. /\ OpenIn(v, N) = OpenIn(w, N) \cup {h}
          /\ \A k \in OpenIn(w, N) : v[k].name = w[k].name
          /\ \A k \in OpenIn(w, N) \ {h} : ContentOf(v[k]) = ContentOf(w[k])
      BY <1>2, <1>3, <2>2 DEF OpenIn
    <2>4. SessionIn(v, N) = HeldIn(SessionIn(w, N), v[h].name, ContentOf(v[h]))
      BY <2>1, <2>3, SessionHold
    <2> QED BY <1>1, <1>2, <2>4 DEF Store!Hold, Store!Unlocked, HeldIn, Tables
  <1>4. ASSUME b.name \notin N \/ ~b.open, h \in DOMAIN w /\ w[h].name \in N => ~w[h].open
        PROVE  Session' = Session
    <2>1. OpenIn(v, N) = OpenIn(w, N) /\ \A k \in OpenIn(v, N) : v[k] = w[k]
      BY <1>2, <1>4 DEF OpenIn
    <2> QED BY <1>1, <2>1, NowStays DEF Tables
  <1> QED BY <1>1, <1>3, <1>4 DEF Tables

\* What the store has of an open backend.
LEMMA NowHas ==
  ASSUME StoreNow, NEW h \in Opened, wallets[h].open, wallets[h].name \in Clean
  PROVE  wallets[h].name \in Store!Unlocked /\ Session[wallets[h].name] = ContentOf(wallets[h])
  <1>1. h \in OpenIn(wallets, Clean) /\ UniqueIn(wallets, Clean)
    BY NowUnique DEF OpenIn, Opened
  <1> QED BY <1>1, SessionValue DEF Session, Store!Unlocked

LEMMA NowUnopened ==
  ASSUME StoreNow, NEW n, \A h \in Opened : wallets[h].name = n => ~wallets[h].open
  PROVE  n \notin Store!Unlocked
  BY SessionDomain DEF Session, Store!Unlocked, OpenIn, Opened

LEMMA NowSync ==
  ASSUME StoreNow, NEW h \in Opened, NEW b \in Backend, Sync(b),
         b.name = wallets[h].name, b.open = wallets[h].open, b.cipher = wallets[h].cipher
  PROVE  /\ \/ b.open /\ b.name \in Clean /\ Disk' = [Disk EXCEPT ![b.name] = ContentOf(b)]
            \/ Disk' = Disk /\ (MayLose \/ b.name \notin Clean)
         /\ \A n \in Name : IsFile(n) => files'[n] \notin {Absent, Junk}
  <1>1. b.name \in Name /\ ContentOf(b) \in Content
    BY NowUnique DEF ContentOf, Content, Backend
  <1>2. CASE Saved(b)
    <2>1. files' = [files EXCEPT ![b.name] = ContentOf(b)] /\ b.open
      BY <1>2 DEF Saved, Savable, ContentOf
    <2>2. /\ b.name \in Clean => Disk' = [Disk EXCEPT ![b.name] = ContentOf(b)]
          /\ b.name \notin Clean => Disk' = Disk
      BY <1>1, <2>1, DiskWritten DEF StoreNow, StoreKnown
    <2>3. \A n \in Name : IsFile(n) => files'[n] \notin {Absent, Junk}
      BY <1>1, <2>1, StoreAssumption DEF IsFile, StoreNow, StoreKnown, Structure, TypeOK
    <2> QED BY <2>1, <2>2, <2>3
  <1>3. CASE NotSaved(b)
    <2>1. UNCHANGED <<files, Disk>>
      BY <1>3, DiskSame DEF NotSaved, StoreNow
    <2>2. MayLose \/ b.name \notin Clean
      <3> SUFFICES ASSUME ~MayLose, b.name \in Clean PROVE FALSE
        BY StoreAssumption
      <3>1. b.open /\ b.cipher = "blowfish" /\ IsFile(b.name) /\ "sync" \notin Faults
        BY StoreAssumption DEF StoreNow, StoreKnown, Kept
      <3> QED BY <1>3, <3>1 DEF NotSaved, Savable, IsFile
    <2> QED BY <2>1, <2>2 DEF IsFile
  <1> QED BY <1>2, <1>3 DEF Sync

\* The files and backends a step leaves as they are stay kept.
LEMMA NowKept ==
  ASSUME StoreNow, NEW H,
         ~MayLose => \A h \in Opened' \ H :
           /\ h \in Opened /\ wallets'[h] = wallets[h]
           /\ IsFile(wallets[h].name) => files'[wallets[h].name] \notin {Absent, Junk},
         ~MayLose => \A h \in Opened' \cap H : wallets'[h].name \in Clean =>
           /\ wallets'[h].open /\ wallets'[h].cipher = "blowfish"
           /\ files'[wallets'[h].name] \notin {Absent, Junk}
  PROVE  Kept'
  BY NowUnique DEF StoreNow, StoreKnown, Kept, IsFile

LEMMA NowForgets ==
  ASSUME StoreNow, NEW S, Forget(S)
  PROVE  /\ Session' = Store!Drop(NamesIn(wallets, S, Clean))
         /\ NamesIn(wallets, S, Clean) \subseteq Store!Unlocked
  <1>1. PICK w, v, N : Tables(w, v, N)
    BY NowTables
  <1>2. DOMAIN v = DOMAIN w \ S /\ \A h \in DOMAIN v : v[h] = w[h]
    BY <1>1, ForgetWallets DEF Tables
  <1>3. OpenIn(v, N) = OpenIn(w, N) \ S /\ \A h \in OpenIn(v, N) : v[h] = w[h]
    BY <1>2 DEF OpenIn
  <1> QED BY <1>1, <1>3, NowDrops DEF Tables

LEMMA NowForgetsOne ==
  ASSUME StoreNow, NEW h \in Opened, Forget({h})
  PROVE  IF wallets[h].open /\ wallets[h].name \in Clean
         THEN Session' = Store!Drop({wallets[h].name}) ELSE Session' = Session
  <1>1. Session' = Store!Drop(NamesIn(wallets, {h}, Clean))
    BY NowForgets
  <1>2. wallets[h].open /\ wallets[h].name \in Clean =>
          NamesIn(wallets, {h}, Clean) = {wallets[h].name}
    BY DEF NamesIn, OpenIn, Opened
  <1>3. ~(wallets[h].open /\ wallets[h].name \in Clean) => NamesIn(wallets, {h}, Clean) = {}
    BY DEF NamesIn, OpenIn
  <1>4. Store!Drop({}) = Session
    BY DEF Store!Drop, Store!Unlocked, Session, SessionIn
  <1> QED BY <1>1, <1>2, <1>3, <1>4

\* Where no file goes and no backend is changed.
LEMMA KeptCalm ==
  ASSUME StoreNow, \A n \in Name : ~MayLose /\ IsFile(n) => files'[n] \notin {Absent, Junk},
         \A k \in Opened' : k \in Opened /\ wallets'[k] = wallets[k]
  PROVE  Kept'
  <1> DEFINE H == {}
  <1>1. /\ \A k \in Opened' \ H :
             /\ k \in Opened /\ wallets'[k] = wallets[k]
             /\ ~MayLose /\ IsFile(wallets[k].name) => files'[wallets[k].name] \notin {Absent, Junk}
        /\ Opened' \cap H = {}
    BY NowUnique
  <1> HIDE DEF H
  <1> QED BY <1>1, NowKept

-----------------------------------------------------------------------------
(* Each step is one of the store, or none *)

LEMMA StoreSame == ASSUME StoreNow, SameStep PROVE StoreStep /\ Kept'
  <1>1. Session' = Session /\ Disk' = Disk
    BY DiskSame, NowUnique DEF SameStep, Session, StoreNow
  <1>2. Kept'
    BY KeptCalm DEF SameStep, Opened, IsFile
  <1> QED BY <1>1, <1>2, StoreStutters

LEMMA StoreSave == ASSUME StoreNow, SaveStep PROVE StoreStep /\ Kept'
  <1>1. PICK h \in Opened : Sync(wallets[h]) /\ UNCHANGED wallets
    BY DEF SaveStep
  <1>2. PICK b \in Backend : b = wallets[h]
    BY NowUnique
  <1>3. /\ \/ b.open /\ b.name \in Clean /\ Disk' = [Disk EXCEPT ![b.name] = ContentOf(b)]
           \/ Disk' = Disk /\ (MayLose \/ b.name \notin Clean)
        /\ \A n \in Name : IsFile(n) => files'[n] \notin {Absent, Junk}
    BY <1>1, <1>2, NowSync
  <1>4. Session' = Session
    BY <1>1, NowUnique DEF Session
  <1>5. StoreStep
    <2>1. CASE Disk' = Disk
      BY <1>4, <2>1, StoreStutters
    <2>2. CASE b.open /\ b.name \in Clean /\ Disk' = [Disk EXCEPT ![b.name] = ContentOf(b)]
      <3>1. b.name \in Name /\ b.name \in Store!Unlocked /\ Session[b.name] = ContentOf(b)
        BY <1>2, <2>2, NowHas, NowUnique
      <3>2. Store!Save(b.name)
        BY <1>4, <2>2, <3>1 DEF Store!Save, Store!Write
      <3> QED BY <3>1, <3>2, StoreChanges DEF Store!Change
    <2> QED BY <1>3, <2>1, <2>2
  <1>6. Kept'
    BY <1>1, <1>3, KeptCalm DEF Opened
  <1> QED BY <1>5, <1>6

LEMMA StoreClose == ASSUME StoreNow, CloseStep PROVE StoreStep /\ Kept'
  <1>1. PICK h \in Opened : Sync(wallets[h]) /\ Forget({h})
    BY DEF CloseStep, InternalClose
  <1>2. PICK b \in Backend : b = wallets[h]
    BY NowUnique
  <1>3. /\ \/ b.open /\ b.name \in Clean /\ Disk' = [Disk EXCEPT ![b.name] = ContentOf(b)]
           \/ Disk' = Disk /\ (MayLose \/ b.name \notin Clean)
        /\ \A n \in Name : IsFile(n) => files'[n] \notin {Absent, Junk}
    BY <1>1, <1>2, NowSync
  <1>4. StoreStep
    <2>1. CASE b.open /\ b.name \in Clean
      <3>1. b.name \in Name /\ b.name \in Store!Unlocked /\ Session[b.name] = ContentOf(b)
        BY <1>2, <2>1, NowHas, NowUnique
      <3>2. Session' = Store!Drop({b.name})
        BY <1>1, <1>2, <2>1, NowForgetsOne
      <3>3. Store!Lock(b.name)
        BY <1>3, <2>1, <3>1, <3>2 DEF Store!Lock, Store!Write
      <3> QED BY <3>1, <3>3, StoreChanges DEF Store!Change
    <2>2. CASE ~(b.open /\ b.name \in Clean)
      <3>1. Session' = Session /\ Disk' = Disk
        BY <1>1, <1>2, <1>3, <2>2, NowForgetsOne
      <3> QED BY <3>1, StoreStutters
    <2> QED BY <2>1, <2>2
  <1>5. Kept'
    BY <1>1, <1>3, ForgetWallets, KeptCalm
  <1> QED BY <1>4, <1>5

LEMMA StoreDrop == ASSUME StoreNow, DropStep PROVE StoreStep /\ Kept'
  <1>1. Forget(Gone) /\ UNCHANGED files
    BY DEF DropStep
  <1>2. PICK S : S = NamesIn(wallets, Gone, Clean)
    OBVIOUS
  <1>3. Disk' = Disk /\ Session' = Store!Drop(S) /\ S \subseteq Store!Unlocked
    BY <1>1, <1>2, DiskSame, NowForgets DEF StoreNow
  <1>4. StoreStep
    <2>1. CASE MayLose
      <3>1. Store!Abandon
        BY <1>3, <2>1 DEF Store!Abandon
      <3> QED BY <3>1, StoreChanges DEF Store!Change
    <2>2. CASE ~MayLose
      <3>1. \A h \in Gone : h \in Opened /\ wallets[h].name \notin Clean
        BY <2>2 DEF Gone, StoreNow, StoreKnown, Kept, IsFile
      <3>2. S = {}
        BY <1>2, <3>1 DEF NamesIn, OpenIn
      <3>3. Store!Drop({}) = Session
        BY DEF Store!Drop, Store!Unlocked, Session, SessionIn
      <3> QED BY <1>3, <3>2, <3>3, StoreStutters
    <2> QED BY <2>1, <2>2
  <1>5. Kept'
    BY <1>1, ForgetWallets, KeptCalm DEF IsFile
  <1> QED BY <1>4, <1>5

LEMMA StoreCrash == ASSUME StoreNow, CrashStep PROVE StoreStep /\ Kept'
  <1>1. Opened' = {} /\ Kept'
    BY NoWalletsType DEF CrashStep, Opened, Kept
  <1>2. Session' = Store!Drop(Store!Unlocked)
    <2>1. PICK S : S = Opened
      OBVIOUS
    <2>2. OpenIn(wallets', Clean) = {} /\ OpenIn(wallets', Clean) = OpenIn(wallets, Clean) \ S
      BY <1>1, <2>1 DEF OpenIn, Opened
    <2>3. Session' = Store!Drop(NamesIn(wallets, S, Clean))
      BY <2>2, NowDrops
    <2>4. NamesIn(wallets, S, Clean) = Store!Unlocked
      <3>1. \A m : m \in DOMAIN SessionIn(wallets, Clean)
                     <=> \E h \in OpenIn(wallets, Clean) : wallets[h].name = m
        BY SessionDomain
      <3>2. \A h \in OpenIn(wallets, Clean) : h \in S
        BY <2>1 DEF OpenIn, Opened
      <3> QED BY <3>1, <3>2 DEF NamesIn, Store!Unlocked, Session
    <2> QED BY <2>3, <2>4
  <1>3. Disk' = Disk \/ \E n \in Store!Unlocked : Disk' = Store!Write(n, Session[n])
    <2>1. CASE UNCHANGED files
      BY <2>1, DiskSame DEF StoreNow
    <2>2. ASSUME NEW h \in Opened, Sync(wallets[h])
          PROVE  Disk' = Disk \/ \E n \in Store!Unlocked : Disk' = Store!Write(n, Session[n])
      <3>1. PICK b \in Backend : b = wallets[h]
        BY NowUnique
      <3>2. \/ b.open /\ b.name \in Clean /\ Disk' = [Disk EXCEPT ![b.name] = ContentOf(b)]
            \/ Disk' = Disk
        BY <2>2, <3>1, NowSync
      <3>3. b.open /\ b.name \in Clean =>
              b.name \in Store!Unlocked /\ Session[b.name] = ContentOf(b)
        BY <3>1, NowHas
      <3> QED BY <3>2, <3>3 DEF Store!Write
    <2> QED BY <2>1, <2>2 DEF CrashStep
  <1>4. Store!Crash
    BY <1>2, <1>3 DEF Store!Crash
  <1> QED BY <1>1, <1>4, StoreChanges DEF Store!Change

LEMMA StoreOpen == ASSUME StoreNow, OpenStep PROVE StoreStep /\ Kept'
  <1>1. PICK h \in Handle, n \in Name, p \in Password, c \in {"blowfish", "unknown"},
             idle \in BOOLEAN :
          /\ Opens(n, p, c) /\ Insert(h, OpenBackend(n, p, c), idle)
          /\ FindWallet(n) = {} \/ n \in renamedOnto
          /\ c = "unknown" => IsFile(n) \/ "open" \in Faults
    BY DEF OpenStep
  <1>2. PICK b : b = OpenBackend(n, p, c)
    OBVIOUS
  <1>3. /\ b.name = n /\ b.open /\ b.password = p
        /\ b.cipher = (IF IsFile(n) THEN "blowfish" ELSE c)
        /\ b.data = (IF IsFile(n) THEN files[n].data ELSE 0)
    BY <1>2 DEF OpenBackend
  <1>4. h \notin Opened /\ wallets' = With(h, b) /\ (n \in Clean => FindWallet(n) = {})
    BY <1>1, <1>2 DEF Insert, Clean
  <1>5. /\ Opened' = Opened \cup {h} /\ wallets'[h] = b
        /\ \A k \in Opened : wallets'[k] = wallets[k] /\ (n \in Clean => wallets[k].name # n)
    BY <1>4, WithWallets DEF FindWallet
  <1>6. /\ n \in Clean => Session' = Store!Hold(n, ContentOf(b)) /\ n \notin Store!Unlocked
        /\ n \notin Clean => Session' = Session
    <2>1. /\ n \in Clean => Session' = Store!Hold(b.name, ContentOf(b))
          /\ n \notin Clean => Session' = Session
      BY <1>3, <1>4, <1>5, NowHolds
    <2>2. n \in Clean => n \notin Store!Unlocked
      BY <1>5, NowUnopened
    <2> QED BY <1>3, <2>1, <2>2
  <1>7. StoreStep /\ (~MayLose => b.cipher = "blowfish" /\ files'[n] \notin {Absent, Junk})
    <2>1. CASE IsFile(n) /\ files[n].password = p /\ UNCHANGED files
      <3>1. files[n] \in Content /\ ContentOf(b) = files[n]
        BY <1>3, <2>1, FileType DEF StoreNow, StoreKnown, ContentOf, Content
      <3>2. Disk' = Disk
        BY <2>1, DiskSame DEF StoreNow
      <3>3. ASSUME n \in Clean PROVE StoreStep
        <4>1. Disk[n] = ContentOf(b) /\ Disk[n] # NoWallet
          BY <2>1, <3>1, <3>3, StoreAssumption DEF Disk, StoredIn, IsFile
        <4>2. Store!Unlock(n)
          BY <1>6, <3>2, <3>3, <4>1 DEF Store!Unlock
        <4> QED BY <4>2, StoreChanges DEF Store!Change
      <3>4. n \notin Clean => StoreStep
        BY <1>6, <3>2, StoreStutters
      <3> QED BY <1>3, <2>1, <3>3, <3>4 DEF IsFile
    <2>2. ASSUME ~IsFile(n), c = "blowfish", files' = [files EXCEPT ![n] = [data |-> 0, password |-> p]]
          PROVE  StoreStep /\ (~MayLose => b.cipher = "blowfish" /\ files'[n] \notin {Absent, Junk})
      <3>1. PICK d \in Content : d = [data |-> 0, password |-> p]
        BY DEF Content
      <3>2. /\ n \in Clean => Disk' = [Disk EXCEPT ![n] = d]
            /\ n \notin Clean => Disk' = Disk
        BY <2>2, <3>1, DiskWritten DEF StoreNow, StoreKnown
      <3>3. ASSUME n \in Clean PROVE StoreStep
        <4>1. Disk[n] = NoWallet /\ ContentOf(b) = d
          BY <1>3, <2>2, <3>1 DEF Disk, StoredIn, IsFile, ContentOf
        <4>2. n \notin renamedOnto
          BY <3>3 DEF Clean
        <4>3. Store!Create(n, p)
          BY <1>6, <3>1, <3>2, <3>3, <4>1, <4>2 DEF Store!Create, Store!Write
        <4> QED BY <4>3, StoreChanges DEF Store!Change
      <3>4. n \notin Clean => StoreStep
        BY <1>6, <3>2, StoreStutters
      <3>5. files'[n] = d /\ d \notin {Absent, Junk}
        BY <2>2, <3>1, StoreAssumption DEF StoreNow, StoreKnown, Structure, TypeOK
      <3> QED BY <1>3, <2>2, <3>3, <3>4, <3>5
    <2>3. ASSUME ~IsFile(n), c = "unknown" \/ "sync" \in Faults, files' = [files EXCEPT ![n] = Junk]
          PROVE  StoreStep /\ MayLose
      <3>1. MayLose
        BY <1>1, <2>3, StoreAssumption
      <3>2. Disk' = Disk /\ Disk[n] = NoWallet
        BY <2>3, DiskRemoved DEF StoreNow, StoreKnown, Disk, StoredIn, IsFile
      <3>3. ASSUME n \in Clean PROVE StoreStep
        <4>1. ContentOf(b) = [data |-> 0, password |-> p] /\ n \notin renamedOnto
          BY <1>3, <2>3, <3>3 DEF ContentOf, Clean
        <4>2. Store!Create(n, p)
          BY <1>6, <3>1, <3>2, <3>3, <4>1 DEF Store!Create
        <4> QED BY <4>2, StoreChanges DEF Store!Change
      <3>4. n \notin Clean => StoreStep
        BY <1>6, <3>2, StoreStutters
      <3> QED BY <3>1, <3>3, <3>4
    <2> QED BY <1>1, <2>1, <2>2, <2>3 DEF Opens
  <1>8. Kept'
    <2>1. \A m \in Name \ {n} : files'[m] = files[m]
      BY <1>1 DEF Opens, StoreNow, StoreKnown, Structure, TypeOK
    <2>2. ~MayLose => \A m \in Name : IsFile(m) => files'[m] \notin {Absent, Junk}
      BY <1>7, <2>1 DEF IsFile
    <2>3. ~MayLose => \A k \in Opened' \ {h} :
            /\ k \in Opened /\ wallets'[k] = wallets[k]
            /\ IsFile(wallets[k].name) => files'[wallets[k].name] \notin {Absent, Junk}
      BY <1>5, <2>2, NowUnique
    <2>4. ~MayLose => \A k \in Opened' \cap {h} : wallets'[k].name \in Clean =>
            /\ wallets'[k].open /\ wallets'[k].cipher = "blowfish"
            /\ files'[wallets'[k].name] \notin {Absent, Junk}
      BY <1>3, <1>5, <1>7
    <2> QED BY <2>3, <2>4, NowKept
  <1> QED BY <1>7, <1>8

LEMMA StoreUnopened == ASSUME StoreNow, UnopenedStep PROVE StoreStep /\ Kept'
  <1>1. PICK h \in Handle, b \in Backend, idle \in BOOLEAN :
          /\ ~b.open /\ Insert(h, b, idle)
          /\ "open" \in Faults /\ UNCHANGED files
    BY DEF UnopenedStep
  <1>2. h \notin Opened /\ wallets' = With(h, b)
    BY <1>1 DEF Insert
  <1>3. /\ Opened' = Opened \cup {h} /\ wallets'[h] = b
        /\ \A k \in Opened \ {h} : wallets'[k] = wallets[k]
    BY <1>2, WithWallets
  <1>4. Session' = Session
    BY <1>1, <1>2, <1>3, NowHolds
  <1>5. StoreStep
    BY <1>1, <1>4, DiskSame, StoreStutters DEF StoreNow
  <1> QED BY <1>1, <1>5, StoreAssumption DEF Kept

LEMMA StoreRekey == ASSUME StoreNow, RekeyStep PROVE StoreStep /\ Kept'
  <1>0. PICK h \in Opened, p \in Password :
          \E b : /\ b = [wallets[h] EXCEPT !.password = p]
                 /\ \/ Saved(b) /\ Forget({h})
                    \/ Sync(b) /\ wallets' = With(h, b)
                    \/ /\ Saved(b) /\ wallets' = With(h, [b EXCEPT !.open = FALSE])
                       /\ "open" \in Faults
    BY DEF RekeyStep
  <1>1. PICK b :
          /\ b = [wallets[h] EXCEPT !.password = p]
          /\ \/ Saved(b) /\ Forget({h})
             \/ Sync(b) /\ wallets' = With(h, b)
             \/ Saved(b) /\ wallets' = With(h, [b EXCEPT !.open = FALSE]) /\ "open" \in Faults
    BY <1>0
  <1>2. PICK a \in Backend : a = wallets[h] /\ a.name \in Name
    BY NowUnique
  <1>3. /\ b \in Backend /\ b.name = a.name /\ b.open = a.open /\ b.cipher = a.cipher
        /\ b.data = a.data /\ b.password = p
    BY <1>1, <1>2 DEF Backend
  <1>4. PICK n \in Name : n = a.name
    BY <1>2
  <1>5. Saved(b) =>
          /\ Sync(b) /\ a.open
          /\ n \in Clean => Disk' = [Disk EXCEPT ![n] = ContentOf(b)]
          /\ n \notin Clean => Disk' = Disk
    <2>1. ASSUME Saved(b) PROVE a.open /\ files' = [files EXCEPT ![n] = ContentOf(b)]
      BY <1>3, <1>4, <2>1 DEF Saved, Savable, ContentOf
    <2>2. ContentOf(b) \in Content
      BY <1>3 DEF ContentOf, Content, Backend
    <2> QED BY <2>1, <2>2, DiskWritten DEF Sync, StoreNow, StoreKnown
  <1>6. a.open /\ n \in Clean => n \in Store!Unlocked /\ Session[n] = ContentOf(a)
    BY <1>2, <1>4, NowHas
  <1>7. [ContentOf(a) EXCEPT !.password = p] = ContentOf(b)
    BY <1>3 DEF ContentOf
  <1>8. \A m \in Name : IsFile(m) => files'[m] \notin {Absent, Junk}
    <2>1. Sync(b)
      BY <1>1, <1>5
    <2> QED BY <1>2, <1>3, <2>1, NowSync
  <1>9. Store!Rekey(n, p) => StoreStep
    BY StoreChanges DEF Store!Change
  <1>10. ASSUME Saved(b), Forget({h}) PROVE StoreStep /\ Kept'
    <2>1. ASSUME n \in Clean PROVE StoreStep
      <3>1. Session' = Store!Drop({n})
        BY <1>2, <1>4, <1>5, <1>10, <2>1, NowForgetsOne
      <3>2. Store!Rekey(n, p)
        BY <1>5, <1>6, <1>7, <1>10, <2>1, <3>1 DEF Store!Rekey, Store!Write
      <3> QED BY <1>9, <3>2
    <2>2. ASSUME n \notin Clean PROVE StoreStep
      <3>1. Session' = Session
        BY <1>2, <1>4, <1>10, <2>2, NowForgetsOne
      <3> QED BY <1>5, <1>10, <2>2, <3>1, StoreStutters
    <2>3. Kept'
      BY <1>8, <1>10, ForgetWallets, KeptCalm
    <2> QED BY <2>1, <2>2, <2>3
  <1>11. ASSUME Sync(b), wallets' = With(h, b) PROVE StoreStep /\ Kept'
    <2>1. /\ Opened' = Opened \cup {h} /\ wallets'[h] = b
          /\ \A k \in Opened \ {h} : wallets'[k] = wallets[k]
      BY <1>11, WithWallets
    <2>2. IF a.open /\ n \in Clean THEN Session' = Store!Hold(n, ContentOf(b)) ELSE Session' = Session
      BY <1>2, <1>3, <1>4, <2>1, NowHolds
    <2>3. \/ b.open /\ n \in Clean /\ Disk' = [Disk EXCEPT ![n] = ContentOf(b)]
          \/ Disk' = Disk /\ (MayLose \/ n \notin Clean)
      BY <1>2, <1>3, <1>4, <1>11, NowSync
    <2>4. StoreStep
      <3>1. CASE a.open /\ n \in Clean
        <4>1. Store!Rekey(n, p)
          BY <1>6, <1>7, <2>2, <2>3, <3>1 DEF Store!Rekey, Store!Write
        <4> QED BY <1>9, <4>1
      <3>2. CASE ~(a.open /\ n \in Clean)
        BY <1>3, <2>2, <2>3, <3>2, StoreStutters
      <3> QED BY <3>1, <3>2
    <2>5. ~MayLose => \A k \in Opened' \ {h} :
            /\ k \in Opened /\ wallets'[k] = wallets[k]
            /\ IsFile(wallets[k].name) => files'[wallets[k].name] \notin {Absent, Junk}
      BY <1>8, <2>1, NowUnique
    <2>6. ~MayLose => \A k \in Opened' \cap {h} : wallets'[k].name \in Clean =>
            /\ wallets'[k].open /\ wallets'[k].cipher = "blowfish"
            /\ files'[wallets'[k].name] \notin {Absent, Junk}
      <3>1. ~MayLose /\ n \in Clean => a.open /\ a.cipher = "blowfish" /\ IsFile(n)
        BY <1>2, <1>4 DEF StoreNow, StoreKnown, Kept
      <3> QED BY <1>3, <1>4, <1>8, <2>1, <3>1
    <2>7. Kept'
      BY <2>5, <2>6, NowKept
    <2> QED BY <2>4, <2>7
  <1>12. ASSUME Saved(b), wallets' = With(h, [b EXCEPT !.open = FALSE]), "open" \in Faults
         PROVE  StoreStep /\ Kept'
    <2>1. MayLose
      BY <1>12, StoreAssumption
    <2>2. PICK w, v, N : Tables(w, v, N)
      BY NowTables
    <2>3. PICK S : S = {h}
      OBVIOUS
    <2>4. /\ DOMAIN v = DOMAIN w \cup {h} /\ ~v[h].open
          /\ \A k \in DOMAIN w \ {h} : v[k] = w[k]
      <3>1. PICK d : d = [b EXCEPT !.open = FALSE]
        OBVIOUS
      <3>2. ~d.open
        BY <1>3, <3>1 DEF Backend
      <3>3. /\ Opened' = Opened \cup {h} /\ wallets'[h] = d
            /\ \A k \in Opened \ {h} : wallets'[k] = wallets[k]
        BY <1>12, <3>1, WithWallets
      <3> QED BY <2>2, <3>2, <3>3 DEF Tables
    <2>5. OpenIn(v, N) = OpenIn(w, N) \ S /\ \A k \in OpenIn(v, N) : v[k] = w[k]
      BY <2>3, <2>4 DEF OpenIn
    <2>6. Session' = Store!Drop(NamesIn(wallets, S, Clean))
      BY <2>2, <2>5, NowDrops DEF Tables
    <2>7. ASSUME n \in Clean PROVE StoreStep
      <3>1. NamesIn(wallets, S, Clean) = {n}
        BY <1>2, <1>4, <1>5, <1>12, <2>2, <2>3, <2>7 DEF NamesIn, OpenIn, Tables
      <3>2. Store!Rekey(n, p)
        BY <1>5, <1>6, <1>7, <1>12, <2>6, <2>7, <3>1 DEF Store!Rekey, Store!Write
      <3> QED BY <1>9, <3>2
    <2>8. ASSUME n \notin Clean PROVE StoreStep
      <3>1. NamesIn(wallets, S, Clean) = {}
        BY <1>2, <1>4, <2>3, <2>8 DEF NamesIn, OpenIn
      <3>2. Store!Drop({}) = Session
        BY DEF Store!Drop, Store!Unlocked, Session, SessionIn
      <3> QED BY <1>5, <1>12, <2>6, <2>8, <3>1, <3>2, StoreStutters
    <2> QED BY <2>1, <2>7, <2>8 DEF Kept
  <1> QED BY <1>1, <1>10, <1>11, <1>12

LEMMA StorePut == ASSUME StoreNow, PutStep PROVE StoreStep /\ Kept'
  <1>0. PICK h \in Opened :
          /\ wallets' = [wallets EXCEPT ![h].data = IF wallets[h].open THEN writes + 1 ELSE @]
          /\ UNCHANGED files
    BY DEF PutStep, WriteEntry
  <1>1. PICK b :
          /\ b = [wallets[h] EXCEPT !.data = IF wallets[h].open THEN writes + 1 ELSE @]
          /\ wallets' = [wallets EXCEPT ![h] = b] /\ UNCHANGED files
    BY <1>0
  <1>2. PICK a \in Backend : a = wallets[h] /\ a.name \in Name
    BY NowUnique
  <1>3. /\ b.name = a.name /\ b.open = a.open /\ b.cipher = a.cipher /\ b.password = a.password
        /\ a.open => b.data = writes + 1
    BY <1>1, <1>2 DEF Backend
  <1>4. /\ Opened' = Opened \cup {h} /\ wallets'[h] = b
        /\ \A k \in Opened \ {h} : wallets'[k] = wallets[k]
    BY <1>1 DEF Opened
  <1>5. Disk' = Disk
    BY <1>1, DiskSame DEF StoreNow
  <1>6. IF a.open /\ a.name \in Clean
        THEN Session' = Store!Hold(a.name, ContentOf(b)) ELSE Session' = Session
    BY <1>2, <1>3, <1>4, NowHolds
  <1>7. StoreStep
    <2>1. CASE a.open /\ a.name \in Clean
      <3>1. PICK n \in Name : n = a.name
        BY <1>2
      <3>2. n \in Store!Unlocked /\ Session[n] = ContentOf(a)
        BY <1>2, <2>1, <3>1, NowHas
      <3>3. Session' = Store!Hold(n, ContentOf(b))
        BY <1>6, <2>1, <3>1
      <3>4. DOMAIN Session' = Store!Unlocked /\ Session'[n] = ContentOf(b)
        BY <3>2, <3>3 DEF Store!Hold, Store!Unlocked
      <3>5. [ContentOf(a) EXCEPT !.data = ContentOf(b).data] = ContentOf(b)
        BY <1>3 DEF ContentOf
      <3>6. a.data \in Nat /\ a.data =< writes /\ writes \in Nat
        BY <1>2 DEF Backend, StoreNow, StoreKnown, Contents, Bounded, Structure, TypeOK
      <3>7. ContentOf(b).data > ContentOf(a).data
        BY <1>3, <2>1, <3>6 DEF ContentOf
      <3>8. Store!Put(n)
        BY <1>5, <3>2, <3>3, <3>4, <3>5, <3>7 DEF Store!Put
      <3> QED BY <3>8, StoreChanges DEF Store!Change
    <2>2. CASE ~(a.open /\ a.name \in Clean)
      BY <1>5, <1>6, <2>2, StoreStutters
    <2> QED BY <2>1, <2>2
  <1>8. Kept'
    <2>1. ~MayLose => \A k \in Opened' \ {h} :
            /\ k \in Opened /\ wallets'[k] = wallets[k]
            /\ IsFile(wallets[k].name) => files'[wallets[k].name] \notin {Absent, Junk}
      BY <1>1, <1>4 DEF IsFile
    <2>2. ~MayLose => \A k \in Opened' \cap {h} : wallets'[k].name \in Clean =>
            /\ wallets'[k].open /\ wallets'[k].cipher = "blowfish"
            /\ files'[wallets'[k].name] \notin {Absent, Junk}
      BY <1>1, <1>2, <1>3, <1>4 DEF StoreNow, StoreKnown, Kept, IsFile
    <2> QED BY <2>1, <2>2, NowKept
  <1> QED BY <1>7, <1>8

LEMMA StoreRemove == ASSUME StoreNow, RemoveStep PROVE StoreStep /\ Kept'
  <1>1. PICK n \in Name, h \in Handle :
          h \in FindWallet(n) /\ files' = [files EXCEPT ![n] = Absent] /\ Forget({h})
    BY DEF RemoveStep, FindWallet, Opened, StoreNow, StoreKnown, Structure, TypeOK
  <1>2. /\ h \in Opened /\ wallets[h].name = n
        /\ n \in Clean => \A k \in Opened : wallets[k].name = n => k = h
    BY <1>1, NowUnique DEF FindWallet, UniqueIn, Opened
  <1>3. Disk' = [Disk EXCEPT ![n] = NoWallet]
    BY <1>1, DiskRemoved DEF StoreNow, StoreKnown
  <1>4. Session' = Store!Drop({n})
    <2>1. CASE wallets[h].open /\ n \in Clean
      BY <1>1, <1>2, <2>1, NowForgetsOne
    <2>2. CASE ~(wallets[h].open /\ n \in Clean)
      <3>1. Session' = Session
        BY <1>1, <1>2, <2>2, NowForgetsOne
      <3>2. n \notin Store!Unlocked
        <4>1. CASE n \in Clean
          BY <1>2, <2>2, <4>1, NowUnopened
        <4>2. CASE n \notin Clean
          BY <4>2 DEF Store!Unlocked, Session, SessionIn
        <4> QED BY <4>1, <4>2
      <3>3. Session = [m \in DOMAIN Session |-> Session[m]]
        BY DEF Session, SessionIn
      <3> QED BY <3>1, <3>2, <3>3 DEF Store!Drop, Store!Unlocked
    <2> QED BY <2>1, <2>2
  <1>5. Store!Remove(n)
    BY <1>3, <1>4 DEF Store!Remove, Store!Write
  <1>6. Kept'
    <2>1. \A m \in Name \ {n} : files'[m] = files[m]
      BY <1>1 DEF StoreNow, StoreKnown, Structure, TypeOK
    <2>2. \A k \in Opened \ {h} : wallets[k].name \in Clean => wallets[k].name # n
      BY <1>2
    <2> QED BY <1>1, <2>1, <2>2, ForgetWallets, NowUnique
            DEF Kept, IsFile, StoreNow, StoreKnown
  <1> QED BY <1>5, <1>6, StoreChanges DEF Store!Change

LEMMA StoreVanish == ASSUME StoreNow, VanishStep PROVE StoreStep /\ Kept'
  <1>1. PICK n \in Name :
          /\ "external" \in Faults /\ files' = [files EXCEPT ![n] = Absent]
          /\ UNCHANGED wallets
    BY DEF VanishStep
  <1>2. MayLose
    BY <1>1, StoreAssumption
  <1>3. Disk' = [Disk EXCEPT ![n] = NoWallet]
    BY <1>1, DiskRemoved DEF StoreNow, StoreKnown
  <1>4. Session' = Session
    BY <1>1, NowUnique DEF Session
  <1>5. Store!Remove(n)
    BY <1>2, <1>3, <1>4 DEF Store!Remove, Store!Write
  <1> QED BY <1>2, <1>5, StoreChanges DEF Store!Change, Kept

LEMMA StoreJunk == ASSUME StoreNow, JunkStep PROVE StoreStep /\ Kept'
  <1>1. PICK n \in Name :
          /\ files[n] = Absent /\ files' = [files EXCEPT ![n] = Junk]
          /\ UNCHANGED wallets
    BY DEF JunkStep
  <1>2. ~IsFile(n)
    BY <1>1 DEF IsFile
  <1>3. Disk' = Disk /\ Session' = Session
    BY <1>1, <1>2, DiskRemoved, NowUnique DEF StoreNow, StoreKnown, Session
  <1>4. Kept'
    <2>1. \A m \in Name : IsFile(m) => files'[m] \notin {Absent, Junk}
      BY <1>1, <1>2 DEF IsFile, StoreNow, StoreKnown, Structure, TypeOK
    <2> QED BY <1>1, <2>1, KeptCalm DEF Opened
  <1> QED BY <1>3, <1>4, StoreStutters

\* What a rename does to backend h, which becomes e, and to the files.
Moves(o, n, h, b, e, x, y) ==
  /\ o # n /\ h \in FindWallet(o) /\ b = wallets[h] /\ files[n] = Absent
  /\ wallets' = With(h, e) /\ files' = [files EXCEPT ![o] = x, ![n] = y]
  /\ b.open /\ e.name = n /\ e.cipher = "blowfish" /\ ContentOf(e) = y /\ y \in Content
  /\ \/ x = Absent /\ y = ContentOf(b) /\ (e.open \/ MayLose)
     \/ x = ContentOf(b) /\ y = [ContentOf(b) EXCEPT !.data = 0] /\ e.open

LEMMA RenameMoves ==
  ASSUME StoreKnown, NEW o \in Name, NEW n \in Name, NEW h \in Handle, RenameWallet(o, n, h)
  PROVE  \E b, e, x, y : Moves(o, n, h, b, e, x, y)
  <1>1. o # n /\ h \in FindWallet(o) /\ h \in Opened /\ wallets[h].name = o /\ files[n] = Absent
    BY DEF RenameWallet, FindWallet
  <1>2. PICK b \in Backend : b = wallets[h] /\ b.name = o /\ b.open /\ b.cipher = "blowfish"
    BY <1>1, WalletType DEF StoreKnown, RenameWallet, Savable
  <1>3. PICK moved, saved, anew :
          /\ moved = [b EXCEPT !.name = n]
          /\ saved = [data |-> b.data, password |-> b.password]
          /\ anew = [data |-> 0, password |-> b.password]
    OBVIOUS
  <1>4. /\ moved \in Backend /\ moved.name = n /\ moved.open /\ moved.cipher = "blowfish"
        /\ saved = ContentOf(b) /\ ContentOf(moved) = saved
        /\ anew = [saved EXCEPT !.data = 0] /\ saved \in Content /\ anew \in Content
    BY <1>2, <1>3 DEF ContentOf, Backend, Content
  <1>5. \/ /\ files' = [files EXCEPT ![o] = Absent, ![n] = saved]
           /\ wallets' = With(h, moved)
        \/ /\ "open" \in Faults
           /\ files' = [files EXCEPT ![o] = Absent, ![n] = saved]
           /\ wallets' = With(h, [moved EXCEPT !.open = FALSE])
        \/ /\ files' = [files EXCEPT ![o] = saved, ![n] = anew]
           /\ wallets' = With(h, [moved EXCEPT !.data = 0])
    BY <1>2, <1>3 DEF RenameWallet
  <1>6. CASE files' = [files EXCEPT ![o] = Absent, ![n] = saved] /\ wallets' = With(h, moved)
    <2>1. Moves(o, n, h, b, moved, Absent, saved)
      BY <1>1, <1>2, <1>4, <1>6 DEF Moves
    <2> QED BY <2>1
  <1>7. CASE /\ "open" \in Faults
             /\ files' = [files EXCEPT ![o] = Absent, ![n] = saved]
             /\ wallets' = With(h, [moved EXCEPT !.open = FALSE])
    <2>1. PICK e : e = [moved EXCEPT !.open = FALSE]
      OBVIOUS
    <2>2. e.name = n /\ e.cipher = "blowfish" /\ ContentOf(e) = saved
      BY <1>4, <2>1 DEF ContentOf, Backend
    <2>3. Moves(o, n, h, b, e, Absent, saved)
      BY <1>1, <1>2, <1>4, <1>7, <2>1, <2>2, StoreAssumption DEF Moves
    <2> QED BY <2>3
  <1>8. CASE /\ files' = [files EXCEPT ![o] = saved, ![n] = anew]
             /\ wallets' = With(h, [moved EXCEPT !.data = 0])
    <2>1. PICK e : e = [moved EXCEPT !.data = 0]
      OBVIOUS
    <2>2. e.name = n /\ e.cipher = "blowfish" /\ e.open /\ ContentOf(e) = anew
      BY <1>3, <1>4, <2>1 DEF ContentOf, Backend
    <2>3. Moves(o, n, h, b, e, saved, anew)
      BY <1>1, <1>2, <1>4, <1>8, <2>1, <2>2 DEF Moves
    <2> QED BY <2>3
  <1> QED BY <1>5, <1>6, <1>7, <1>8

\* Table v is table w with backend h, open, moved from o to n; N were the
\* clean names, M are.
MovedIn(w, v, N, M, o, n, h) ==
  /\ UniqueIn(w, N) /\ UniqueIn(v, M) /\ DOMAIN v = DOMAIN w
  /\ h \in DOMAIN w /\ w[h].name = o /\ w[h].open /\ v[h].name = n /\ o # n
  /\ \A k \in DOMAIN w \ {h} : v[k] = w[k]
  /\ M = N \/ M = N \ {n}
  /\ n \in M => \A k \in DOMAIN w : w[k].name # n

\* The session s of o ends; it starts again under n if that name is clean.
MovedTo(s, t, M, o, n, b) ==
  /\ n \in M /\ b.open => t = HeldIn(DropIn(s, {o}), n, ContentOf(b))
  /\ n \in M /\ ~b.open => t = DropIn(s, {o})
  /\ n \notin M => t = DropIn(s, {o, n})

LEMMA SessionMoves ==
  ASSUME NEW w, NEW v, NEW N, NEW M, NEW o, NEW n, NEW h, MovedIn(w, v, N, M, o, n, h)
  PROVE  MovedTo(SessionIn(w, N), SessionIn(v, M), M, o, n, v[h])
  <1> USE DEF MovedIn
  <1>0. PICK u, H : u = [k \in DOMAIN w \ {h} |-> w[k]] /\ H = {h}
    OBVIOUS
  <1>1. UniqueIn(u, M) /\ UniqueIn(w, M)
    BY <1>0 DEF UniqueIn
  <1>2. OpenIn(u, M) = OpenIn(w, M) \ H /\ \A k \in OpenIn(u, M) : u[k] = w[k]
    BY <1>0 DEF OpenIn
  <1>3. SessionIn(u, M) = DropIn(SessionIn(w, M), NamesIn(w, {h}, M))
    BY <1>0, <1>1, <1>2, SessionDrop
  <1>4. /\ n \in M => SessionIn(u, M) = DropIn(SessionIn(w, N), {o})
        /\ n \notin M => SessionIn(u, M) = DropIn(SessionIn(w, N), {o, n})
    <2>1. DOMAIN SessionIn(w, N) \subseteq N
      BY DEF SessionIn
    <2>2. NamesIn(w, {h}, M) = {o} \cap M
      BY DEF NamesIn, OpenIn
    <2>3. n \in M => M = N /\ (o \in M \/ o \notin N)
      OBVIOUS
    <2>4. n \notin M => M = N \ {n} /\ (o \in M \/ o \notin N)
      OBVIOUS
    <2>5. n \notin M => SessionIn(w, M) = DropIn(SessionIn(w, N), {n})
      BY <2>4, SessionOfFewer
    <2>6. PICK s : s = SessionIn(w, N) /\ DOMAIN s \subseteq N
      BY <2>1
    <2>7. ASSUME n \in M PROVE DropIn(s, {o} \cap M) = DropIn(s, {o})
      BY <2>3, <2>6, <2>7 DEF DropIn
    <2>8. ASSUME n \notin M PROVE DropIn(DropIn(s, {n}), {o} \cap M) = DropIn(s, {o, n})
      <3>1. DOMAIN DropIn(s, {n}) \ ({o} \cap M) = DOMAIN s \ {o, n}
        BY <2>4, <2>6, <2>8 DEF DropIn
      <3> QED BY <3>1 DEF DropIn
    <2> QED BY <1>3, <2>2, <2>3, <2>5, <2>6, <2>7, <2>8
  <1>5. ASSUME n \in M, v[h].open
        PROVE  SessionIn(v, M) = HeldIn(SessionIn(u, M), n, ContentOf(v[h]))
    <2>1. h \in OpenIn(v, M) /\ OpenIn(v, M) = OpenIn(u, M) \cup {h}
      BY <1>0, <1>5 DEF OpenIn
    <2>2. h \notin OpenIn(u, M) /\ \A k \in OpenIn(u, M) : v[k] = u[k]
      BY <1>0 DEF OpenIn
    <2> QED BY <1>1, <2>1, <2>2, SessionHold
  <1>6. ASSUME n \notin M \/ ~v[h].open
        PROVE  SessionIn(v, M) = SessionIn(u, M)
    <2> DEFINE S == {}
    <2>1. OpenIn(v, M) = OpenIn(u, M) \ S /\ \A k \in OpenIn(v, M) : v[k] = u[k]
      BY <1>0, <1>6 DEF OpenIn
    <2>2. NamesIn(u, S, M) = {}
      BY DEF NamesIn
    <2> HIDE DEF S
    <2>3. SessionIn(v, M) = DropIn(SessionIn(u, M), {})
      BY <1>1, <2>1, <2>2, SessionDrop
    <2> QED BY <2>3 DEF DropIn, SessionIn
  <1> QED BY <1>4, <1>5, <1>6 DEF MovedTo

\* Of two updates of a function, one that changes nothing can go.
LEMMA OneUpdate ==
  ASSUME NEW D, NEW d, d = [m \in D |-> d[m]], NEW o \in D, NEW n \in D, NEW a, NEW c
  PROVE  /\ o # n /\ d[n] = c => [d EXCEPT ![o] = a, ![n] = c] = [d EXCEPT ![o] = a]
         /\ d[o] = a => [d EXCEPT ![o] = a, ![n] = c] = [d EXCEPT ![n] = c]
  <1>1. DOMAIN d = D
    OBVIOUS
  <1> QED BY <1>1

LEMMA DiskMoves ==
  ASSUME Structure, NEW o \in Name, NEW n \in Name, NEW x, NEW y \in Content,
         o # n, files[n] = Absent, files' = [files EXCEPT ![o] = x, ![n] = y],
         x \in {Absent} \cup Content,
         renamedOnto' = renamedOnto \/ renamedOnto' = renamedOnto \cup {n}
  PROVE  Disk' = [Disk EXCEPT ![o] = IF o \in Clean /\ x # Absent THEN x ELSE NoWallet,
                              ![n] = IF n \in Clean' THEN y ELSE NoWallet]
  <1>1. PICK f, g, N, M : f = files /\ g = files' /\ N = Clean /\ M = Clean'
    OBVIOUS
  <1>2. /\ g[o] = x /\ g[n] = y /\ \A m \in Name \ {o, n} : g[m] = f[m]
        /\ o \in M <=> o \in N
        /\ \A m \in Name \ {o, n} : m \in M <=> m \in N
    BY <1>1 DEF Structure, TypeOK, Clean
  <1>3. y \notin {Absent, Junk} /\ (x # Absent => x \notin {Absent, Junk})
    BY StoreAssumption
  <1>4. Disk = StoredIn(f, N) /\ Disk' = StoredIn(g, M)
    BY <1>1 DEF Disk
  <1>5. StoredIn(g, M) =
          [StoredIn(f, N) EXCEPT ![o] = IF o \in N /\ x # Absent THEN x ELSE NoWallet,
                                 ![n] = IF n \in M THEN y ELSE NoWallet]
    BY <1>2, <1>3 DEF StoredIn
  <1> QED BY <1>1, <1>4, <1>5

\* The wallet moves, returns from a mixed name, or is mixed up with another.
LEMMA StoreRenamed ==
  ASSUME StoreKnown, Structure', UniqueOpen', RenamedStep
  PROVE  StoreStep /\ Kept'
  <1>1. PICK o \in Name, n \in Name, h \in Handle : RenameWallet(o, n, h)
    BY DEF RenamedStep
  <1>2. PICK b, e, x, y : Moves(o, n, h, b, e, x, y)
    BY <1>1, RenameMoves
  <1>3. PICK w, v, N, M : w = wallets /\ v = wallets' /\ N = Clean /\ M = Clean'
    OBVIOUS
  <1>4. /\ o # n /\ h \in DOMAIN w /\ w[h] = b /\ b.name = o /\ b.open /\ e.name = n
        /\ DOMAIN v = DOMAIN w /\ v[h] = e /\ \A k \in DOMAIN w \ {h} : v[k] = w[k]
    BY <1>2, <1>3, WithWallets DEF Moves, FindWallet, Opened
  <1>5. /\ renamedOnto' = renamedOnto \/ renamedOnto' = renamedOnto \cup {n}
        /\ n \notin renamedOnto' => FindWallet(n) = {}
        /\ n \in renamedOnto' => FindWallet(n) # {} \/ n \in renamedOnto \/ n \in Asked
    BY <1>1 DEF RenameWallet, Asked
  <1>6. /\ M = N \/ M = N \ {n}
        /\ n \in M => \A k \in DOMAIN w : w[k].name # n
        /\ N = Name \ renamedOnto /\ M = Name \ renamedOnto'
    BY <1>3, <1>5 DEF Clean, FindWallet, Opened
  <1>7. UniqueIn(w, N) /\ UniqueIn(v, M)
    BY <1>3 DEF StoreKnown, TableInvariant, UniqueOpen, UniqueIn, Opened, Clean
  <1>8. PICK s, t : s = Session /\ t = Session' /\ s = SessionIn(w, N) /\ t = SessionIn(v, M)
    BY <1>3 DEF Session
  <1>9. /\ n \in M /\ e.open => t = HeldIn(DropIn(s, {o}), n, y)
        /\ n \in M /\ ~e.open => t = DropIn(s, {o})
        /\ n \notin M => t = DropIn(s, {o, n})
    <2>1. ContentOf(e) = y
      BY <1>2 DEF Moves
    <2>2. MovedIn(w, v, N, M, o, n, h)
      BY <1>4, <1>6, <1>7 DEF MovedIn
    <2>3. MovedTo(SessionIn(w, N), SessionIn(v, M), M, o, n, v[h])
      BY <2>2, SessionMoves
    <2> QED BY <1>4, <1>8, <2>1, <2>3 DEF MovedTo
  <1>10. /\ DOMAIN s \subseteq N
         /\ o \in N => o \in DOMAIN s /\ s[o] = ContentOf(b)
         /\ n \in M => n \notin DOMAIN s
    <2>1. DOMAIN s \subseteq N
      BY <1>8 DEF SessionIn
    <2>2. ASSUME o \in N PROVE o \in DOMAIN s /\ s[o] = ContentOf(b)
      <3>1. h \in OpenIn(w, N)
        BY <1>4, <2>2 DEF OpenIn
      <3> QED BY <1>4, <1>7, <1>8, <3>1, SessionValue
    <2>3. ASSUME n \in M PROVE n \notin DOMAIN s
      BY <1>6, <1>8, <2>3, SessionDomain DEF OpenIn
    <2> QED BY <2>1, <2>2, <2>3
  <1>11. PICK d, f : /\ d = Disk /\ f = Disk' /\ d = [m \in Name |-> d[m]]
                     /\ d[n] = NoWallet /\ (o \notin N => d[o] = NoWallet)
    <2>1. Disk[n] = NoWallet /\ (o \notin N => Disk[o] = NoWallet)
      BY <1>2, <1>3 DEF Disk, StoredIn, Moves
    <2>2. Disk = [m \in Name |-> Disk[m]]
      BY DEF Disk, StoredIn
    <2> QED BY <2>1, <2>2
  <1>12. f = [d EXCEPT ![o] = IF o \in N /\ x # Absent THEN x ELSE NoWallet,
                       ![n] = IF n \in M THEN y ELSE NoWallet]
    <2>1. ContentOf(b) \in Content
      BY <1>3, <1>4, WalletType DEF ContentOf, Content, Backend, StoreKnown, Opened
    <2>2. /\ y \in Content /\ x \in {Absent} \cup Content /\ files[n] = Absent
          /\ files' = [files EXCEPT ![o] = x, ![n] = y]
      BY <1>2, <2>1 DEF Moves
    <2>3. Structure /\ o # n
      BY <1>4 DEF StoreKnown
    <2>4. Disk' = [Disk EXCEPT ![o] = IF o \in Clean /\ x # Absent THEN x ELSE NoWallet,
                               ![n] = IF n \in Clean' THEN y ELSE NoWallet]
      BY <1>5, <2>2, <2>3, DiskMoves
    <2> QED BY <1>3, <1>11, <2>4
  <1>13. /\ y \in Content /\ y # Absent /\ y # NoWallet
         /\ \/ x = Absent /\ y = ContentOf(b) /\ (e.open \/ MayLose)
            \/ x = ContentOf(b) /\ x # Absent /\ y = [ContentOf(b) EXCEPT !.data = 0] /\ e.open
    <2>1. ContentOf(b) \in Content
      BY <1>3, <1>4, WalletType DEF ContentOf, Content, Backend, StoreKnown, Opened
    <2> QED BY <1>2, <2>1, StoreAssumption DEF Moves
  <1>14. ASSUME n \in M PROVE StoreStep
    <2>1. Session' = (IF e.open THEN HeldIn(DropIn(s, {o}), n, y) ELSE DropIn(s, {o}))
      BY <1>8, <1>9, <1>14
    <2>2. UNCHANGED renamedOnto /\ n \notin renamedOnto /\ n \notin DOMAIN s
      BY <1>5, <1>6, <1>10, <1>14
    <2>3. n \notin Store!Unlocked \cup renamedOnto /\ Disk[n] = NoWallet
      BY <1>8, <1>11, <2>2 DEF Store!Unlocked
    <2>4. ASSUME o \in N PROVE Store!Rename(o, n)
      <3>1. o \in Store!Unlocked /\ Session[o] = ContentOf(b)
        BY <1>8, <1>10, <2>4 DEF Store!Unlocked
      <3>2. DropIn(s, {o}) = Store!Drop({o})
        BY <1>8 DEF DropIn, Store!Drop, Store!Unlocked
      <3>3. HeldIn(DropIn(s, {o}), n, y) = Store!Moved(o, n, y)
        BY <1>8 DEF HeldIn, DropIn, Store!Moved, Store!Unlocked
      <3>4. Disk' = [Disk EXCEPT ![o] = IF x # Absent THEN x ELSE NoWallet, ![n] = y]
        BY <1>11, <1>12, <1>14, <2>4
      <3>5. CASE x = Absent /\ y = ContentOf(b) /\ (e.open \/ MayLose)
        BY <2>1, <2>3, <3>1, <3>2, <3>3, <3>4, <3>5 DEF Store!Rename
      <3>6. CASE x = ContentOf(b) /\ x # Absent /\ y = [ContentOf(b) EXCEPT !.data = 0] /\ e.open
        BY <2>1, <2>3, <3>1, <3>2, <3>3, <3>4, <3>6 DEF Store!Rename
      <3> QED BY <1>13, <3>5, <3>6
    <2>5. ASSUME o \notin N PROVE Store!Return(o, n)
      <3>1. o \in renamedOnto /\ o \notin DOMAIN s
        BY <1>6, <1>10, <2>5
      <3>2. DropIn(s, {o}) = s
        <4>1. s = [m \in DOMAIN s |-> s[m]]
          BY <1>8 DEF SessionIn
        <4> QED BY <3>1, <4>1 DEF DropIn
      <3>3. HeldIn(s, n, y) = Store!Hold(n, y)
        BY <1>8 DEF HeldIn, Store!Hold, Store!Unlocked
      <3>4. Disk' = Store!Write(n, y) /\ Disk'[n] = y
        <4>1. f = [d EXCEPT ![o] = NoWallet, ![n] = y] /\ d[o] = NoWallet
          BY <1>11, <1>12, <1>14, <2>5
        <4>2. f = [d EXCEPT ![n] = y]
          BY <1>11, <4>1, OneUpdate
        <4>3. f[n] = y
          BY <1>11, <4>2
        <4> QED BY <1>11, <4>2, <4>3 DEF Store!Write
      <3>5. y \in Store!Content
        BY <1>13 DEF Content, Store!Content
      <3>6. Session' = Store!Hold(n, y) \/ (MayLose /\ Session' = Session)
        BY <1>8, <1>13, <2>1, <3>2, <3>3
      <3> QED BY <2>3, <3>1, <3>4, <3>5, <3>6 DEF Store!Return
    <2>6. Store!Change
      BY <2>4, <2>5 DEF Store!Change
    <2> QED BY <2>2, <2>6 DEF StoreStep, Store!StoreNext
  <1>15. ASSUME n \notin M PROVE StoreStep
    <2>1. Session' = Store!Drop({o, n})
      BY <1>8, <1>9, <1>15 DEF DropIn, Store!Drop, Store!Unlocked
    <2>2. renamedOnto' = renamedOnto \cup {n} /\ n \in renamedOnto'
      BY <1>5, <1>6, <1>15
    <2>3. o \in N => o \in Store!Unlocked /\ Session[o] = ContentOf(b)
      BY <1>8, <1>10 DEF Store!Unlocked
    <2>4. o \in Store!Unlocked \cup renamedOnto
      BY <1>6, <2>3
    <2>5. n \in renamedOnto \cup Asked \/ MayLose
      <3> SUFFICES ASSUME n \notin renamedOnto \cup Asked, ~MayLose PROVE FALSE
        BY StoreAssumption
      <3>1. PICK k \in Opened : wallets[k].name = n
        BY <1>5, <2>2 DEF FindWallet
      <3>2. IsFile(n)
        BY <3>1 DEF StoreKnown, Kept, Clean
      <3> QED BY <1>2, <3>2 DEF Moves, IsFile
    <2>6. Disk' = Store!Write(o, NoWallet) \/ (o \in Store!Unlocked /\ Disk' = Store!Write(o, Session[o]))
      <3>1. f = [d EXCEPT ![o] = IF o \in N /\ x # Absent THEN x ELSE NoWallet]
        <4>1. PICK a : a = IF o \in N /\ x # Absent THEN x ELSE NoWallet
          OBVIOUS
        <4>2. f = [d EXCEPT ![o] = a, ![n] = NoWallet] /\ d[n] = NoWallet /\ o # n
          BY <1>4, <1>11, <1>12, <1>15, <4>1
        <4> QED BY <1>11, <4>1, <4>2, OneUpdate
      <3> QED BY <1>11, <1>13, <2>3, <3>1 DEF Store!Write
    <2>7. Store!Mix(o, n)
      BY <1>4, <2>1, <2>2, <2>4, <2>5, <2>6 DEF Store!Mix
    <2> QED BY <2>7 DEF StoreStep, Store!StoreNext
  <1>16. Kept'
    <2> SUFFICES ASSUME ~MayLose, NEW k \in Opened', wallets'[k].name \in M
                 PROVE  /\ wallets'[k].open /\ wallets'[k].cipher = "blowfish"
                        /\ files'[wallets'[k].name] \notin {Absent, Junk}
      BY <1>3 DEF Kept, IsFile
    <2>1. files' = [files EXCEPT ![o] = x, ![n] = y] /\ files[n] = Absent /\ e.cipher = "blowfish"
      BY <1>2 DEF Moves
    <2>2. /\ files'[n] = y /\ y \notin {Absent, Junk}
          /\ \A m \in Name \ {o, n} : files'[m] = files[m]
      BY <1>4, <1>13, <2>1, StoreAssumption DEF StoreKnown, Structure, TypeOK
    <2>3. CASE k = h
      BY <1>3, <1>4, <1>13, <2>1, <2>2, <2>3
    <2>4. CASE k # h
      <3>1. k \in DOMAIN w /\ v[k] = w[k] /\ k \in Opened /\ v[k].name \in N
        BY <1>3, <1>4, <1>6, <2>4 DEF Opened
      <3>2. /\ wallets[k].open /\ wallets[k].cipher = "blowfish" /\ IsFile(wallets[k].name)
            /\ wallets[k].name \in Name
        BY <1>3, <3>1, WalletType DEF StoreKnown, Kept
      <3>3. wallets[k].name # n /\ wallets[k].name # o
        BY <1>3, <1>4, <1>7, <2>1, <2>4, <3>1, <3>2 DEF UniqueIn, IsFile
      <3> QED BY <1>3, <2>2, <3>1, <3>2, <3>3 DEF IsFile
    <2> QED BY <2>3, <2>4
  <1> QED BY <1>14, <1>15, <1>16

\* All the contents of memory and disk that the refinement rests on.
RefinementInvariant == StoreInvariant /\ Kept

LEMMA RefinementInit == Init => RefinementInvariant /\ Store!StoreInit
  <1> SUFFICES ASSUME Init PROVE RefinementInvariant /\ Store!StoreInit
    OBVIOUS
  <1>1. StoreInvariant
    BY StructureInit, TableInit, ContentsInit DEF StoreInvariant
  <1>2. Opened = {} /\ renamedOnto = {}
    BY NoWalletsType DEF Init, Opened
  <1>3. Disk \in [Name -> {NoWallet} \cup Content]
    BY <1>1 DEF Disk, StoredIn, StoreInvariant, Structure, TypeOK
  <1>4. Session = [n \in {} |-> NoWallet]
    <2>1. \A n \in Name : OpenOf(wallets, n) = {}
      BY <1>2 DEF OpenOf, Opened
    <2> QED BY <2>1 DEF Session, SessionIn, Clean
  <1>5. Store!StoreInit
    BY <1>2, <1>3, <1>4 DEF Store!StoreInit, Store!Content, Content
  <1> QED BY <1>1, <1>2, <1>5 DEF RefinementInvariant, Kept

LEMMA RefinementStep ==
  ASSUME RefinementInvariant, [Next]_vars
  PROVE  RefinementInvariant' /\ StoreStep
  <1>1. StoreInvariant'
    BY StructureStep, TableNext, UnreadStep, ContentsNext DEF RefinementInvariant, StoreInvariant
  <1>2. DataStep
    BY DataSteps DEF RefinementInvariant, StoreInvariant
  <1>3. StoreKnown /\ Structure' /\ UniqueOpen'
    BY <1>1 DEF StoreKnown, RefinementInvariant, StoreInvariant, TableInvariant
  <1>4. CASE RenamedStep
    BY <1>1, <1>3, <1>4, StoreRenamed DEF RefinementInvariant
  <1>5. CASE ~RenamedStep
    <2>1. StoreNow
      BY <1>2, <1>3, <1>5 DEF StoreNow, DataStep
    <2>2. StoreStep /\ Kept'
      BY <1>2, <1>5, <2>1, StoreSame, StoreSave, StoreClose, StoreDrop, StoreCrash, StoreOpen,
         StoreUnopened, StoreRekey, StorePut, StoreRemove, StoreVanish, StoreJunk
      DEF DataStep
    <2> QED BY <1>1, <2>2 DEF RefinementInvariant
  <1> QED BY <1>4, <1>5

\* The daemon is a store of wallets: whatever dialogs, timers, changes of
\* password, renames and crashes do, a session starts on what was stored, holds
\* what was put into it, moves whole, and ends saved unless a fault may lose it.
THEOREM DaemonIsAStore == Spec => Implements
  <1>1. Init => RefinementInvariant /\ Store!StoreInit
    BY RefinementInit
  <1>2. RefinementInvariant /\ [Next]_vars =>
          RefinementInvariant' /\ [Store!StoreNext]_(Store!store)
    BY RefinementStep DEF StoreStep
  <1> QED BY <1>1, <1>2, PTL DEF Spec, Implements, Store!StoreSpec
=============================================================================
