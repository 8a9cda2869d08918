--------------------------- MODULE KSecretDProofs ---------------------------
(***************************************************************************)
(* Safety of KSecretD for every value of its constants.                    *)
(***************************************************************************)
EXTENDS KSecretD, TLAPS, FiniteSetTheorems

LEMMA NoWalletsType == DOMAIN NoWallets = {} /\ NoWallets \in [{} -> Backend]
  BY DEF NoWallets

LEMMA NoneIsNoTransaction == None \notin Transaction
  BY ConstantsAssumption DEF Transaction

LEMMA StructureInit == Init => Structure
  <1> SUFFICES ASSUME Init PROVE Structure
    OBVIOUS
  <1>1. files \in [Name -> {Absent, Junk} \cup Content]
    BY DEF Init, Content
  <1>2. Opened = {} /\ wallets \in [Opened -> Backend]
    BY NoWalletsType DEF Init, Opened
  <1>3. transactions \in Seq(Transaction)
    BY DEF Init
  <1> QED
    BY <1>1, <1>2, <1>3
    DEF Init, Structure, TypeOK, QueueConsistent, TargetConsistent, Lives, Stages, Answers, Outcomes

\* The end of a transaction keeps the promises and the suspended change typed.
LEMMA FinishType ==
  ASSUME Structure, NEW replies, Finish(replies), \A r \in DOMAIN replies : replies[r] \in Answers
  PROVE  /\ answers' \in [Request -> Answers]
         /\ stage' = "running" /\ current' = None /\ target' = None /\ reclose' = FALSE
  BY DEF Finish, Structure, TypeOK

LEMMA FailType ==
  ASSUME Structure, Fail, stage \notin {"idle", "running", "newPassword", "notChanged", "mayBeLost"}
  PROVE  /\ answers' \in [Request -> Answers]
         /\ target' = None /\ reclose' \in BOOLEAN
         /\ \/ stage' = "running" /\ current' = None
            \/ stage' = "unable" /\ current' = current
  <1>1. CASE current.type = "open"
    BY <1>1, FinishType DEF Fail, Answers
  <1>2. CASE current.type # "open"
    BY <1>2 DEF Fail, change, Structure, TypeOK, TargetConsistent
  <1> QED BY <1>1, <1>2

LEMMA SucceedType ==
  ASSUME Structure, NEW h \in Handle, NEW isNew \in BOOLEAN, Succeed(h, isNew)
  PROVE  /\ answers' \in [Request -> Answers] /\ reclose' \in BOOLEAN
         /\ \/ stage' = "running" /\ current' = None /\ target' = None
            \/ stage' = "newPassword" /\ current' = current /\ target' = h
  <1>1. CASE current.type = "open"
    BY <1>1, FinishType DEF Succeed, Answers
  <1>2. CASE current.type # "open"
    BY <1>2 DEF Succeed, Structure, TypeOK
  <1> QED BY <1>1, <1>2

LEMMA InsertType ==
  ASSUME Structure, NEW h \in Handle, NEW b \in Backend, NEW idle \in BOOLEAN, Insert(h, b, idle)
  PROVE  /\ Opened' = Opened \cup {h} /\ Opened' \subseteq Handle
         /\ wallets' \in [Opened' -> Backend]
         /\ closeTimers' \subseteq Handle /\ syncTimers' \subseteq Handle
  BY DEF Insert, With, Structure, TypeOK, Opened

LEMMA ForgetType ==
  ASSUME Structure, NEW S, Forget(S)
  PROVE  /\ Opened' = Opened \ S /\ Opened' \subseteq Handle
         /\ wallets' \in [Opened' -> Backend]
         /\ closeTimers' \subseteq closeTimers /\ syncTimers' \subseteq syncTimers
  BY DEF Forget, Structure, TypeOK, Opened

LEMMA WithType ==
  ASSUME Structure, NEW h \in Opened, NEW b \in Backend, wallets' = With(h, b)
  PROVE  Opened' = Opened /\ wallets' \in [Opened' -> Backend]
  BY DEF With, Structure, TypeOK, Opened

LEMMA SyncType ==
  ASSUME Structure, NEW b \in Backend, Sync(b)
  PROVE  files' \in [Name -> {Absent, Junk} \cup Content]
  <1>1. [data |-> b.data, password |-> b.password] \in Content
    BY DEF Backend, Content
  <1> QED BY <1>1 DEF Sync, Saved, NotSaved, Structure, TypeOK

LEMMA OpensType ==
  ASSUME Structure, NEW n \in Name, NEW p \in Password, NEW c \in {"blowfish", "unknown"},
         Opens(n, p, c)
  PROVE  /\ files' \in [Name -> {Absent, Junk} \cup Content]
         /\ OpenBackend(n, p, c) \in Backend
  <1>1. files' \in [Name -> {Absent, Junk} \cup Content]
    BY DEF Opens, Structure, TypeOK, Content
  <1>2. IsFile(n) => files[n].data \in Nat
    BY DEF IsFile, Structure, TypeOK, Content
  <1>3. OpenBackend(n, p, c) \in Backend
    BY <1>2 DEF OpenBackend, Backend
  <1> QED BY <1>1, <1>3

LEMMA DieType ==
  ASSUME Structure, NEW how \in Lives \ {"up", "quitting"}, Die(how),
         files' \in [Name -> {Absent, Junk} \cup Content]
  PROVE  Structure'
  <1>1. Opened' = {} /\ wallets' \in [Opened' -> Backend]
    BY NoWalletsType DEF Die, Opened
  <1>2. answers' \in [Request -> Answers]
    BY DEF Die, Unwind, CallersLose, Structure, TypeOK, Answers, Outcomes
  <1>3. transactions' \in Seq(Transaction)
    BY DEF Die, Unwind
  <1> QED
    BY <1>1, <1>2, <1>3
    DEF Die, Unwind, Structure, TypeOK, QueueConsistent, TargetConsistent, world, Stages

LEMMA StopType ==
  ASSUME Structure, NEW how \in Lives \ {"up", "quitting"}, Stop(how)
  PROVE  Structure'
  BY DieType DEF Stop, Structure, TypeOK

LEMMA StructureProcessing == Structure /\ Processing => Structure'
  <1> USE DEF Structure, TypeOK, QueueConsistent, TargetConsistent, Stages, DialogStages, OpenDialogs,
              table, queue, change, world, Opened
  <1>1. ASSUME Structure, StartProcessing PROVE Structure'
    BY <1>1 DEF StartProcessing
  <1>2. ASSUME Structure, Pop PROVE Structure'
    <2>1. Head(transactions) \in Transaction /\ Tail(transactions) \in Seq(Transaction)
      BY <1>2 DEF Pop
    <2> QED BY <1>2, <2>1, NoneIsNoTransaction DEF Pop
  <1>3. ASSUME Structure, EndProcessing PROVE Structure'
    BY <1>3 DEF EndProcessing
  <1>4. ASSUME Structure, OpenTooMany PROVE Structure'
    BY <1>4, FailType DEF OpenTooMany, Beginning
  <1>5. ASSUME Structure, ShowOpenDialog PROVE Structure'
    BY <1>5 DEF ShowOpenDialog, Beginning
  <1>6. ASSUME Structure, NEW h \in Handle, OpenFound(h) PROVE Structure'
    <2>1. /\ answers' \in [Request -> Answers] /\ reclose' \in BOOLEAN
          /\ \/ stage' = "running" /\ current' = None /\ target' = None
             \/ stage' = "newPassword" /\ current' = current /\ target' = h
      BY <1>6, SucceedType DEF OpenFound
    <2> QED BY <1>6, <2>1 DEF OpenFound, Beginning, FindWallet
  <1>7. ASSUME Structure, NEW h \in Handle, OpenWithoutDialog(h) PROVE Structure'
    <2>1. current.wallet \in Name
      BY <1>7 DEF OpenWithoutDialog, Beginning, Transaction
    <2>2. EmptyPassword \in Password
      BY ConstantsAssumption
    <2>3. /\ files' \in [Name -> {Absent, Junk} \cup Content]
          /\ OpenBackend(current.wallet, EmptyPassword, "unknown") \in Backend
      BY <1>7, <2>1, <2>2, OpensType DEF OpenWithoutDialog
    <2>4. /\ Opened' = Opened \cup {h} /\ Opened' \subseteq Handle
          /\ wallets' \in [Opened' -> Backend]
          /\ closeTimers' \subseteq Handle /\ syncTimers' \subseteq Handle
      BY <1>7, <2>3, InsertType DEF OpenWithoutDialog
    <2>5. /\ answers' \in [Request -> Answers] /\ reclose' \in BOOLEAN
          /\ \/ stage' = "running" /\ current' = None /\ target' = None
             \/ stage' = "newPassword" /\ current' = current /\ target' = h
      BY <1>7, SucceedType DEF OpenWithoutDialog
    <2> QED BY <1>7, <2>3, <2>4, <2>5 DEF OpenWithoutDialog, Beginning
  <1> QED BY <1>1, <1>2, <1>3, <1>4, <1>5, <1>6, <1>7 DEF Processing

LEMMA InternalCloseType ==
  ASSUME Structure, NEW h \in Opened, InternalClose(h)
  PROVE  /\ files' \in [Name -> {Absent, Junk} \cup Content]
         /\ Opened' = Opened \ {h} /\ Opened' \subseteq Handle
         /\ wallets' \in [Opened' -> Backend]
         /\ closeTimers' \subseteq closeTimers /\ syncTimers' \subseteq syncTimers
  <1>1. wallets[h] \in Backend
    BY DEF Structure, TypeOK
  <1>2. Sync(wallets[h]) /\ Forget({h})
    BY DEF InternalClose
  <1> QED BY <1>1, <1>2, SyncType, ForgetType

LEMMA DoneType ==
  ASSUME Structure, Done
  PROVE  /\ answers' \in [Request -> Answers]
         /\ stage' = "running" /\ current' = None /\ target' = None /\ reclose' = FALSE
  BY FinishType DEF Done, Answers, Outcomes

LEMMA StructureCloseAndFinish ==
  ASSUME Structure, life = "up", stage \in {"newPassword", "notChanged", "mayBeLost"}, CloseAndFinish
  PROVE  Structure'
  <1>1. CASE target = "freed" /\ Stop("dangling")
    BY <1>1, StopType DEF Lives
  <1>2. CASE target # "freed" /\ InternalClose(target) /\ Done
             /\ UNCHANGED <<life, closeIdle, transactions, world>>
    <2>1. target \in Opened
      BY <1>2 DEF Structure, TargetConsistent
    <2>2. /\ files' \in [Name -> {Absent, Junk} \cup Content]
          /\ Opened' = Opened \ {target} /\ Opened' \subseteq Handle
          /\ wallets' \in [Opened' -> Backend]
          /\ closeTimers' \subseteq closeTimers /\ syncTimers' \subseteq syncTimers
      BY <1>2, <2>1, InternalCloseType
    <2>3. /\ answers' \in [Request -> Answers]
          /\ stage' = "running" /\ current' = None /\ target' = None /\ reclose' = FALSE
      BY <1>2, DoneType
    <2> QED
      BY <1>2, <2>2, <2>3
      DEF Structure, TypeOK, QueueConsistent, TargetConsistent, Stages, world
  <1> QED BY <1>1, <1>2 DEF CloseAndFinish

LEMMA StructureNewPasswordAccepted ==
  ASSUME Structure, NEW p \in Password, NewPasswordAccepted(p)
  PROVE  Structure'
  <1>1. CASE target = "freed"
    BY <1>1, StopType DEF NewPasswordAccepted, Lives
  <1>2. CASE target # "freed"
    <2> DEFINE b == [wallets[target] EXCEPT !.password = p]
               c == [b EXCEPT !.open = FALSE]
    <2>1. target \in Opened
      BY <1>2 DEF NewPasswordAccepted, Structure, TargetConsistent
    <2>2. b \in Backend /\ c \in Backend
      BY <2>1 DEF Structure, TypeOK, Backend
    <2>3. Sync(b) /\ files' \in [Name -> {Absent, Junk} \cup Content]
      <3>1. Saved(b) \/ NotSaved(b)
        BY <1>2 DEF NewPasswordAccepted
      <3> QED BY <2>2, <3>1, SyncType DEF Sync
    <2> HIDE DEF b, c
    <2>4. CASE reclose /\ Forget({target}) /\ Done
      <3>1. /\ Opened' = Opened \ {target} /\ Opened' \subseteq Handle
            /\ wallets' \in [Opened' -> Backend]
            /\ closeTimers' \subseteq closeTimers /\ syncTimers' \subseteq syncTimers
        BY <2>4, ForgetType
      <3> QED
        BY <1>2, <2>3, <2>4, <3>1, DoneType
        DEF NewPasswordAccepted, Structure, TypeOK, QueueConsistent, TargetConsistent, Stages, world
    <2>5. CASE wallets' = With(target, b) /\ UNCHANGED <<closeTimers, syncTimers>> /\ Done
      <3>1. Opened' = Opened /\ wallets' \in [Opened' -> Backend]
        BY <2>1, <2>2, <2>5, WithType
      <3> QED
        BY <1>2, <2>3, <2>5, <3>1, DoneType
        DEF NewPasswordAccepted, Structure, TypeOK, QueueConsistent, TargetConsistent, Stages, world
    <2>6. CASE /\ wallets' \in {With(target, b), With(target, c)}
               /\ stage' \in {"notChanged", "mayBeLost"} /\ reclose' = TRUE
               /\ UNCHANGED <<closeTimers, syncTimers, current, target, answers>>
      <3>1. Opened' = Opened /\ wallets' \in [Opened' -> Backend]
        BY <2>1, <2>2, <2>6, WithType
      <3> QED
        BY <1>2, <2>1, <2>3, <2>6, <3>1
        DEF NewPasswordAccepted, Structure, TypeOK, QueueConsistent, TargetConsistent,
            Stages, DialogStages, world
    <2> QED BY <1>2, <2>4, <2>5, <2>6 DEF NewPasswordAccepted, b, c
  <1> QED BY <1>1, <1>2

LEMMA StructureDialogEnds == Structure /\ DialogEnds => Structure'
  <1> USE DEF OpenDialogs, DialogStages, Stages
  <1>1. ASSUME Structure, NEW p \in Password, NEW h \in Handle, OpenDialogAccepted(p, h)
        PROVE  Structure'
    <2>1. current.wallet \in Name /\ DialogCipher \in {"blowfish", "unknown"}
      BY <1>1
      DEF OpenDialogAccepted, DialogCipher, Structure, TypeOK, QueueConsistent, Transaction
    <2>2. /\ files' \in [Name -> {Absent, Junk} \cup Content]
          /\ OpenBackend(current.wallet, p, DialogCipher) \in Backend
      BY <1>1, <2>1, OpensType DEF OpenDialogAccepted
    <2>3. closeIdle \in BOOLEAN
      BY <1>1 DEF Structure, TypeOK
    <2>4. /\ Opened' = Opened \cup {h} /\ Opened' \subseteq Handle
          /\ wallets' \in [Opened' -> Backend]
          /\ closeTimers' \subseteq Handle /\ syncTimers' \subseteq Handle
      BY <1>1, <2>2, <2>3, InsertType DEF OpenDialogAccepted
    <2>5. /\ answers' \in [Request -> Answers] /\ reclose' \in BOOLEAN
          /\ \/ stage' = "running" /\ current' = None /\ target' = None
             \/ stage' = "newPassword" /\ current' = current /\ target' = h
      BY <1>1, SucceedType DEF OpenDialogAccepted
    <2> QED
      BY <1>1, <2>2, <2>4, <2>5
      DEF OpenDialogAccepted, Structure, TypeOK, QueueConsistent, TargetConsistent, world
  <1>2. ASSUME Structure, OpenDialogRetried PROVE Structure'
    BY <1>2
    DEF OpenDialogRetried, Structure, TypeOK, QueueConsistent, TargetConsistent, Opened,
        table, change, world
  <1>3. ASSUME Structure, NEW h \in Handle, OpenDialogCancelled(h) PROVE Structure'
    <2>1. CASE stage = "unreadable"
      <3> DEFINE b == [name |-> current.wallet, open |-> FALSE, cipher |-> "unknown",
                       data |-> 0, password |-> EmptyPassword]
      <3>1. b \in Backend /\ closeIdle \in BOOLEAN
        BY <1>3, <2>1, ConstantsAssumption
        DEF OpenDialogCancelled, Structure, TypeOK, QueueConsistent, Transaction, Backend
      <3>2. Insert(h, b, closeIdle) /\ Succeed(h, TRUE)
        BY <1>3, <2>1 DEF OpenDialogCancelled
      <3> HIDE DEF b
      <3>3. /\ Opened' = Opened \cup {h} /\ Opened' \subseteq Handle
            /\ wallets' \in [Opened' -> Backend]
            /\ closeTimers' \subseteq Handle /\ syncTimers' \subseteq Handle
        BY <1>3, <3>1, <3>2, InsertType
      <3>4. /\ answers' \in [Request -> Answers] /\ reclose' \in BOOLEAN
            /\ \/ stage' = "running" /\ current' = None /\ target' = None
               \/ stage' = "newPassword" /\ current' = current /\ target' = h
        BY <1>3, <3>2, SucceedType
      <3> QED
        BY <1>3, <2>1, <3>3, <3>4
        DEF OpenDialogCancelled, Structure, TypeOK, QueueConsistent, TargetConsistent, world
    <2>2. CASE stage # "unreadable"
      <3>1. /\ answers' \in [Request -> Answers]
            /\ target' = None /\ reclose' \in BOOLEAN
            /\ \/ stage' = "running" /\ current' = None
               \/ stage' = "unable" /\ current' = current
        BY <1>3, <2>2, FailType DEF OpenDialogCancelled
      <3> QED
        BY <1>3, <2>2, <3>1
        DEF OpenDialogCancelled, Structure, TypeOK, QueueConsistent, TargetConsistent, Opened,
            table, world
    <2> QED BY <2>1, <2>2
  <1>4. ASSUME Structure, NewPasswordCancelled PROVE Structure'
    <2>1. CASE ~reclose /\ Done
               /\ UNCHANGED <<life, closeIdle, files, table, transactions, world>>
      BY <1>4, <2>1, DoneType
      DEF NewPasswordCancelled, Structure, TypeOK, QueueConsistent, TargetConsistent, Opened,
          table, world
    <2> QED BY <1>4, <2>1, StructureCloseAndFinish DEF NewPasswordCancelled
  <1>5. ASSUME Structure, BoxClosed PROVE Structure'
    <2>1. CASE stage = "unable" /\ Done
               /\ UNCHANGED <<life, closeIdle, files, table, transactions, world>>
      BY <1>5, <2>1, DoneType
      DEF BoxClosed, Structure, TypeOK, QueueConsistent, TargetConsistent, Opened, table, world
    <2> QED BY <1>5, <2>1, StructureCloseAndFinish DEF BoxClosed
  <1> QED
    BY <1>1, <1>2, <1>3, <1>4, <1>5, StructureNewPasswordAccepted DEF DialogEnds

LEMMA StructureRequests == Structure /\ Requests => Structure'
  <1> SUFFICES ASSUME Structure, NEW n \in Name, NEW w \in WId, NEW r \in Request,
                      Open(n, w, r) \/ ChangePassword(n, w, r)
               PROVE  Structure'
    BY DEF Requests
  <1>1. /\ [type |-> "open", wallet |-> n, wId |-> w, req |-> r] \in Transaction
        /\ [type |-> "changePassword", wallet |-> n, wId |-> w, req |-> r] \in Transaction
    BY DEF Transaction
  <1>2. transactions' \in Seq(Transaction)
    <2>1. transactions \in Seq(Transaction)
      BY DEF Structure, TypeOK
    <2>2. ASSUME NEW t \in Transaction PROVE Append(transactions, t) \in Seq(Transaction)
      BY <2>1
    <2> QED BY <1>1, <2>1, <2>2 DEF Open, ChangePassword
  <1>3. answers' \in [Request -> Answers]
    BY DEF Open, ChangePassword, Structure, TypeOK, Answers, Outcomes
  <1>4. UNCHANGED <<life, closeIdle, files, table, stage, current, change, world>>
    BY DEF Open, ChangePassword
  <1>5. life = "up"
    BY DEF Open, ChangePassword, EventLoop
  <1> QED
    BY <1>2, <1>3, <1>4, <1>5
    DEF Structure, TypeOK, QueueConsistent, TargetConsistent, Opened, table, change, world, Lives, Stages

\* A handler that closes wallets S while a transaction may be suspended.
LEMMA StructureForget ==
  ASSUME Structure, NEW S \in SUBSET Opened, Forget(S), Freed(S), life = "up",
         files' \in [Name -> {Absent, Junk} \cup Content],
         UNCHANGED <<life, closeIdle, queue, reclose, answers, world>>
  PROVE  Structure'
  <1>1. /\ Opened' = Opened \ S /\ Opened' \subseteq Handle
        /\ wallets' \in [Opened' -> Backend]
        /\ closeTimers' \subseteq closeTimers /\ syncTimers' \subseteq syncTimers
    BY ForgetType
  <1>2. TargetConsistent' /\ target' \in Handle \cup {None, "freed"}
    BY <1>1, ConstantsAssumption DEF Freed, Structure, TypeOK, TargetConsistent, queue
  <1> QED
    BY <1>1, <1>2 DEF Structure, TypeOK, QueueConsistent, queue, world

LEMMA StructureCalls == Structure /\ Calls => Structure'
  <1>1. ASSUME Structure, NEW h \in Handle, Close(h) PROVE Structure'
    <2>1. files' \in [Name -> {Absent, Junk} \cup Content]
      BY <1>1, InternalCloseType DEF Close
    <2> QED BY <1>1, <2>1, StructureForget DEF Close, InternalClose, EventLoop
  <1>2. ASSUME Structure, NEW h \in Handle, WriteEntry(h) PROVE Structure'
    <2> DEFINE b == [wallets[h] EXCEPT !.data = IF wallets[h].open THEN writes + 1 ELSE @]
    <2>0. b \in Backend /\ h \in Opened /\ wallets' = [wallets EXCEPT ![h] = b]
      BY SMTT(20), <1>2 DEF WriteEntry, Structure, TypeOK, Backend
    <2>1. Opened' = Opened /\ wallets' \in [Opened' -> Backend]
      BY <1>2, <2>0 DEF Structure, TypeOK, Opened
    <2>2. life = "up"
      BY <1>2 DEF WriteEntry, EventLoop
    <2> QED
      BY <1>2, <2>1, <2>2
      DEF WriteEntry, Structure, TypeOK, QueueConsistent, TargetConsistent, queue, change
  <1>3. ASSUME Structure, NEW n \in Name, DeleteWallet(n) PROVE Structure'
    <2>1. CASE Stop("nullptr")
      BY <1>3, <2>1, StopType DEF Lives
    <2>2. ASSUME NEW h \in FindWallet(n), files' = [files EXCEPT ![n] = Absent],
                 Forget({h}), Freed({h}),
                 UNCHANGED <<life, closeIdle, queue, reclose, answers, world>>
          PROVE  Structure'
      <3>1. h \in Opened /\ wallets[h] \in Backend
        BY <1>3, <2>2 DEF FindWallet, Structure, TypeOK
      <3>2. files' \in [Name -> {Absent, Junk} \cup Content]
        BY <1>3, <2>2 DEF Structure, TypeOK
      <3> QED BY <1>3, <2>2, <3>1, <3>2, StructureForget DEF DeleteWallet, EventLoop
    <2>3. ASSUME NEW h \in FindWallet(n), Sync(wallets[h]), Die("nullptr") PROVE Structure'
      <3>1. wallets[h] \in Backend
        BY <1>3, <2>3 DEF FindWallet, Structure, TypeOK
      <3>2. files' \in [Name -> {Absent, Junk} \cup Content]
        BY <1>3, <2>3, <3>1, SyncType DEF Structure, TypeOK
      <3> QED BY <1>3, <2>3, <3>2, DieType DEF Lives
    <2> QED BY <1>3, <2>1, <2>2, <2>3 DEF DeleteWallet
  <1>4. ASSUME Structure, NEW o \in Name, NEW n \in Name, RenameLocked(o, n) PROVE Structure'
    BY <1>4, StopType DEF RenameLocked, Lives
  <1>5. ASSUME Structure, NEW o \in Name, NEW n \in Name, NEW h \in Handle, RenameWallet(o, n, h)
        PROVE  Structure'
    <2> DEFINE moved == [wallets[h] EXCEPT !.name = n]
    <2>1. h \in Opened /\ wallets[h] \in Backend
      BY <1>5 DEF RenameWallet, FindWallet, Structure, TypeOK
    <2>2. /\ moved \in Backend /\ [moved EXCEPT !.open = FALSE] \in Backend
          /\ [moved EXCEPT !.data = 0] \in Backend
          /\ [data |-> wallets[h].data, password |-> wallets[h].password] \in Content
          /\ [data |-> 0, password |-> wallets[h].password] \in Content
      BY <2>1 DEF Backend, Content
    <2>3. Opened' = Opened /\ wallets' \in [Opened' -> Backend]
      BY <1>5, <2>1, <2>2, WithType DEF RenameWallet
    <2>4. files' \in [Name -> {Absent, Junk} \cup Content]
      BY <1>5, <2>2 DEF RenameWallet, Structure, TypeOK
    <2>5. life = "up" /\ renamedOnto' \subseteq Name
      BY <1>5 DEF RenameWallet, EventLoop, Structure, TypeOK
    <2>6. UNCHANGED <<life, enabled, writes, closeIdle, closeTimers, syncTimers, queue, change, answers>>
      BY <1>5 DEF RenameWallet
    <2> QED
      BY <1>5, <2>3, <2>4, <2>5, <2>6
      DEF Structure, TypeOK, QueueConsistent, TargetConsistent, queue, change
  <1> QED BY <1>1, <1>2, <1>3, <1>4, <1>5 DEF Calls

LEMMA StructureTimers == Structure /\ Timers => Structure'
  <1>1. ASSUME Structure, NEW h \in Handle, TimedOutClose(h) PROVE Structure'
    <2>1. files' \in [Name -> {Absent, Junk} \cup Content]
      BY <1>1, InternalCloseType DEF TimedOutClose
    <2> QED BY <1>1, <2>1, StructureForget DEF TimedOutClose, InternalClose, EventLoop
  <1>2. ASSUME Structure, NEW h \in Handle, TimedOutSync(h) PROVE Structure'
    <2>1. files' \in [Name -> {Absent, Junk} \cup Content]
      <3>1. CASE h \in Opened
        BY <1>2, <3>1, SyncType DEF TimedOutSync, Structure, TypeOK
      <3> QED BY <1>2, <3>1 DEF TimedOutSync, Structure, TypeOK
    <2> QED
      BY <1>2, <2>1
      DEF TimedOutSync, EventLoop, Structure, TypeOK, QueueConsistent, TargetConsistent, Opened,
          queue, change, world
  <1> QED BY <1>1, <1>2 DEF Timers

LEMMA StructureListDirty == Structure /\ EmitWalletListDirty => Structure'
  <1> SUFFICES ASSUME Structure, EmitWalletListDirty PROVE Structure'
    OBVIOUS
  <1>1. Gone \in SUBSET Opened
    BY DEF Gone
  <1>2. files' \in [Name -> {Absent, Junk} \cup Content]
    BY DEF EmitWalletListDirty, Structure, TypeOK
  <1> QED BY <1>1, <1>2, StructureForget DEF EmitWalletListDirty, EventLoop

LEMMA StructureProcess == Structure /\ Process => Structure'
  <1>1. ASSUME Structure, Start PROVE Structure'
    <2>1. CASE UNCHANGED table
      <3>1. files' \in [Name -> {Absent, Junk} \cup Content]
        <4>1. ASSUME NEW n \in Name, NEW p \in Password, Opens(n, p, "blowfish")
              PROVE  files' \in [Name -> {Absent, Junk} \cup Content]
          BY <1>1, <4>1, OpensType
        <4> QED BY <1>1, <4>1 DEF Start, Structure, TypeOK
      <3> QED
        BY <1>1, <2>1, <3>1
        DEF Start, Structure, TypeOK, QueueConsistent, TargetConsistent, Lives, Opened,
            table, queue, change, world
    <2>2. ASSUME NEW n \in Name, NEW p \in Password, NEW h \in Handle,
                 Opens(n, p, "blowfish"), Insert(h, OpenBackend(n, p, "blowfish"), closeIdle')
          PROVE  Structure'
      <3>1. /\ files' \in [Name -> {Absent, Junk} \cup Content]
            /\ OpenBackend(n, p, "blowfish") \in Backend
        BY <1>1, <2>2, OpensType
      <3>2. closeIdle' \in BOOLEAN
        BY <1>1 DEF Start
      <3>3. /\ Opened' \subseteq Handle /\ wallets' \in [Opened' -> Backend]
            /\ closeTimers' \subseteq Handle /\ syncTimers' \subseteq Handle
        BY <1>1, <2>2, <3>1, <3>2, InsertType
      <3> QED
        BY <1>1, <3>1, <3>2, <3>3
        DEF Start, Structure, TypeOK, QueueConsistent, TargetConsistent, Lives, queue, change, world
    <2> QED BY <1>1, <2>1, <2>2 DEF Start, table
  <1>2. ASSUME Structure, Kill PROVE Structure'
    BY <1>2, StopType DEF Kill, Lives
  <1>3. ASSUME Structure, Quit PROVE Structure'
    <2>1. CASE Stop("dangling")
      BY <1>3, <2>1, StopType DEF Lives
    <2>2. CASE life' = "quitting" /\ Unwind /\ UNCHANGED <<wallets, closeIdle, files, world>>
      <3>1. answers' \in [Request -> Answers] /\ transactions' \in Seq(Transaction)
        BY <1>3, <2>2 DEF Unwind, CallersLose, Structure, TypeOK, Answers, Outcomes
      <3> QED
        BY <1>3, <2>2, <3>1
        DEF Unwind, Structure, TypeOK, QueueConsistent, TargetConsistent, Lives, Stages, Opened, world
    <2> QED BY <1>3, <2>1, <2>2 DEF Quit
  <1>4. ASSUME Structure, Exit PROVE Structure'
    BY <1>4
    DEF Exit, Structure, TypeOK, QueueConsistent, TargetConsistent, Lives, Opened,
        table, queue, change, world
  <1>5. ASSUME Structure, NEW h \in Handle, CloseAtExit(h) PROVE Structure'
    <2>1. /\ files' \in [Name -> {Absent, Junk} \cup Content]
          /\ Opened' = Opened \ {h} /\ Opened' \subseteq Handle
          /\ wallets' \in [Opened' -> Backend]
          /\ closeTimers' \subseteq closeTimers /\ syncTimers' \subseteq syncTimers
      BY <1>5, InternalCloseType DEF CloseAtExit
    <2> QED
      BY <1>5, <2>1
      DEF CloseAtExit, Structure, TypeOK, QueueConsistent, TargetConsistent, queue, change, world
  <1> QED BY <1>1, <1>2, <1>3, <1>4, <1>5 DEF Process

LEMMA StructureEnvironment == Structure /\ Environment => Structure'
  BY DEF Environment, ChangeEnabled, ExternalRemove, Structure, TypeOK, QueueConsistent,
         TargetConsistent, Opened, table, queue, change, world

LEMMA StructureStep == Structure /\ [Next]_vars => Structure'
  <1> SUFFICES ASSUME Structure, [Next]_vars PROVE Structure'
    OBVIOUS
  <1>1. CASE UNCHANGED vars
    BY <1>1
    DEF vars, Structure, TypeOK, QueueConsistent, TargetConsistent, Opened, table, queue, change, world
  <1> QED
    BY <1>1, StructureProcessing, StructureDialogEnds, StructureRequests, StructureCalls,
       StructureTimers, StructureListDirty, StructureProcess, StructureEnvironment
    DEF Next

\* Every variable keeps its type, and a suspended change of password has a
\* backend that is in the table or known to be gone.
THEOREM StructureCorrect == Spec => []Structure
  BY StructureInit, StructureStep, PTL DEF Spec

-----------------------------------------------------------------------------
(* The table.  What a step may do to it is one of six things. *)

\* A dialog about a wallet is up after a step only if internalOpen() just found
\* the wallet unopened, or the dialog was up before.
DialogStep ==
  stage' \in OpenDialogs => current' = current /\ (stage \in OpenDialogs \/ Unopened)

SameTable ==
  /\ Opened' = Opened /\ \A h \in Opened : wallets'[h].name = wallets[h].name
  /\ closeTimers' = closeTimers /\ syncTimers' \subseteq syncTimers \cup Opened
  /\ UNCHANGED <<life, closeIdle, renamedOnto>>
ForgetStep ==
  /\ \E S \in SUBSET Opened : Forget(S)
  /\ UNCHANGED <<life, closeIdle, renamedOnto>>
InsertStep ==
  /\ \E h \in Handle, b \in Backend : b.name = current.wallet /\ Insert(h, b, closeIdle)
  /\ stage \in OpenDialogs \/ Unopened
  /\ stage' \notin OpenDialogs
  /\ UNCHANGED <<life, closeIdle, renamedOnto>>
RenameStep ==
  /\ \E h \in Opened, n \in Name :
       /\ Opened' = Opened /\ wallets'[h].name = n
       /\ \A k \in Opened \ {h} : wallets'[k].name = wallets[k].name
       /\ FindWallet(n) # {} \/ (stage \in OpenDialogs /\ current.wallet = n) => n \in renamedOnto'
  /\ renamedOnto \subseteq renamedOnto'
  /\ UNCHANGED <<life, closeIdle, closeTimers, syncTimers, stage, current>>
EndStep ==
  /\ life' # "up" /\ stage' = "idle"
  /\ Opened' = {} \/ wallets' = wallets
  /\ UNCHANGED renamedOnto
StartStep ==
  /\ Opened = {} /\ closeTimers = {} /\ syncTimers = {}
  /\ \/ UNCHANGED table
     \/ \E h \in Handle, b \in Backend : Insert(h, b, closeIdle')
  /\ stage' = "idle" /\ UNCHANGED renamedOnto
TableStep ==
  /\ DialogStep
  /\ SameTable \/ ForgetStep \/ InsertStep \/ RenameStep \/ EndStep \/ StartStep

LEMMA SucceedDialog ==
  ASSUME NEW h, NEW isNew, Succeed(h, isNew)
  PROVE  stage' \notin OpenDialogs
  BY DEF Succeed, Finish, OpenDialogs

LEMMA FailDialog == Fail => stage' \notin OpenDialogs
  BY DEF Fail, Finish, OpenDialogs

LEMMA DieStep ==
  ASSUME NEW how \in Lives \ {"up", "quitting"}, Die(how)
  PROVE  TableStep
  BY DEF Die, Unwind, TableStep, DialogStep, EndStep, NoWallets, Opened, OpenDialogs, Lives, world

LEMMA ProcessingStep == Structure /\ Processing => TableStep
  <1> USE DEF TableStep, DialogStep
  <1>1. ASSUME StartProcessing \/ Pop \/ EndProcessing PROVE TableStep
    BY <1>1 DEF StartProcessing, Pop, EndProcessing, SameTable, Opened, OpenDialogs, table, world
  <1>2. ASSUME OpenTooMany PROVE TableStep
    BY <1>2, FailDialog DEF OpenTooMany, SameTable, Opened, table, world
  <1>3. ASSUME ShowOpenDialog PROVE TableStep
    BY <1>3 DEF ShowOpenDialog, SameTable, Opened, table, world
  <1>4. ASSUME NEW h \in Handle, OpenFound(h) PROVE TableStep
    BY <1>4, SucceedDialog DEF OpenFound, SameTable, Opened, table, world
  <1>5. ASSUME Structure, NEW h \in Handle, OpenWithoutDialog(h) PROVE TableStep
    <2> DEFINE b == OpenBackend(current.wallet, EmptyPassword, "unknown")
    <2>1. current.wallet \in Name
      BY <1>5
      DEF OpenWithoutDialog, Beginning, Structure, TypeOK, QueueConsistent, Transaction
    <2>2. b \in Backend /\ b.name = current.wallet
      BY <1>5, <2>1, OpensType, ConstantsAssumption DEF OpenWithoutDialog, OpenBackend
    <2>3. Insert(h, b, closeIdle) /\ Unopened /\ UNCHANGED <<life, closeIdle, renamedOnto>>
      BY <1>5 DEF OpenWithoutDialog, world
    <2>4. stage' \notin OpenDialogs
      BY <1>5, SucceedDialog DEF OpenWithoutDialog
    <2> HIDE DEF b
    <2> QED BY <2>2, <2>3, <2>4 DEF InsertStep
  <1> QED BY <1>1, <1>2, <1>3, <1>4, <1>5 DEF Processing

LEMMA CloseAndFinishStep ==
  ASSUME Structure, life = "up", stage \in {"newPassword", "notChanged", "mayBeLost"}, CloseAndFinish
  PROVE  TableStep
  <1>1. CASE target = "freed" /\ Stop("dangling")
    BY <1>1, DieStep DEF Stop, Lives
  <1>2. CASE target # "freed" /\ InternalClose(target) /\ Done
             /\ UNCHANGED <<life, closeIdle, transactions, world>>
    <2>1. {target} \in SUBSET Opened
      BY <1>2 DEF Structure, TargetConsistent
    <2>2. ForgetStep
      BY <1>2, <2>1 DEF InternalClose, ForgetStep, world
    <2> QED BY <1>2, <2>2 DEF TableStep, DialogStep, Done, Finish, OpenDialogs
  <1> QED BY <1>1, <1>2 DEF CloseAndFinish

LEMMA NewPasswordStep ==
  ASSUME Structure, NEW p \in Password, NewPasswordAccepted(p)
  PROVE  TableStep
  <1>1. CASE target = "freed"
    BY <1>1, DieStep DEF NewPasswordAccepted, Stop, Lives
  <1>2. CASE target # "freed"
    <2> DEFINE b == [wallets[target] EXCEPT !.password = p]
               c == [b EXCEPT !.open = FALSE]
    <2>1. target \in Opened
      BY <1>2 DEF NewPasswordAccepted, Structure, TargetConsistent
    <2>2. b.name = wallets[target].name /\ c.name = wallets[target].name
      BY <2>1 DEF Structure, TypeOK, Backend
    <2> HIDE DEF b, c
    <2>3. stage' \notin OpenDialogs /\ UNCHANGED <<life, closeIdle, renamedOnto>>
      BY <1>2 DEF NewPasswordAccepted, Done, Finish, OpenDialogs, world
    <2>4. ASSUME wallets' \in {With(target, b), With(target, c)},
                 UNCHANGED <<closeTimers, syncTimers>>
          PROVE  SameTable
      BY <2>1, <2>2, <2>3, <2>4 DEF With, SameTable, Opened
    <2>5. ASSUME Forget({target}) PROVE ForgetStep
      BY <2>1, <2>3, <2>5 DEF ForgetStep
    <2> QED
      BY <1>2, <2>3, <2>4, <2>5 DEF NewPasswordAccepted, TableStep, DialogStep, b, c
  <1> QED BY <1>1, <1>2

LEMMA DialogEndsStep == Structure /\ DialogEnds => TableStep
  <1>1. ASSUME Structure, NEW p \in Password, NEW h \in Handle, OpenDialogAccepted(p, h)
        PROVE  TableStep
    <2> DEFINE b == OpenBackend(current.wallet, p, DialogCipher)
    <2>1. current.wallet \in Name /\ DialogCipher \in {"blowfish", "unknown"}
      BY <1>1
      DEF OpenDialogAccepted, DialogCipher, Structure, TypeOK, QueueConsistent, OpenDialogs, Transaction
    <2>2. b \in Backend /\ b.name = current.wallet
      BY <1>1, <2>1, OpensType DEF OpenDialogAccepted, OpenBackend
    <2>3. Insert(h, b, closeIdle) /\ stage \in OpenDialogs /\ UNCHANGED <<life, closeIdle, renamedOnto>>
      BY <1>1 DEF OpenDialogAccepted, world
    <2>4. stage' \notin OpenDialogs
      BY <1>1, SucceedDialog DEF OpenDialogAccepted
    <2> HIDE DEF b
    <2> QED BY <2>2, <2>3, <2>4 DEF InsertStep, TableStep, DialogStep
  <1>2. ASSUME OpenDialogRetried PROVE TableStep
    BY <1>2
    DEF OpenDialogRetried, TableStep, DialogStep, SameTable, Opened, OpenDialogs, table, world
  <1>3. ASSUME Structure, NEW h \in Handle, OpenDialogCancelled(h) PROVE TableStep
    <2>1. CASE stage = "unreadable"
      <3> DEFINE b == [name |-> current.wallet, open |-> FALSE, cipher |-> "unknown",
                       data |-> 0, password |-> EmptyPassword]
      <3>1. b \in Backend /\ b.name = current.wallet
        BY <1>3, <2>1, ConstantsAssumption
        DEF OpenDialogCancelled, Structure, TypeOK, QueueConsistent, Transaction, Backend
      <3>2. Insert(h, b, closeIdle) /\ stage \in OpenDialogs /\ UNCHANGED <<life, closeIdle, renamedOnto>>
        BY <1>3, <2>1 DEF OpenDialogCancelled, world
      <3>3. stage' \notin OpenDialogs
        BY <1>3, <2>1, SucceedDialog DEF OpenDialogCancelled
      <3> HIDE DEF b
      <3> QED BY <3>1, <3>2, <3>3 DEF InsertStep, TableStep, DialogStep
    <2>2. CASE stage # "unreadable"
      BY <1>3, <2>2, FailDialog
      DEF OpenDialogCancelled, TableStep, DialogStep, SameTable, Opened, table, world
    <2> QED BY <2>1, <2>2
  <1>4. ASSUME Structure, NewPasswordCancelled \/ BoxClosed PROVE TableStep
    <2>1. CASE Done /\ UNCHANGED <<life, closeIdle, files, table, transactions, world>>
      BY <2>1 DEF Done, Finish, TableStep, DialogStep, SameTable, Opened, OpenDialogs, table, world
    <2> QED BY <1>4, <2>1, CloseAndFinishStep DEF NewPasswordCancelled, BoxClosed
  <1> QED BY <1>1, <1>2, <1>3, <1>4, NewPasswordStep DEF DialogEnds

LEMMA CallsStep == Structure /\ (Calls \/ Timers \/ EmitWalletListDirty \/ Requests) => TableStep
  <1>1. ASSUME NEW S \in SUBSET Opened, Forget(S), UNCHANGED <<life, closeIdle, queue, world>>
        PROVE  TableStep
    BY <1>1 DEF TableStep, DialogStep, ForgetStep, queue, world
  <1>2. ASSUME NEW h \in Handle, Close(h) \/ TimedOutClose(h) PROVE TableStep
    BY <1>1, <1>2 DEF Close, TimedOutClose, InternalClose
  <1>3. ASSUME Structure, NEW h \in Handle, WriteEntry(h) PROVE TableStep
    BY <1>3
    DEF WriteEntry, Structure, TypeOK, Backend, TableStep, DialogStep, SameTable, Opened, queue
  <1>4. ASSUME Structure, NEW n \in Name, DeleteWallet(n) PROVE TableStep
    <2>1. CASE Stop("nullptr")
      BY <2>1, DieStep DEF Stop, Lives
    <2>2. ASSUME NEW h \in FindWallet(n), Forget({h}),
                 UNCHANGED <<life, closeIdle, queue, reclose, answers, world>>
          PROVE  TableStep
      BY <1>1, <2>2 DEF FindWallet
    <2>3. CASE Die("nullptr")
      BY <2>3, DieStep DEF Lives
    <2> QED BY <1>4, <2>1, <2>2, <2>3 DEF DeleteWallet
  <1>5. ASSUME NEW o \in Name, NEW n \in Name, RenameLocked(o, n) PROVE TableStep
    BY <1>5, DieStep DEF RenameLocked, Stop, Lives
  <1>6. ASSUME Structure, NEW o \in Name, NEW n \in Name, NEW h \in Handle, RenameWallet(o, n, h)
        PROVE  TableStep
    <2> DEFINE moved == [wallets[h] EXCEPT !.name = n]
    <2>1. h \in Opened /\ wallets[h] \in Backend
      BY <1>6 DEF RenameWallet, FindWallet, Structure, TypeOK
    <2>2. /\ moved.name = n /\ [moved EXCEPT !.open = FALSE].name = n
          /\ [moved EXCEPT !.data = 0].name = n
      BY <2>1 DEF Backend
    <2>3. PICK b : b.name = n /\ wallets' = With(h, b)
      BY <1>6, <2>2 DEF RenameWallet
    <2>4. /\ Opened' = Opened /\ wallets'[h].name = n
          /\ \A k \in Opened \ {h} : wallets'[k].name = wallets[k].name
      BY <2>1, <2>3 DEF With, Opened
    <2>5. /\ UNCHANGED <<life, closeIdle, closeTimers, syncTimers, stage, current>>
          /\ renamedOnto \subseteq renamedOnto'
          /\ FindWallet(n) # {} \/ (stage \in OpenDialogs /\ current.wallet = n) => n \in renamedOnto'
      BY <1>6 DEF RenameWallet, queue
    <2> QED BY <2>1, <2>4, <2>5 DEF TableStep, DialogStep, RenameStep
  <1>7. ASSUME NEW h \in Handle, TimedOutSync(h) PROVE TableStep
    BY <1>7 DEF TimedOutSync, TableStep, DialogStep, SameTable, Opened, queue, world
  <1>8. ASSUME EmitWalletListDirty PROVE TableStep
    BY <1>1, <1>8 DEF EmitWalletListDirty, Gone
  <1>9. ASSUME NEW n \in Name, NEW w \in WId, NEW r \in Request, Open(n, w, r) \/ ChangePassword(n, w, r)
        PROVE  TableStep
    BY <1>9 DEF Open, ChangePassword, TableStep, DialogStep, SameTable, Opened, table, world
  <1> QED
    BY <1>2, <1>3, <1>4, <1>5, <1>6, <1>7, <1>8, <1>9 DEF Calls, Timers, Requests

LEMMA ProcessStep == Structure /\ (Process \/ Environment) => TableStep
  <1>1. ASSUME Structure, Start PROVE TableStep
    <2>1. /\ Opened = {} /\ closeTimers = {} /\ syncTimers = {}
          /\ stage = "idle" /\ stage' = "idle" /\ UNCHANGED renamedOnto
      BY <1>1 DEF Start, Structure, TypeOK, QueueConsistent, Lives, queue, world
    <2>2. UNCHANGED table \/ \E h \in Handle, b \in Backend : Insert(h, b, closeIdle')
      <3>1. ASSUME NEW n \in Name, NEW p \in Password, Opens(n, p, "blowfish")
            PROVE  OpenBackend(n, p, "blowfish") \in Backend
        BY <1>1, <3>1, OpensType
      <3> QED BY <1>1, <3>1 DEF Start, table
    <2> QED BY <2>1, <2>2 DEF TableStep, DialogStep, StartStep, OpenDialogs
  <1>2. ASSUME Kill PROVE TableStep
    BY <1>2, DieStep DEF Kill, Stop, Lives
  <1>3. ASSUME Quit PROVE TableStep
    <2>1. CASE Stop("dangling")
      BY <2>1, DieStep DEF Stop, Lives
    <2> QED
      BY <1>3, <2>1
      DEF Quit, Unwind, TableStep, DialogStep, EndStep, OpenDialogs, world
  <1>4. ASSUME Structure, Exit PROVE TableStep
    BY <1>4
    DEF Exit, Structure, QueueConsistent, TableStep, DialogStep, EndStep, OpenDialogs, table, queue, world
  <1>5. ASSUME Structure, NEW h \in Handle, CloseAtExit(h) PROVE TableStep
    BY <1>5 DEF CloseAtExit, InternalClose, TableStep, DialogStep, ForgetStep, queue, world
  <1>6. ASSUME Environment PROVE TableStep
    BY <1>6
    DEF Environment, ChangeEnabled, ExternalRemove, TableStep, DialogStep, SameTable, Opened,
        table, queue, world
  <1> QED BY <1>1, <1>2, <1>3, <1>4, <1>5, <1>6 DEF Process

LEMMA TableSteps == Structure /\ [Next]_vars => TableStep
  <1>1. ASSUME UNCHANGED vars PROVE TableStep
    BY <1>1 DEF vars, TableStep, DialogStep, SameTable, Opened, table, queue, world
  <1> QED
    BY <1>1, ProcessingStep, DialogEndsStep, CallsStep, ProcessStep DEF Next

-----------------------------------------------------------------------------
(* The invariants of the table *)

TableInvariant ==
  IsFiniteSet(Opened) /\ TimersMatchTable /\ UniqueOpen /\ BoundedOpen /\ DialogConsistent

LEMMA InsertTable ==
  ASSUME NEW h \in Handle, NEW b \in Backend, NEW idle \in BOOLEAN, Insert(h, b, idle),
         IsFiniteSet(Opened)
  PROVE  /\ h \notin Opened /\ Opened' = Opened \cup {h}
         /\ wallets'[h] = b /\ \A k \in Opened : wallets'[k] = wallets[k]
         /\ closeTimers' = IF idle THEN closeTimers \cup {h} ELSE closeTimers
         /\ syncTimers' = syncTimers \cup {h}
         /\ IsFiniteSet(Opened') /\ Cardinality(Opened') = Cardinality(Opened) + 1
  <1>1. /\ h \notin Opened /\ Opened' = Opened \cup {h}
        /\ wallets'[h] = b /\ \A k \in Opened : wallets'[k] = wallets[k]
    BY DEF Insert, With, Opened
  <1> QED BY <1>1, FS_AddElement DEF Insert

LEMMA ForgetTable ==
  ASSUME NEW S \in SUBSET Opened, Forget(S), IsFiniteSet(Opened)
  PROVE  /\ Opened' = Opened \ S /\ \A k \in Opened' : wallets'[k] = wallets[k]
         /\ closeTimers' = IF closeIdle THEN closeTimers \ S ELSE closeTimers
         /\ syncTimers' = syncTimers \ S
         /\ IsFiniteSet(Opened') /\ Cardinality(Opened') =< Cardinality(Opened)
  <1>1. Opened' = Opened \ S /\ \A k \in Opened' : wallets'[k] = wallets[k]
    BY DEF Forget, Opened
  <1> QED BY <1>1, FS_Subset DEF Forget

LEMMA TableInit == Init => TableInvariant
  <1> SUFFICES ASSUME Init PROVE TableInvariant
    OBVIOUS
  <1>1. Opened = {}
    BY NoWalletsType DEF Init, Opened
  <1>2. IsFiniteSet(Opened) /\ Cardinality(Opened) = 0
    BY <1>1, FS_EmptySet
  <1> QED
    BY <1>1, <1>2, ConstantsAssumption
    DEF Init, TableInvariant, TimersMatchTable, UniqueOpen, BoundedOpen, DialogConsistent, OpenDialogs

LEMMA TableNext == Structure /\ TableInvariant /\ [Next]_vars => TableInvariant'
  <1> SUFFICES ASSUME Structure, TableInvariant, [Next]_vars PROVE TableInvariant'
    OBVIOUS
  <1> USE DEF TableInvariant
  <1>0. /\ TableStep /\ OpenLimit \in Nat /\ Cardinality(Opened) \in Nat
        /\ closeIdle \in BOOLEAN /\ closeIdle' \in BOOLEAN
    BY TableSteps, StructureStep, ConstantsAssumption, FS_CardinalityType DEF Structure, TypeOK
  <1>1. CASE SameTable
    BY <1>0, <1>1
    DEF TableStep, DialogStep, SameTable, TimersMatchTable, UniqueOpen, BoundedOpen, DialogConsistent,
        Unopened, FindWallet
  <1>2. CASE ForgetStep
    <2>1. PICK S \in SUBSET Opened : Forget(S)
      BY <1>2 DEF ForgetStep
    <2>2. /\ Opened' = Opened \ S /\ \A k \in Opened' : wallets'[k] = wallets[k]
          /\ closeTimers' = IF closeIdle THEN closeTimers \ S ELSE closeTimers
          /\ syncTimers' = syncTimers \ S
          /\ IsFiniteSet(Opened') /\ Cardinality(Opened') =< Cardinality(Opened)
      BY <2>1, ForgetTable
    <2>3. Cardinality(Opened') \in Nat
      BY <2>2, FS_CardinalityType
    <2>4. TimersMatchTable' /\ UniqueOpen'
      BY <1>2, <2>2 DEF ForgetStep, TimersMatchTable, UniqueOpen
    <2>5. BoundedOpen'
      BY <1>0, <2>2, <2>3 DEF BoundedOpen
    <2>6. ASSUME stage' \in OpenDialogs
          PROVE  /\ Cardinality(Opened') =< OpenLimit
                 /\ FindWallet(current.wallet)' = {} \/ current'.wallet \in renamedOnto'
      <3>1. /\ current' = current /\ Cardinality(Opened) =< OpenLimit
            /\ FindWallet(current.wallet) = {} \/ current.wallet \in renamedOnto
        BY <1>0, <2>6 DEF TableStep, DialogStep, Unopened, DialogConsistent
      <3>2. FindWallet(current.wallet)' \subseteq FindWallet(current.wallet)
        BY <2>2, <3>1 DEF FindWallet
      <3> QED BY <1>0, <1>2, <2>2, <2>3, <3>1, <3>2 DEF ForgetStep
    <2>7. DialogConsistent'
      BY <2>6 DEF DialogConsistent
    <2> QED BY <2>2, <2>4, <2>5, <2>7
  <1>3. CASE InsertStep
    <2>1. PICK h \in Handle, b \in Backend : b.name = current.wallet /\ Insert(h, b, closeIdle)
      BY <1>3 DEF InsertStep
    <2>2. /\ h \notin Opened /\ Opened' = Opened \cup {h}
          /\ wallets'[h] = b /\ \A k \in Opened : wallets'[k] = wallets[k]
          /\ closeTimers' = IF closeIdle THEN closeTimers \cup {h} ELSE closeTimers
          /\ syncTimers' = syncTimers \cup {h}
          /\ IsFiniteSet(Opened') /\ Cardinality(Opened') = Cardinality(Opened) + 1
      BY <1>0, <2>1, InsertTable
    <2>3. /\ Cardinality(Opened) =< OpenLimit
          /\ FindWallet(current.wallet) = {} \/ current.wallet \in renamedOnto
      BY <1>3 DEF InsertStep, DialogConsistent, Unopened
    <2>4. UniqueOpen'
      BY <1>3, <2>1, <2>2, <2>3 DEF InsertStep, UniqueOpen, FindWallet
    <2>5. TimersMatchTable'
      BY <1>3, <2>2 DEF InsertStep, TimersMatchTable
    <2>6. BoundedOpen'
      BY <1>0, <2>2, <2>3 DEF BoundedOpen
    <2>7. DialogConsistent'
      BY <1>3 DEF InsertStep, DialogConsistent
    <2> QED BY <2>2, <2>4, <2>5, <2>6, <2>7
  <1>4. CASE RenameStep
    <2>1. PICK h \in Opened, n \in Name :
            /\ Opened' = Opened /\ wallets'[h].name = n
            /\ \A k \in Opened \ {h} : wallets'[k].name = wallets[k].name
            /\ FindWallet(n) # {} \/ (stage \in OpenDialogs /\ current.wallet = n) => n \in renamedOnto'
      BY <1>4 DEF RenameStep
    <2>2. UniqueOpen'
      BY <1>4, <2>1 DEF RenameStep, UniqueOpen, FindWallet
    <2>3. DialogConsistent'
      BY <1>4, <2>1 DEF RenameStep, DialogConsistent, FindWallet
    <2> QED
      BY <1>4, <2>1, <2>2, <2>3 DEF RenameStep, TimersMatchTable, BoundedOpen
  <1>5. CASE EndStep
    <2>1. IsFiniteSet(Opened') /\ Cardinality(Opened') =< OpenLimit + 1
      BY <1>0, <1>5, FS_EmptySet DEF EndStep, BoundedOpen, Opened
    <2>2. UniqueOpen'
      BY <1>5 DEF EndStep, UniqueOpen, Opened
    <2> QED
      BY <1>5, <2>1, <2>2 DEF EndStep, TimersMatchTable, BoundedOpen, DialogConsistent, OpenDialogs
  <1>6. CASE StartStep
    <2>1. Cardinality(Opened) = 0
      BY <1>6, FS_EmptySet DEF StartStep
    <2>2. stage' \notin OpenDialogs
      BY <1>6 DEF StartStep, OpenDialogs
    <2>3. CASE UNCHANGED table
      BY <1>0, <1>6, <2>1, <2>2, <2>3
      DEF StartStep, TimersMatchTable, UniqueOpen, BoundedOpen, DialogConsistent, Opened, table
    <2>4. ASSUME NEW h \in Handle, NEW b \in Backend, Insert(h, b, closeIdle')
          PROVE  TableInvariant'
      <3>1. /\ Opened' = {h} /\ IsFiniteSet(Opened') /\ Cardinality(Opened') = 1
            /\ closeTimers' = IF closeIdle' THEN {h} ELSE {}
            /\ syncTimers' = {h}
        BY <1>0, <1>6, <2>1, <2>4, InsertTable DEF StartStep
      <3> QED
        BY <1>0, <2>2, <3>1 DEF TimersMatchTable, UniqueOpen, BoundedOpen, DialogConsistent
    <2> QED BY <1>6, <2>3, <2>4 DEF StartStep
  <1> QED BY <1>0, <1>1, <1>2, <1>3, <1>4, <1>5, <1>6 DEF TableStep

-----------------------------------------------------------------------------
(* The callers *)

LEMMA WaitingInit == Init => WaitingIsPending
  BY DEF Init, WaitingIsPending

\* The transaction in progress answers its own caller, and no other caller
\* loses the transaction that is to answer it.
LEMMA WaitingFinish ==
  ASSUME WaitingIsPending, NEW replies, Finish(replies), UNCHANGED transactions,
         current \in Transaction, current.req \in DOMAIN replies,
         \A r \in DOMAIN replies : replies[r] # "waiting"
  PROVE  WaitingIsPending'
  <1> SUFFICES ASSUME NEW r \in Request, answers'[r] = "waiting"
               PROVE  \E t \in Pending' : t.req = r
    BY DEF WaitingIsPending
  <1>1. answers[r] = "waiting" /\ r \notin DOMAIN replies
    BY DEF Finish
  <1>2. PICK t \in Pending : t.req = r
    BY <1>1 DEF WaitingIsPending
  <1>3. t # current
    BY <1>1, <1>2
  <1> QED BY <1>2, <1>3 DEF Finish, Pending

LEMMA CallsAnswerNobody ==
  ASSUME Calls \/ Timers \/ EmitWalletListDirty
  PROVE  UNCHANGED <<transactions, stage, current, answers>> \/ \E how : Die(how)
  <1> DEFINE Quiet == UNCHANGED <<transactions, stage, current, answers>> \/ \E how : Die(how)
  <1>1. ASSUME NEW h \in Handle, Close(h) \/ WriteEntry(h) PROVE Quiet
    BY <1>1 DEF Close, WriteEntry, Stop, queue
  <1>2. ASSUME NEW n \in Name, DeleteWallet(n) PROVE Quiet
    BY <1>2 DEF DeleteWallet, Stop, queue
  <1>3. ASSUME NEW o \in Name, NEW n \in Name, RenameLocked(o, n) PROVE Quiet
    BY <1>3 DEF RenameLocked, Stop, queue
  <1>4. ASSUME NEW o \in Name, NEW n \in Name, NEW h \in Handle, RenameWallet(o, n, h) PROVE Quiet
    BY <1>4 DEF RenameWallet, Stop, queue
  <1>5. ASSUME Timers \/ EmitWalletListDirty PROVE Quiet
    BY <1>5 DEF Timers, TimedOutClose, TimedOutSync, EmitWalletListDirty, Stop, queue
  <1> QED BY <1>1, <1>2, <1>3, <1>4, <1>5 DEF Calls

LEMMA WaitingSame ==
  ASSUME WaitingIsPending, UNCHANGED <<transactions, current, answers>>
  PROVE  WaitingIsPending'
  BY DEF WaitingIsPending, Pending

LEMMA WaitingSucceed ==
  ASSUME WaitingIsPending, NEW h \in Handle, NEW isNew, Succeed(h, isNew),
         UNCHANGED transactions, current \in Transaction
  PROVE  WaitingIsPending'
  <1>1. CASE current.type = "open"
    BY <1>1, WaitingFinish, ConstantsAssumption DEF Succeed, Outcomes
  <1>2. CASE current.type # "open"
    BY <1>2, WaitingSame DEF Succeed
  <1> QED BY <1>1, <1>2

LEMMA WaitingFail ==
  ASSUME WaitingIsPending, Fail, UNCHANGED transactions, current \in Transaction
  PROVE  WaitingIsPending'
  <1>1. CASE current.type = "open"
    <2>1. current \in SameClient
      BY <1>1, NoneIsNoTransaction DEF SameClient, Pending
    <2> QED BY <1>1, <2>1, WaitingFinish, ConstantsAssumption DEF Fail, Outcomes
  <1>2. CASE current.type # "open"
    BY <1>2, WaitingSame DEF Fail
  <1> QED BY <1>1, <1>2

LEMMA WaitingDone ==
  ASSUME WaitingIsPending, Done, UNCHANGED transactions, current \in Transaction
  PROVE  WaitingIsPending'
  BY WaitingFinish DEF Done

LEMMA WaitingUnwind ==
  ASSUME Structure, Unwind
  PROVE  WaitingIsPending'
  BY DEF Unwind, CallersLose, WaitingIsPending, Structure, TypeOK

LEMMA WaitingQueued ==
  ASSUME Structure, WaitingIsPending, UNCHANGED current, NEW t \in Transaction,
         transactions' = Append(transactions, t), NEW v,
         answers' = [answers EXCEPT ![t.req] = v]
  PROVE  WaitingIsPending'
  <1>0. transactions \in Seq(Transaction)
    BY DEF Structure, TypeOK
  <1>1. Pending \subseteq Pending' /\ t \in Pending'
    <2>1. /\ Len(transactions') = Len(transactions) + 1
          /\ \A i \in 1..Len(transactions) : transactions'[i] = transactions[i]
          /\ transactions'[Len(transactions) + 1] = t
      BY <1>0
    <2>2. transactions' \in Seq(Transaction)
      BY <1>0
    <2>3. DOMAIN transactions = 1..Len(transactions) /\ DOMAIN transactions' = 1..Len(transactions')
      BY <1>0, <2>2
    <2>4. Len(transactions) \in Nat
      BY <1>0
    <2> QED BY <2>1, <2>3, <2>4 DEF Pending
  <1> QED BY <1>1 DEF WaitingIsPending, Structure, TypeOK

LEMMA WaitingPop ==
  ASSUME Structure, WaitingIsPending, Pop
  PROVE  WaitingIsPending'
  <1>0. /\ transactions \in Seq(Transaction) /\ transactions # <<>>
        /\ current = None /\ current' = Head(transactions) /\ transactions' = Tail(transactions)
        /\ UNCHANGED answers
    BY DEF Pop, Structure, TypeOK, QueueConsistent
  <1>1. current' \in Transaction /\ current' # None
    BY <1>0, NoneIsNoTransaction
  <1>2. ASSUME NEW i \in DOMAIN transactions PROVE transactions[i] \in Pending'
    <2>1. CASE i = 1
      BY <1>0, <1>1, <2>1 DEF Pending
    <2>2. CASE i # 1
      <3>1. i - 1 \in DOMAIN Tail(transactions) /\ Tail(transactions)[i - 1] = transactions[i]
        BY <1>0, <2>2
      <3> QED BY <1>0, <3>1 DEF Pending
    <2> QED BY <2>1, <2>2
  <1> QED BY <1>0, <1>2 DEF WaitingIsPending, Pending

LEMMA WaitingProcessing == Structure /\ WaitingIsPending /\ (Processing \/ DialogEnds) => WaitingIsPending'
  <1> SUFFICES ASSUME Structure, WaitingIsPending, Processing \/ DialogEnds PROVE WaitingIsPending'
    OBVIOUS
  <1>0. stage \notin {"idle", "running"} => current \in Transaction
    BY DEF Structure, TypeOK, QueueConsistent
  <1>1. ASSUME StartProcessing \/ EndProcessing \/ ShowOpenDialog \/ OpenDialogRetried
        PROVE  WaitingIsPending'
    BY <1>1, WaitingSame DEF StartProcessing, EndProcessing, ShowOpenDialog, OpenDialogRetried
  <1>2. ASSUME NEW h \in Handle, OpenFound(h) \/ OpenWithoutDialog(h) PROVE WaitingIsPending'
    BY <1>0, <1>2, WaitingSucceed DEF OpenFound, OpenWithoutDialog, Beginning
  <1>3. ASSUME OpenTooMany PROVE WaitingIsPending'
    BY <1>0, <1>3, WaitingFail DEF OpenTooMany, Beginning
  <1>4. ASSUME NEW p \in Password, NEW h \in Handle, OpenDialogAccepted(p, h) PROVE WaitingIsPending'
    BY <1>0, <1>4, WaitingSucceed DEF OpenDialogAccepted, OpenDialogs
  <1>5. ASSUME NEW h \in Handle, OpenDialogCancelled(h) PROVE WaitingIsPending'
    BY <1>0, <1>5, WaitingSucceed, WaitingFail DEF OpenDialogCancelled, OpenDialogs
  <1>6. ASSUME NEW how, Die(how) PROVE WaitingIsPending'
    BY <1>6, WaitingUnwind DEF Die
  <1>7. ASSUME stage \in {"newPassword", "notChanged", "mayBeLost"}, CloseAndFinish
        PROVE  WaitingIsPending'
    BY <1>0, <1>6, <1>7, WaitingDone DEF CloseAndFinish, Stop
  <1>8. ASSUME NEW p \in Password, NewPasswordAccepted(p) PROVE WaitingIsPending'
    <2>1. CASE target = "freed"
      BY <1>6, <1>8, <2>1 DEF NewPasswordAccepted, Stop
    <2>2. CASE target # "freed"
      BY <1>0, <1>8, <2>2, WaitingDone, WaitingSame DEF NewPasswordAccepted
    <2> QED BY <2>1, <2>2
  <1>9. ASSUME NewPasswordCancelled \/ BoxClosed PROVE WaitingIsPending'
    BY <1>0, <1>7, <1>9, WaitingDone DEF NewPasswordCancelled, BoxClosed
  <1> QED
    BY <1>1, <1>2, <1>3, <1>4, <1>5, <1>8, <1>9, WaitingPop DEF Processing, DialogEnds

LEMMA WaitingNext == Structure /\ WaitingIsPending /\ [Next]_vars => WaitingIsPending'
  <1> SUFFICES ASSUME Structure, WaitingIsPending, [Next]_vars PROVE WaitingIsPending'
    OBVIOUS
  <1>1. ASSUME Requests PROVE WaitingIsPending'
    <2>1. PICK n \in Name, w \in WId, r \in Request : Open(n, w, r) \/ ChangePassword(n, w, r)
      BY <1>1 DEF Requests
    <2> DEFINE t == [type |-> "open", wallet |-> n, wId |-> w, req |-> r]
               u == [type |-> "changePassword", wallet |-> n, wId |-> w, req |-> r]
    <2>2. t \in Transaction /\ u \in Transaction /\ t.req = r /\ u.req = r
      BY DEF Transaction
    <2>3. UNCHANGED current
      BY <2>1 DEF Open, ChangePassword
    <2>4. CASE /\ transactions' \in {Append(transactions, t), Append(transactions, u)}
               /\ answers' = [answers EXCEPT ![r] = "waiting"]
      BY <2>2, <2>3, <2>4, WaitingQueued
    <2>5. CASE UNCHANGED transactions /\ answers' = [answers EXCEPT ![r] = Refused]
      BY <2>3, <2>5, ConstantsAssumption
      DEF WaitingIsPending, Pending, Structure, TypeOK, Outcomes
    <2>6. \/ /\ transactions' \in {Append(transactions, t), Append(transactions, u)}
             /\ answers' = [answers EXCEPT ![r] = "waiting"]
          \/ UNCHANGED transactions /\ answers' = [answers EXCEPT ![r] = Refused]
      <3>1. CASE Open(n, w, r)
        BY <3>1 DEF Open
      <3>2. CASE ChangePassword(n, w, r)
        BY <3>2 DEF ChangePassword
      <3> QED BY <2>1, <3>1, <3>2
    <2> HIDE DEF t, u
    <2> QED BY <2>4, <2>5, <2>6
  <1>2. ASSUME NEW how, Die(how) PROVE WaitingIsPending'
    BY <1>2, WaitingUnwind DEF Die
  <1>3. ASSUME Calls \/ Timers \/ EmitWalletListDirty PROVE WaitingIsPending'
    BY <1>2, <1>3, WaitingSame, CallsAnswerNobody
  <1>4. ASSUME Process \/ Environment PROVE WaitingIsPending'
    BY <1>2, <1>4, WaitingSame, WaitingUnwind
    DEF Process, Environment, Start, Kill, Quit, Exit, CloseAtExit, ChangeEnabled, ExternalRemove, Stop,
        queue
  <1>5. ASSUME UNCHANGED vars PROVE WaitingIsPending'
    BY <1>5, WaitingSame DEF vars, queue
  <1> QED
    BY <1>1, <1>3, <1>4, <1>5, WaitingProcessing DEF Next

-----------------------------------------------------------------------------
(* The theorems *)

LEMMA InductiveInvariant == Spec => [](Structure /\ TableInvariant /\ WaitingIsPending)
  <1>1. Init => Structure /\ TableInvariant /\ WaitingIsPending
    BY StructureInit, TableInit, WaitingInit
  <1>2. Structure /\ TableInvariant /\ WaitingIsPending /\ [Next]_vars
        => (Structure /\ TableInvariant /\ WaitingIsPending)'
    BY StructureStep, TableNext, WaitingNext
  <1> QED BY <1>1, <1>2, PTL DEF Spec

\* No timer outlives its handle, whatever opens, closes, crashes or restarts:
\* reconfigure(), internalOpen() and internalClose() keep them in step.
THEOREM TimersAgree == Spec => []TimersMatchTable
  BY InductiveInvariant, PTL DEF TableInvariant

\* However dialogs, calls and timers interleave, findWallet() has one backend to
\* find for a wallet, unless a rename took a name that was open or being opened.
THEOREM OneBackendPerWallet == Spec => []UniqueOpen
  BY InductiveInvariant, PTL DEF TableInvariant

\* What internalOpen() saw before a dialog is still so when the dialog ends.
THEOREM DialogStillRight == Spec => []DialogConsistent
  BY InductiveInvariant, PTL DEF TableInvariant

\* The limit on open wallets, tested before a dialog and used after it, holds.
THEOREM TableBounded == Spec => []BoundedOpen
  BY InductiveInvariant, PTL DEF TableInvariant

\* No caller of open() or changePassword() is dropped from the queue unanswered.
THEOREM CallersPending == Spec => []WaitingIsPending
  BY InductiveInvariant, PTL

-----------------------------------------------------------------------------
(* The answers *)

AnsweredRight ==
  \A r \in Request, h \in Handle :
    answers[r] = "waiting" /\ answers'[r] = h =>
      /\ h \in Opened'
      /\ \E t \in Pending : t.req = r /\ t.wallet = wallets'[h].name

\* An answer that is no handle claims nothing.
NoHandleGiven ==
  \A r \in Request : answers'[r] = answers[r] \/ answers'[r] \in Outcomes \cup {Refused}

LEMMA NoHandleIsRight == NoHandleGiven => AnsweredRight
  BY ConstantsAssumption DEF NoHandleGiven, AnsweredRight, Outcomes

LEMMA FinishAnswers ==
  ASSUME Structure, NEW R,
         NEW v \in Outcomes \cup {Refused}, Finish([r \in R |-> v])
  PROVE  NoHandleGiven
  BY DEF Finish, NoHandleGiven

LEMMA FailAnswers == Structure /\ Fail => NoHandleGiven
  <1> SUFFICES ASSUME Structure, Fail PROVE NoHandleGiven
    OBVIOUS
  <1> DEFINE R == {t.req : t \in SameClient}
  <1>2. CASE current.type = "open"
    BY <1>2, FinishAnswers, Refused \in Outcomes \cup {Refused} DEF Fail
  <1> QED BY <1>2 DEF Fail, NoHandleGiven

LEMMA SucceedAnswers ==
  ASSUME Structure, stage \notin {"idle", "running"}, NEW h \in Handle, NEW isNew, Succeed(h, isNew),
         h \in Opened', wallets'[h].name = current.wallet
  PROVE  AnsweredRight
  <1>1. current \in Transaction /\ current \in Pending
    BY NoneIsNoTransaction DEF Structure, TypeOK, QueueConsistent, Pending
  <1>2. CASE current.type = "open"
    <2>1. \A r \in Request : answers'[r] = answers[r] \/ (r = current.req /\ answers'[r] = h)
      BY <1>2 DEF Succeed, Finish
    <2> QED BY <1>1, <2>1, ConstantsAssumption DEF AnsweredRight, Outcomes
  <1>3. CASE current.type # "open"
    BY <1>3, NoHandleIsRight DEF Succeed, NoHandleGiven
  <1> QED BY <1>2, <1>3

LEMMA InsertAnswers ==
  ASSUME NEW h \in Handle, NEW b \in Backend, NEW idle, Insert(h, b, idle)
  PROVE  h \in Opened' /\ wallets'[h] = b
  BY DEF Insert, With, Opened

LEMMA DoneAnswers == Structure /\ Done => NoHandleGiven
  BY DEF Done, Finish, NoHandleGiven, Outcomes

LEMMA CloseAndFinishAnswers == Structure /\ CloseAndFinish => NoHandleGiven
  BY DoneAnswers DEF CloseAndFinish, Stop, Die, Unwind, CallersLose, NoHandleGiven, Outcomes

LEMMA AnswersProcessing == Structure /\ Processing => AnsweredRight
  <1>1. ASSUME Structure, StartProcessing \/ Pop \/ EndProcessing \/ ShowOpenDialog
        PROVE  NoHandleGiven
    BY <1>1 DEF StartProcessing, Pop, EndProcessing, ShowOpenDialog, NoHandleGiven
  <1>2. ASSUME Structure, OpenTooMany PROVE NoHandleGiven
    BY <1>2, FailAnswers DEF OpenTooMany
  <1>3. ASSUME Structure, NEW h \in Handle, OpenFound(h) PROVE AnsweredRight
    <2>1. stage = "begin" /\ Succeed(h, FALSE) /\ wallets' = wallets
      BY <1>3 DEF OpenFound, Beginning, table
    <2>2. h \in Opened' /\ wallets'[h].name = current.wallet
      BY <1>3, <2>1 DEF OpenFound, FindWallet, Opened
    <2> QED BY <1>3, <2>1, <2>2, SucceedAnswers
  <1>4. ASSUME Structure, NEW h \in Handle, OpenWithoutDialog(h) PROVE AnsweredRight
    <2> DEFINE b == OpenBackend(current.wallet, EmptyPassword, "unknown")
    <2>1. stage = "begin" /\ Succeed(h, TRUE) /\ Insert(h, b, closeIdle)
      BY <1>4 DEF OpenWithoutDialog, Beginning
    <2>2. h \in Opened' /\ wallets'[h] = b
      BY <2>1 DEF Insert, With, Opened
    <2>3. b.name = current.wallet
      BY DEF OpenBackend
    <2> QED BY <1>4, <2>1, <2>2, <2>3, SucceedAnswers
  <1> QED BY <1>1, <1>2, <1>3, <1>4, NoHandleIsRight DEF Processing

LEMMA AnswersDialogEnds == Structure /\ DialogEnds => AnsweredRight
  <1>1. ASSUME Structure, NEW p \in Password, NEW h \in Handle, OpenDialogAccepted(p, h)
        PROVE  AnsweredRight
    <2> DEFINE b == OpenBackend(current.wallet, p, DialogCipher)
    <2>1. stage \in OpenDialogs /\ Succeed(h, TRUE) /\ Insert(h, b, closeIdle)
      BY <1>1 DEF OpenDialogAccepted
    <2>2. h \in Opened' /\ wallets'[h] = b
      BY <2>1 DEF Insert, With, Opened
    <2>3. b.name = current.wallet
      BY DEF OpenBackend
    <2> QED BY <1>1, <2>1, <2>2, <2>3, SucceedAnswers DEF OpenDialogs
  <1>2. ASSUME Structure, OpenDialogRetried PROVE NoHandleGiven
    BY <1>2 DEF OpenDialogRetried, NoHandleGiven
  <1>3. ASSUME Structure, NEW h \in Handle, OpenDialogCancelled(h) PROVE AnsweredRight
    <2> DEFINE b == [name |-> current.wallet, open |-> FALSE, cipher |-> "unknown",
                     data |-> 0, password |-> EmptyPassword]
    <2>1. CASE stage = "unreadable"
      <3>1. Succeed(h, TRUE) /\ Insert(h, b, closeIdle)
        BY <1>3, <2>1 DEF OpenDialogCancelled
      <3>2. h \in Opened' /\ wallets'[h] = b
        BY <3>1 DEF Insert, With, Opened
      <3>3. b.name = current.wallet
        OBVIOUS
      <3>4. wallets'[h].name = current.wallet
        BY <3>2, <3>3
      <3> HIDE DEF b
      <3> QED BY <1>3, <2>1, <3>1, <3>2, <3>4, SucceedAnswers
    <2>2. CASE stage # "unreadable"
      BY <1>3, <2>2, FailAnswers, NoHandleIsRight DEF OpenDialogCancelled
    <2> QED BY <2>1, <2>2
  <1>4. ASSUME Structure, NEW p \in Password, NewPasswordAccepted(p) PROVE NoHandleGiven
    <2>1. CASE target = "freed"
      BY <1>4, <2>1 DEF NewPasswordAccepted, Stop, Die, Unwind, CallersLose, NoHandleGiven, Outcomes
    <2>2. CASE target # "freed"
      <3>1. Done \/ UNCHANGED answers
        BY <1>4, <2>2 DEF NewPasswordAccepted
      <3> QED BY <1>4, <3>1, DoneAnswers DEF NoHandleGiven
    <2> QED BY <2>1, <2>2
  <1>5. ASSUME Structure, NewPasswordCancelled \/ BoxClosed PROVE NoHandleGiven
    BY <1>5, DoneAnswers, CloseAndFinishAnswers DEF NewPasswordCancelled, BoxClosed
  <1> QED BY <1>1, <1>2, <1>3, <1>4, <1>5, NoHandleIsRight DEF DialogEnds

LEMMA AnswersElsewhere ==
  ASSUME Structure, Requests \/ Calls \/ Timers \/ EmitWalletListDirty \/ Process \/ Environment
  PROVE  AnsweredRight
  <1>1. ASSUME NEW how, Die(how) PROVE NoHandleGiven
    BY <1>1 DEF Die, Unwind, CallersLose, NoHandleGiven, Outcomes
  <1>2. CASE Requests
    <2>1. PICK n \in Name, w \in WId, r \in Request : Open(n, w, r) \/ ChangePassword(n, w, r)
      BY <1>2 DEF Requests
    <2>2. answers' = [answers EXCEPT ![r] = "waiting"] \/ answers' = [answers EXCEPT ![r] = Refused]
      BY <2>1 DEF Open, ChangePassword
    <2>3. answers \in [Request -> Answers]
      BY DEF Structure, TypeOK
    <2>4. NoHandleGiven
      BY <2>2, <2>3 DEF NoHandleGiven, Outcomes
    <2> QED BY <2>4, NoHandleIsRight
  <1>3. CASE Calls \/ Timers \/ EmitWalletListDirty
    <2>0. answers' = answers \/ \E how : Die(how)
      BY <1>3, CallsAnswerNobody
    <2>1. NoHandleGiven
      BY <1>1, <2>0 DEF NoHandleGiven
    <2> QED BY <2>1, NoHandleIsRight
  <1>4. CASE Process \/ Environment
    <2>1. NoHandleGiven
      BY <1>1, <1>4
      DEF Process, Environment, Start, Kill, Quit, Exit, CloseAtExit, ChangeEnabled,
          ExternalRemove, Stop, Unwind, CallersLose, NoHandleGiven, Outcomes
    <2> QED BY <2>1, NoHandleIsRight
  <1> QED BY <1>2, <1>3, <1>4

\* The handle processTransactions() puts into a promise is of the wallet the
\* caller named, in every interleaving: no answer goes to the wrong request.
THEOREM HandlesAreRight == Spec => AnswerIsTheWallet
  <1>1. Structure /\ [Next]_vars =>
          [\A r \in Request, h \in Handle :
             answers[r] = "waiting" /\ answers'[r] = h =>
               /\ h \in Opened'
               /\ \E t \in Pending : t.req = r /\ t.wallet = wallets'[h].name]_vars
    BY AnswersProcessing, AnswersDialogEnds, AnswersElsewhere DEF Next, AnsweredRight
  <1> QED BY <1>1, StructureCorrect, PTL DEF Spec, AnswerIsTheWallet
=============================================================================
