------------------------------ MODULE KSecretD ------------------------------
(***************************************************************************)
(* The wallet daemon of src/src/runtime/ksecretd/ksecretd.cpp: the table   *)
(* of open wallets, the sync and idle timers, the transaction queue and    *)
(* the dialogs shown on its behalf, over the .kwl files.                   *)
(*                                                                         *)
(* The daemon is one thread with one Qt event loop.  A handler runs to its *)
(* end before the next one starts, EXCEPT that a dialog's exec() runs a    *)
(* nested event loop: while stage is one of DialogStages any other handler *)
(* may run, and the suspended transaction resumes afterwards.  While stage *)
(* is "running" or "begin", processTransactions() has the thread and only  *)
(* its own next step is enabled.                                           *)
(***************************************************************************)
EXTENDS Naturals, Sequences, FiniteSets

CONSTANTS
  Name,           \* names a wallet can have
  Handle,         \* values generateHandle() can return
  Request,        \* the open() and changePassword() calls, each made once
  WId,            \* window ids the callers pass
  Password,       \* passwords
  EmptyPassword,  \* the empty one, tried before any dialog is shown
  OpenLimit,      \* the 20 of "_wallets.count() > 20"
  MaxWrites,      \* bound: the changes of contents in one behaviour
  Renames,        \* pairs <<old, new>> clients ask to rename
  Faults,         \* what the environment may do, a subset of AllFaults
  Refused,        \* the answer -1
  Absent, Junk,   \* no .kwl file; one below the 60 bytes exists() asks for
  None            \* no transaction, no backend

AllFaults == {"sync", "open", "rename", "unlink", "external", "disable", "kill"}
Outcomes == {"unasked", "waiting", "done", "gone"}

ASSUME ConstantsAssumption ==
  /\ EmptyPassword \in Password
  /\ OpenLimit \in Nat /\ MaxWrites \in Nat
  /\ Renames \subseteq Name \X Name
  /\ Faults \subseteq AllFaults
  /\ Refused \notin Handle \cup Outcomes
  /\ Handle \cap (Outcomes \cup {None, "freed"}) = {}
  /\ None \notin [type : {"open", "changePassword"}, wallet : Name, wId : WId, req : Request]

VARIABLES
  life,          \* "down", "up", "quitting", or how the process died
  enabled,       \* the two "enabled" settings of kwalletrc
  files,         \* the .kwl file of each name
  wallets,       \* _wallets: the backends by handle
  closeIdle,     \* _closeIdle
  closeTimers,   \* _closeTimers: handles with a running idle timer
  syncTimers,    \* _syncTimers: handles with a running sync timer
  transactions,  \* _transactions
  stage,         \* where processTransactions() is
  current,       \* the transaction it works on
  target,        \* the Backend *w of doTransactionChangePassword()
  reclose,       \* its local of that name
  answers,       \* what each request's promise holds
  writes,        \* number of changes of contents; stamps the contents
  renamedOnto    \* history: names renamed onto while opened or being opened

table == <<wallets, closeTimers, syncTimers>>
queue == <<transactions, stage, current>>
change == <<target, reclose>>
world == <<enabled, writes, renamedOnto>>
vars == <<life, closeIdle, files, table, queue, change, answers, world>>

-----------------------------------------------------------------------------
(* Types *)

Content == [data : Nat, password : Password]
Backend == [name : Name, open : BOOLEAN, cipher : {"blowfish", "unknown"},
            data : Nat, password : Password]
Transaction ==
  [type : {"open", "changePassword"}, wallet : Name, wId : WId, req : Request]

Lives == {"down", "up", "quitting", "killed", "nullptr", "dangling"}
OpenDialogs == {"password", "unreadable", "create"}
DialogStages == OpenDialogs \cup {"newPassword", "unable", "notChanged", "mayBeLost"}
Stages == {"idle", "running", "begin"} \cup DialogStages
Answers == Handle \cup Outcomes \cup {Refused}

IsFile(n) == files[n] \notin {Absent, Junk}     \* Backend::exists()
Opened == DOMAIN wallets
Pending == {transactions[i] : i \in DOMAIN transactions}
           \cup (IF current = None THEN {} ELSE {current})

\* A handler starts only when the event loop, outer or nested, has control.
EventLoop == life = "up" /\ stage \notin {"running", "begin"}

-----------------------------------------------------------------------------
(* The files *)

\* Backend::sync() of b: QSaveFile replaces the whole file or leaves it alone.
Savable(b) == b.open /\ b.cipher = "blowfish" /\ files[b.name] # Absent
Saved(b) ==
  /\ Savable(b)
  /\ files' = [files EXCEPT ![b.name] = [data |-> b.data, password |-> b.password]]
NotSaved(b) ==
  /\ ~Savable(b) \/ "sync" \in Faults
  /\ UNCHANGED files
Sync(b) == Saved(b) \/ NotSaved(b)

\* Backend::open(p) of wallet n leaves isOpen() TRUE: the file's password is p,
\* or there is no wallet yet and an empty one is written in cipher c.  When
\* that write fails, as it must in an unknown cipher, open() returns -2 and
\* isOpen() is TRUE all the same.
Opens(n, p, c) ==
  \/ IsFile(n) /\ files[n].password = p /\ UNCHANGED files
  \/ /\ ~IsFile(n) /\ c = "blowfish"
     /\ files' = [files EXCEPT ![n] = [data |-> 0, password |-> p]]
  \/ /\ ~IsFile(n) /\ (c = "unknown" \/ "sync" \in Faults)
     /\ files' = [files EXCEPT ![n] = Junk]
\* (Mutant: the entries of an existing file are not read.)
OpenBackendEmpty(n, p, c) ==
  [name |-> n, open |-> TRUE, cipher |-> "blowfish", data |-> 0, password |-> p]
OpenBackend(n, p, c) ==
  [name |-> n, open |-> TRUE, cipher |-> IF IsFile(n) THEN "blowfish" ELSE c,
   data |-> IF IsFile(n) THEN files[n].data ELSE 0, password |-> p]

-----------------------------------------------------------------------------
(* The table *)

NoWallets == [h \in {} |-> None]
\* (Mutants: compares nothing; skips a backend that is not open.)
FindAnyWallet(n) == Opened
FindOpenWallet(n) == {h \in Opened : wallets[h].name = n /\ wallets[h].open}
FindWallet(n) == {h \in Opened : wallets[h].name = n}

With(h, b) == [k \in Opened \cup {h} |-> IF k = h THEN b ELSE wallets[k]]

\* _wallets.insert(generateHandle(), b) and the timers that go with it.
Insert(h, b, idle) ==
  /\ h \in Handle \ Opened
  /\ wallets' = With(h, b)
  /\ syncTimers' = syncTimers \cup {h}
  /\ closeTimers' = IF idle THEN closeTimers \cup {h} ELSE closeTimers

\* (Mutant: internalClose() leaves the idle timer running.)
ForgetKeepingTimer(S) ==
  /\ wallets' = [k \in Opened \ S |-> wallets[k]]
  /\ closeTimers' = closeTimers
  /\ syncTimers' = syncTimers \ S
Forget(S) ==
  /\ wallets' = [k \in Opened \ S |-> wallets[k]]
  /\ closeTimers' = IF closeIdle THEN closeTimers \ S ELSE closeTimers
  /\ syncTimers' = syncTimers \ S
\* A suspended doTransactionChangePassword() keeps a pointer to its backend.
\* (Mutant: nobody notices.)
FreedUnnoticed(S) == UNCHANGED target
Freed(S) == target' = IF target \in S THEN "freed" ELSE target

\* internalClose(): whatever close() returns, the backend is deleted.
\* (Mutant: close(false).)
InternalCloseUnsaved(h) == UNCHANGED files /\ Forget({h})
InternalClose(h) == Sync(wallets[h]) /\ Forget({h})

-----------------------------------------------------------------------------
(* Starting and ending the process *)

\* Callers still waiting get no reply, or an error from the bus.
CallersLose == [r \in Request |-> IF answers[r] = "waiting" THEN "gone" ELSE answers[r]]

Unwind ==
  /\ closeTimers' = {} /\ syncTimers' = {}
  /\ transactions' = <<>> /\ stage' = "idle" /\ current' = None
  /\ target' = None /\ reclose' = FALSE
  /\ answers' = CallersLose

\* The process ends at once.  "nullptr" and "dangling": the code uses a null or
\* a deleted Backend, which is undefined; the model follows it no further.
Die(how) ==
  /\ life' = how
  /\ wallets' = NoWallets
  /\ Unwind
  /\ UNCHANGED <<closeIdle, world>>
Stop(how) == Die(how) /\ UNCHANGED files

\* main(), without or with a password hash from PAM.  pamOpen() runs before
\* the event loop does, on an empty table; it gives up when the file is below
\* 60 bytes, the hash is wrong, or the new file cannot be written.
Start ==
  /\ life \notin {"up", "quitting"} /\ enabled
  /\ life' = "up"
  /\ closeIdle' \in BOOLEAN
  /\ \/ UNCHANGED <<files, table>>
     \/ /\ \E n \in Name, p \in Password, h \in Handle :
             /\ files[n] # Junk
             /\ Opens(n, p, "blowfish") /\ files'[n] # Junk
             /\ Insert(h, OpenBackend(n, p, "blowfish"), closeIdle')
     \/ /\ "sync" \in Faults
        /\ \E n \in Name : files[n] = Absent /\ files' = [files EXCEPT ![n] = Junk]
        /\ UNCHANGED table
  /\ UNCHANGED <<queue, change, answers, world>>

Kill ==
  /\ "kill" \in Faults
  /\ life \in {"up", "quitting"}
  /\ Stop("killed")

\* QCoreApplication::quit(): every nested exec() returns as if cancelled, so a
\* suspended change of password closes a wallet it opened itself.
Quit ==
  /\ EventLoop
  /\ IF reclose /\ target = "freed"
     THEN Stop("dangling")
     ELSE /\ life' = "quitting"
          /\ Unwind
          /\ UNCHANGED <<wallets, closeIdle, files, world>>

\* ~KSecretD() saves the wallets one after the other.
CloseAtExit(h) ==
  /\ life = "quitting" /\ h \in Opened
  /\ InternalClose(h)
  /\ UNCHANGED <<life, closeIdle, queue, change, answers, world>>
Exit ==
  /\ life = "quitting" /\ Opened = {}
  /\ life' = "down"
  /\ UNCHANGED <<closeIdle, files, table, queue, change, answers, world>>

-----------------------------------------------------------------------------
(* The queue *)

\* open(): refused at once while the daemon is disabled.
Open(n, w, r) ==
  /\ EventLoop /\ answers[r] = "unasked"
  /\ IF enabled
     THEN /\ answers' = [answers EXCEPT ![r] = "waiting"]
          /\ transactions' = Append(transactions,
               [type |-> "open", wallet |-> n, wId |-> w, req |-> r])
     ELSE /\ answers' = [answers EXCEPT ![r] = Refused]
          /\ UNCHANGED transactions
  /\ UNCHANGED <<life, closeIdle, files, table, stage, current, change, world>>

ChangePassword(n, w, r) ==
  /\ EventLoop /\ answers[r] = "unasked"
  /\ answers' = [answers EXCEPT ![r] = "waiting"]
  /\ transactions' = Append(transactions,
       [type |-> "changePassword", wallet |-> n, wId |-> w, req |-> r])
  /\ UNCHANGED <<life, closeIdle, files, table, stage, current, change, world>>

\* QTimer::singleShot(0, this, processTransactions), when not _processing.
StartProcessing ==
  /\ life = "up" /\ stage = "idle" /\ transactions # <<>>
  /\ stage' = "running"
  /\ UNCHANGED <<life, closeIdle, files, table, transactions, current, change, answers, world>>

\* (Mutant: the whole deque is taken, its head is used.)
PopAll ==
  /\ life = "up" /\ stage = "running" /\ transactions # <<>>
  /\ current' = Head(transactions) /\ transactions' = <<>>
  /\ stage' = "begin"
  /\ UNCHANGED <<life, closeIdle, files, table, change, answers, world>>
Pop ==
  /\ life = "up" /\ stage = "running" /\ transactions # <<>>
  /\ current' = Head(transactions) /\ transactions' = Tail(transactions)
  /\ stage' = "begin"
  /\ UNCHANGED <<life, closeIdle, files, table, change, answers, world>>

EndProcessing ==
  /\ life = "up" /\ stage = "running" /\ transactions = <<>>
  /\ stage' = "idle"
  /\ UNCHANGED <<life, closeIdle, files, table, transactions, current, change, answers, world>>

-----------------------------------------------------------------------------
(* How internalOpen() returns *)

\* The end of a transaction: the loop of processTransactions() goes on.
Finish(replies) ==
  /\ stage' = "running" /\ current' = None
  /\ target' = None /\ reclose' = FALSE
  /\ answers' = [r \in Request |->
       IF r \in DOMAIN replies /\ answers[r] = "waiting" THEN replies[r] ELSE answers[r]]

Succeed(h, isNew) ==
  IF current.type = "open"
  THEN Finish([r \in {current.req} |-> h])
  ELSE /\ stage' = "newPassword" /\ target' = h /\ reclose' = isNew
       /\ UNCHANGED <<current, answers>>

\* A failed open also answers the same client's other opens of the wallet;
\* they stay in the queue.
SameClient ==
  {t \in Pending : t.type = "open" /\ t.wallet = current.wallet /\ t.wId = current.wId}
\* (Mutant: the others are answered, the caller itself is not.)
FailOthersOnly ==
  IF current.type = "open"
  THEN Finish([r \in {t.req : t \in SameClient \ {current}} |-> Refused])
  ELSE stage' = "unable" /\ UNCHANGED <<current, change, answers>>
Fail ==
  IF current.type = "open"
  THEN Finish([r \in {t.req : t \in SameClient} |-> Refused])
  ELSE stage' = "unable" /\ UNCHANGED <<current, change, answers>>

-----------------------------------------------------------------------------
(* internalOpen() *)

Beginning == life = "up" /\ stage = "begin"
\* (Mutants: one too many; no look at the table.)
UnopenedOneMore ==
  FindWallet(current.wallet) = {} /\ Cardinality(Opened) =< OpenLimit + 1
UnopenedUnchecked == Cardinality(Opened) =< OpenLimit
Unopened == FindWallet(current.wallet) = {} /\ Cardinality(Opened) =< OpenLimit

OpenFound(h) ==
  /\ Beginning /\ h \in FindWallet(current.wallet)
  /\ Succeed(h, FALSE)
  /\ UNCHANGED <<life, closeIdle, files, table, transactions, world>>

OpenTooMany ==
  /\ Beginning /\ FindWallet(current.wallet) = {} /\ Cardinality(Opened) > OpenLimit
  /\ Fail
  /\ UNCHANGED <<life, closeIdle, files, table, transactions, world>>

\* The wallet is encrypted with the empty password: no dialog is shown.
OpenWithoutDialog(h) ==
  /\ Beginning /\ Unopened /\ IsFile(current.wallet)
  /\ Opens(current.wallet, EmptyPassword, "unknown")
  /\ Insert(h, OpenBackend(current.wallet, EmptyPassword, "unknown"), closeIdle)
  /\ Succeed(h, TRUE)
  /\ UNCHANGED <<life, closeIdle, transactions, world>>

\* The attempt with the empty password read the header, which tells the cipher,
\* or did not ("unreadable"); or there is nothing to read.
ShowOpenDialog ==
  /\ Beginning /\ Unopened
  /\ \/ /\ IsFile(current.wallet)
        /\ files[current.wallet].password # EmptyPassword \/ "open" \in Faults
        /\ stage' = "password"
     \/ /\ IsFile(current.wallet) /\ "open" \in Faults
        /\ stage' = "unreadable"
     \/ ~IsFile(current.wallet) /\ stage' = "create"
  /\ UNCHANGED <<life, closeIdle, files, table, transactions, current, change, answers, world>>

\* The dialog is accepted with a password that opens the wallet; one that does
\* not shows the dialog again.  What is on disk NOW decides: a wallet may have
\* lost its file, or a name gained one, since the dialog was chosen.
DialogCipher == IF stage = "unreadable" THEN "unknown" ELSE "blowfish"
OpenDialogAccepted(p, h) ==
  /\ life = "up" /\ stage \in OpenDialogs
  /\ Opens(current.wallet, p, DialogCipher)
  /\ Insert(h, OpenBackend(current.wallet, p, DialogCipher), closeIdle)
  /\ Succeed(h, TRUE)
  /\ UNCHANGED <<life, closeIdle, transactions, world>>

\* A wrong password, but this time the header could be read.
OpenDialogRetried ==
  /\ life = "up" /\ stage = "unreadable" /\ IsFile(current.wallet)
  /\ stage' = "password"
  /\ UNCHANGED <<life, closeIdle, files, table, transactions, current, change, answers, world>>

\* "cipherType() == BACKEND_CIPHER_BLOWFISH && ... !b->isOpen()" is what refuses:
\* a cancelled dialog inserts the unopened backend while the cipher is unknown.
OpenDialogCancelled(h) ==
  /\ life = "up" /\ stage \in OpenDialogs
  /\ IF stage = "unreadable"
     THEN /\ Insert(h, [name |-> current.wallet, open |-> FALSE, cipher |-> "unknown",
                        data |-> 0, password |-> EmptyPassword], closeIdle)
          /\ Succeed(h, TRUE)
     ELSE Fail /\ UNCHANGED table
  /\ UNCHANGED <<life, closeIdle, files, transactions, world>>

-----------------------------------------------------------------------------
(* doTransactionChangePassword() *)

Done == Finish([r \in {current.req} |-> "done"])

\* internalClose(w, handle) at the end of a change; w may be gone by then.
CloseAndFinish ==
  \/ /\ target # "freed"
     /\ InternalClose(target)
     /\ Done
     /\ UNCHANGED <<life, closeIdle, transactions, world>>
  \/ target = "freed" /\ Stop("dangling")

\* setPassword(), close(true) and open() of the backend w points to.
NewPasswordAccepted(p) ==
  /\ life = "up" /\ stage = "newPassword"
  /\ IF target = "freed"
     THEN Stop("dangling")
     ELSE LET b == [wallets[target] EXCEPT !.password = p] IN
          /\ \/ /\ Saved(b)
                /\ IF reclose
                   THEN Forget({target})
                   ELSE wallets' = With(target, b) /\ UNCHANGED <<closeTimers, syncTimers>>
                /\ Done
             \/ /\ Saved(b) /\ "open" \in Faults
                /\ wallets' = With(target, [b EXCEPT !.open = FALSE])
                /\ stage' = "mayBeLost" /\ reclose' = TRUE
                /\ UNCHANGED <<closeTimers, syncTimers, current, target, answers>>
             \/ /\ NotSaved(b)
                /\ wallets' = With(target, b)
                /\ stage' = "notChanged" /\ reclose' = TRUE
                /\ UNCHANGED <<closeTimers, syncTimers, current, target, answers>>
          /\ UNCHANGED <<life, closeIdle, transactions, world>>

NewPasswordCancelled ==
  /\ life = "up" /\ stage = "newPassword"
  /\ \/ reclose /\ CloseAndFinish
     \/ /\ ~reclose /\ Done
        /\ UNCHANGED <<life, closeIdle, files, table, transactions, world>>

\* "Unable to open wallet." / "... Password was not changed." / "Error
\* reopening the wallet. Data may be lost."
BoxClosed ==
  /\ life = "up"
  /\ \/ /\ stage = "unable" /\ Done
        /\ UNCHANGED <<life, closeIdle, files, table, transactions, world>>
     \/ stage \in {"notChanged", "mayBeLost"} /\ CloseAndFinish

-----------------------------------------------------------------------------
(* Calls, timers and the directory watch *)

Close(h) ==
  /\ EventLoop /\ h \in Opened
  /\ InternalClose(h) /\ Freed({h})
  /\ UNCHANGED <<life, closeIdle, queue, reclose, answers, world>>

TimedOutClose(h) ==
  /\ EventLoop /\ h \in closeTimers /\ h \in Opened
  /\ InternalClose(h) /\ Freed({h})
  /\ UNCHANGED <<life, closeIdle, queue, reclose, answers, world>>

TimedOutSync(h) ==
  /\ EventLoop /\ h \in syncTimers
  /\ syncTimers' = syncTimers \ {h}
  /\ IF h \in Opened THEN Sync(wallets[h]) ELSE UNCHANGED files
  /\ UNCHANGED <<life, closeIdle, wallets, closeTimers, queue, change, answers, world>>

\* writeEntry() and the other calls that change contents: 0 whatever the
\* backend does, which is nothing when it is not open.
\* (Mutant: no initiateSync().)
WriteEntryUnsynced(h) ==
  /\ EventLoop /\ h \in Opened /\ writes < MaxWrites
  /\ writes' = writes + 1
  /\ wallets' = [wallets EXCEPT ![h].data = IF wallets[h].open THEN writes + 1 ELSE @]
  /\ UNCHANGED <<life, enabled, closeIdle, files, closeTimers, syncTimers, queue, change, answers,
                 renamedOnto>>
WriteEntry(h) ==
  /\ EventLoop /\ h \in Opened /\ writes < MaxWrites
  /\ writes' = writes + 1
  /\ wallets' = [wallets EXCEPT ![h].data = IF wallets[h].open THEN writes + 1 ELSE @]
  /\ syncTimers' = syncTimers \cup {h}
  /\ UNCHANGED <<life, enabled, closeIdle, files, closeTimers, queue, change, answers, renamedOnto>>

\* deleteWallet(): internalClose() of whatever findWallet() returns, which is
\* a null backend for a wallet that is not open.  The file is removed, or, when
\* that fails, walletDeleted() makes the collection of the wallet, which has
\* just been closed, call deleteWallet() again.
DeleteWallet(n) ==
  /\ EventLoop /\ files[n] # Absent
  /\ \/ FindWallet(n) = {} /\ Stop("nullptr")
     \/ \E h \in FindWallet(n) :
          /\ files' = [files EXCEPT ![n] = Absent]
          /\ Forget({h}) /\ Freed({h})
          /\ UNCHANGED <<life, closeIdle, queue, reclose, answers, world>>
     \/ /\ "unlink" \in Faults
        /\ \E h \in FindWallet(n) : Sync(wallets[h])
        /\ Die("nullptr")

\* renameWallet(), for a collection's setLabel(); it does not ask whether the
\* wallet is open.
RenameLocked(o, n) ==
  /\ EventLoop /\ <<o, n>> \in Renames /\ o # n
  /\ FindWallet(o) = {}
  /\ Stop("nullptr")

RenameWallet(o, n, h) ==
  /\ EventLoop /\ <<o, n>> \in Renames /\ o # n
  /\ h \in FindWallet(o) /\ files[n] = Absent
  /\ LET b == wallets[h]
         moved == [b EXCEPT !.name = n]
         saved == [data |-> b.data, password |-> b.password]
         anew == [data |-> 0, password |-> b.password]
     IN /\ Savable(b)
        /\ \/ /\ files' = [files EXCEPT ![o] = Absent, ![n] = saved]
              /\ wallets' = With(h, moved)
           \/ /\ "open" \in Faults
              /\ files' = [files EXCEPT ![o] = Absent, ![n] = saved]
              /\ wallets' = With(h, [moved EXCEPT !.open = FALSE])
           \/ \* QFile::rename() fails and nobody looks: an empty wallet is made
              /\ "rename" \in Faults
              /\ files' = [files EXCEPT ![o] = saved, ![n] = anew]
              /\ wallets' = With(h, [moved EXCEPT !.data = 0])
  /\ renamedOnto' = renamedOnto \cup
       (IF FindWallet(n) # {} \/ (stage \in OpenDialogs /\ current.wallet = n)
        THEN {n} ELSE {})
  /\ UNCHANGED <<life, enabled, writes, closeIdle, closeTimers, syncTimers, queue, change, answers>>

\* emitWalletListDirty(): wallets whose file is gone are closed unsaved.
Gone == {h \in Opened : files[wallets[h].name] = Absent}
EmitWalletListDirty ==
  /\ EventLoop /\ Gone # {}
  /\ Forget(Gone) /\ Freed(Gone)
  /\ UNCHANGED <<life, closeIdle, files, queue, reclose, answers, world>>

-----------------------------------------------------------------------------
(* The environment *)

\* Somebody removes a .kwl file, at any time.
ExternalRemove(n) ==
  /\ "external" \in Faults /\ files[n] # Absent
  /\ files' = [files EXCEPT ![n] = Absent]
  /\ UNCHANGED <<life, closeIdle, table, queue, change, answers, world>>

ChangeEnabled ==
  /\ "disable" \in Faults
  /\ enabled' = ~enabled
  /\ UNCHANGED <<life, closeIdle, files, table, queue, change, answers, writes, renamedOnto>>

-----------------------------------------------------------------------------
Init ==
  /\ life = "down" /\ closeIdle = FALSE
  /\ enabled = TRUE
  /\ files \in [Name -> {Absent, Junk} \cup [data : {0}, password : Password]]
  /\ wallets = NoWallets /\ closeTimers = {} /\ syncTimers = {}
  /\ transactions = <<>> /\ stage = "idle" /\ current = None
  /\ target = None /\ reclose = FALSE
  /\ answers = [r \in Request |-> "unasked"]
  /\ writes = 0 /\ renamedOnto = {}

Processing ==
  \/ StartProcessing \/ Pop \/ EndProcessing
  \/ OpenTooMany \/ ShowOpenDialog
  \/ \E h \in Handle : OpenFound(h) \/ OpenWithoutDialog(h)
DialogEnds ==
  \/ \E p \in Password, h \in Handle : OpenDialogAccepted(p, h)
  \/ OpenDialogRetried
  \/ \E h \in Handle : OpenDialogCancelled(h)
  \/ \E p \in Password : NewPasswordAccepted(p)
  \/ NewPasswordCancelled
  \/ BoxClosed
Requests ==
  \E n \in Name, w \in WId, r \in Request : Open(n, w, r) \/ ChangePassword(n, w, r)
Calls ==
  \/ \E h \in Handle : Close(h) \/ WriteEntry(h)
  \/ \E n \in Name : DeleteWallet(n)
  \/ \E o, n \in Name : RenameLocked(o, n)
  \/ \E o, n \in Name, h \in Handle : RenameWallet(o, n, h)
Timers == \E h \in Handle : TimedOutClose(h) \/ TimedOutSync(h)
Process == Start \/ Kill \/ Quit \/ Exit \/ \E h \in Handle : CloseAtExit(h)
Environment == ChangeEnabled \/ \E n \in Name : ExternalRemove(n)

Next ==
  Processing \/ DialogEnds \/ Requests \/ Calls \/ Timers \/ EmitWalletListDirty
  \/ Process \/ Environment

Spec == Init /\ [][Next]_vars

-----------------------------------------------------------------------------
(* Properties *)

TypeOK ==
  /\ life \in Lives /\ enabled \in BOOLEAN /\ closeIdle \in BOOLEAN
  /\ files \in [Name -> {Absent, Junk} \cup Content]
  /\ Opened \subseteq Handle /\ wallets \in [Opened -> Backend]
  /\ closeTimers \subseteq Handle /\ syncTimers \subseteq Handle
  /\ transactions \in Seq(Transaction)
  /\ stage \in Stages
  /\ current \in Transaction \cup {None}
  /\ target \in Handle \cup {None, "freed"} /\ reclose \in BOOLEAN
  /\ answers \in [Request -> Answers]
  /\ writes \in Nat /\ renamedOnto \subseteq Name

\* The three places that add, reset and remove timers agree with the table: an
\* idle timer runs for each open wallet exactly when the setting asks for it,
\* and no timer outlives its handle, which generateHandle() may hand out again.
TimersMatchTable ==
  life = "up" =>
    /\ closeTimers = IF closeIdle THEN Opened ELSE {}
    /\ syncTimers \subseteq Opened

\* findWallet() finds THE backend of a wallet: two over one file would overwrite
\* each other's entries.  internalOpen() looks before its dialog and inserts
\* after it; only a rename onto the name can come between.
UniqueOpen ==
  \A g, h \in Opened :
    wallets[g].name = wallets[h].name => g = h \/ wallets[g].name \in renamedOnto

\* "_wallets.count() > 20" is tested before the dialog and the insertion comes
\* after it: whatever happens meanwhile, one wallet more than that is the most.
BoundedOpen == Cardinality(Opened) =< OpenLimit + 1

\* A caller that waits is a transaction queued or in progress, so a crash aside
\* somebody will answer it.
WaitingIsPending ==
  \A r \in Request : answers[r] = "waiting" => \E t \in Pending : t.req = r

\* Contents newer than their file have a running sync timer: no call that
\* changes contents, nor a save in between, leaves them to the final close.
DirtyHasTimer ==
  "sync" \notin Faults =>
    \A h \in Opened :
      /\ life = "up" /\ wallets[h].open /\ IsFile(wallets[h].name)
      /\ wallets[h].name \notin renamedOnto
      /\ files[wallets[h].name].data # wallets[h].data
      => h \in syncTimers

\* A .kwl file never goes back to older contents: no save comes from a backend
\* that missed a change, however saves, changes of password and renames mix.
NoStaleWriteBack ==
  [][\A n \in Name \ renamedOnto' :
       IsFile(n) /\ IsFile(n)' => files'[n].data >= files[n].data]_vars

\* The handle a caller gets is, at that moment, of the wallet it asked for.
AnswerIsTheWallet ==
  [][\A r \in Request, h \in Handle :
       answers[r] = "waiting" /\ answers'[r] = h =>
         /\ h \in Opened'
         /\ \E t \in Pending : t.req = r /\ t.wallet = wallets'[h].name]_vars

-----------------------------------------------------------------------------
(* What makes the invariants inductive *)

QueueConsistent ==
  /\ stage \in {"idle", "running"} <=> current = None
  /\ life # "up" => stage = "idle" /\ closeTimers = {} /\ syncTimers = {}
  /\ life \notin {"up", "quitting"} => Opened = {}
TargetConsistent ==
  IF stage \in {"newPassword", "notChanged", "mayBeLost"}
  THEN target \in Opened \cup {"freed"} ELSE target = None
\* What internalOpen() found before its dialog still holds when the user ends
\* it: nobody opened the wallet meanwhile and there is room for one more.
DialogConsistent ==
  stage \in OpenDialogs =>
    /\ Cardinality(Opened) =< OpenLimit
    /\ FindWallet(current.wallet) = {} \/ current.wallet \in renamedOnto

\* The types, and how a suspended transaction, its backend and the process hang
\* together: whoever closes a wallet leaves a change of password in progress
\* with a backend that is in the table or known to be gone.
Structure == TypeOK /\ QueueConsistent /\ TargetConsistent

-----------------------------------------------------------------------------
(* Progress *)

\* The event loop runs the queue and fires the directory watch and each sync
\* timer, the destructor ends, and the user ends each dialog some time.  Each
\* change of contents starts the 5 s of its sync timer anew, so that the timer
\* fires at all rests on MaxWrites: a client that never pauses puts it off.
FairSpec ==
  /\ Spec
  /\ WF_vars(Processing) /\ WF_vars(DialogEnds)
  /\ \A h \in Handle : WF_vars(TimedOutSync(h))
  /\ WF_vars(EmitWalletListDirty) /\ WF_vars(\E h \in Handle : CloseAtExit(h))

\* Every caller of open() or changePassword() is answered, or the process ends:
\* no transaction waits behind a dialog, a failure or a nested event loop for ever.
EveryCallerAnswered ==
  \A r \in Request : answers[r] = "waiting" ~> answers[r] # "waiting"

\* While saving works, contents newer than their file reach the disk, or the
\* wallet or the process goes.  Of two backends over one file one may stay behind.
Dirty(n) ==
  \E h \in FindWallet(n) :
    Savable(wallets[h])
    /\ files[n] # [data |-> wallets[h].data, password |-> wallets[h].password]
ChangesReachDisk == \A n \in Name : Dirty(n) ~> ~Dirty(n) \/ n \in renamedOnto

-----------------------------------------------------------------------------
(* What an assertion says, and the code does not keep *)

\* "assert(w)": the change of password works on a backend that exists.
BackendOutlivesChange == life # "dangling"
=============================================================================
