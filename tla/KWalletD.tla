------------------------------ MODULE KWalletD ------------------------------
(***************************************************************************)
(* kwalletd, the proxy of the old KWallet interface                        *)
(* (src/src/runtime/kwalletd/{kwalletd,secretserviceclient}.cpp), between  *)
(* the KWallet::Wallet objects of applications                             *)
(* (src/src/api/KWallet/kwallet.cpp) and a Secret Service: who believes    *)
(* which wallet to be open.                                                *)
(*                                                                         *)
(* Three kinds of processes.  The service locks and unlocks wallets and    *)
(* sends notices.  kwalletd keeps a session for each open() and handles    *)
(* one call or notice at a time; while libsecret waits for the user it is  *)
(* blocked and handles nothing.  An application blocks in its calls and    *)
(* handles the signals of kwalletd, which queue up meanwhile, afterwards.  *)
(***************************************************************************)
EXTENDS Naturals, Sequences, FiniteSets

CONSTANTS
  Name,        \* wallets
  App,         \* application names, what appid() returns
  Process,     \* client processes; several may have one application name
  Object,      \* KWallet::Wallet objects, each used for one openWallet()
  Owner,       \* the process of each object
  OpenType,    \* {"Synchronous", "Asynchronous"} or one of them
  Faults,      \* what the environment may do, a subset of AllFaults
  MaxNotices,  \* bound: notices on their way when the service changes something
  MaxSignals,  \* bound: signals that applications have not handled when kwalletd dies
  None         \* no object, no name, no call in progress

AllFaults == {"refuse", "lock", "delete", "serviceDies", "kwalletdDies"}

ASSUME ConstantsAssumption ==
  /\ Owner \in [Object -> Process]
  /\ OpenType \subseteq {"Synchronous", "Asynchronous"}
  /\ Faults \subseteq AllFaults
  /\ MaxNotices \in Nat /\ MaxSignals \in Nat
  /\ None \notin Name \cup Object
  /\ None \notin [wallet : Name, app : App, tid : Nat, object : Object]
  /\ {"gone", "new"} \cap Name = {}

VARIABLES
  serviceUp,  \* the Secret Service has an owner on the bus
  exists,     \* its collections, by label
  unlocked,   \* those that are unlocked
  notices,    \* its signals on the way to kwalletd: CollectionChanged, owner changes
  alive,      \* kwalletd runs
  sessions,   \* m_openWallets: the wallet by <<handle, application>>
  jobs,       \* open() calls waiting and openInternal() timers of openAsync()
  busy,       \* the one whose create or unlock prompt kwalletd is blocked in
  lastTid,    \* s_lastTransaction
  drawn,      \* handles drawn so far: random numbers, no two alike
  appid,      \* application name of each process
  objects,    \* the Wallet objects
  inbox,      \* signals of kwalletd that a process has not handled
  unheard,    \* history: handles whose session was closed without a signal
  outdated,   \* history: objects with a transaction id that a kwalletd that died may have used
  failed      \* history: objects whose openAsync() failed in openInternal()

service == <<serviceUp, exists, unlocked, notices>>
kwalletd == <<alive, sessions, jobs, busy, lastTid, drawn>>
clients == <<appid, objects, inbox>>
history == <<unheard, outdated, failed>>
vars == <<service, kwalletd, clients, history>>

-----------------------------------------------------------------------------
(* Types *)

Handle == Nat
Job == [wallet : Name, app : App, tid : Nat, object : Object]  \* tid 0: open()
WalletObject ==
  [phase : {"new", "calling", "waiting", "open", "closed", "deleted"},
   asked : Name \cup {None},    \* the wallet openWallet() was called for
   name : Name \cup {None},     \* d->name
   type : {"Synchronous", "Asynchronous"},
   tid : Nat,                   \* d->transactionId
   handle : Handle]             \* d->handle, 0 for -1
Signal ==
  [type : {"walletAsyncOpened"}, tid : Nat, handle : Handle]
  \cup [type : {"walletClosedId"}, handle : Handle]
  \cup [type : {"applicationDisconnected"}, wallets : SUBSET Name]
  \cup [type : {"serviceUnregistered"}]

NewObject == [phase |-> "new", asked |-> None, name |-> None, type |-> "Synchronous",
              tid |-> 0, handle |-> 0]
DeletedObject == [NewObject EXCEPT !.phase = "deleted"]
NoSessions == [s \in {} |-> None]
AppOf(o) == appid[Owner[o]]
Queued(q) == {q[i] : i \in DOMAIN q}

\* An application that waits for the reply of open() handles nothing else.
Runs(p) == \A o \in Object : Owner[o] = p => objects[o].phase # "calling"
\* kwalletd handles a call, a timer or a notice.
Free == alive /\ busy = None
\* A notice to nobody is lost.
Noticed(n) == IF alive THEN Append(notices, n) ELSE notices

-----------------------------------------------------------------------------
(* Closing sessions, and who is told *)

SessionsOf(n) == {s \in DOMAIN sessions : sessions[s] = n}
Apps(S) == {s[2] : s \in S}
Without(S) == [s \in DOMAIN sessions \ S |-> sessions[s]]

\* applicationDisconnected(n, a) for the wallets n of each application a; the
\* slot of other applications ignores it.
Told(wallets) ==
  [p \in Process |->
     IF wallets[appid[p]] = {} THEN inbox[p]
     ELSE Append(inbox[p], [type |-> "applicationDisconnected", wallets |-> wallets[appid[p]]])]
Broadcast(m, box) == [p \in Process |-> Append(box[p], m)]

\* close(n, true): only an application that has no session left, of any
\* wallet, is told.
\* (Mutant: nobody is told.)
CloseWalletSilently(n) ==
  LET S == SessionsOf(n) IN
  /\ sessions' = Without(S)
  /\ UNCHANGED <<inbox, unheard>>
CloseWallet(n) ==
  LET S == SessionsOf(n)
      left == Apps(DOMAIN sessions \ S)
  IN /\ sessions' = Without(S)
     /\ inbox' = Told([a \in App |-> IF a \in Apps(S) \ left THEN {n} ELSE {}])
     /\ unheard' = unheard \cup {s[1] : s \in {t \in S : t[2] \in left}}

\* closeAllWallets()
CloseAllWallets ==
  /\ sessions' = NoSessions
  /\ inbox' = Told([a \in App |-> {sessions[s] : s \in {t \in DOMAIN sessions : t[2] = a}}])
  /\ UNCHANGED unheard

-----------------------------------------------------------------------------
(* openWallet() *)

\* open(): the reply comes when openInternal() is done.
OpenWallet(o, n) ==
  /\ Runs(Owner[o]) /\ objects[o].phase = "new" /\ "Synchronous" \in OpenType
  /\ alive
  /\ objects' = [objects EXCEPT ![o] = [@ EXCEPT !.phase = "calling", !.asked = n, !.name = n]]
  /\ jobs' = jobs \cup {[wallet |-> n, app |-> AppOf(o), tid |-> 0, object |-> o]}
  /\ UNCHANGED <<service, alive, sessions, busy, lastTid, drawn, appid, inbox, history>>

\* openAsync(): the reply comes at once, and openInternal() from a timer.  Ids start
\* again with each kwalletd: a process that has yet to handle what the last one sent
\* may find the new id in it.
OpenWalletAsync(o, n) ==
  /\ Runs(Owner[o]) /\ objects[o].phase = "new" /\ "Asynchronous" \in OpenType
  /\ Free
  /\ lastTid' = lastTid + 1
  /\ objects' = [objects EXCEPT ![o] =
       [@ EXCEPT !.phase = "waiting", !.asked = n, !.name = n,
                 !.type = "Asynchronous", !.tid = lastTid + 1]]
  /\ jobs' = jobs \cup {[wallet |-> n, app |-> AppOf(o), tid |-> lastTid + 1, object |-> o]}
  /\ outdated' = IF [type |-> "serviceUnregistered"] \in Queued(inbox[Owner[o]])
                 THEN outdated \cup {o} ELSE outdated
  /\ UNCHANGED <<service, alive, sessions, busy, drawn, appid, inbox, unheard, failed>>

\* openInternal() has its wallet unlocked: a session with a new handle.
Opened(j) ==
  LET h == drawn + 1 IN
  /\ drawn' = h
  /\ sessions' = [s \in DOMAIN sessions \cup {<<h, j.app>>} |->
                    IF s = <<h, j.app>> THEN j.wallet ELSE sessions[s]]
  /\ IF j.tid = 0
     THEN /\ objects' = [objects EXCEPT ![j.object].phase = "open", ![j.object].handle = h]
          /\ UNCHANGED inbox
     ELSE /\ inbox' = Broadcast([type |-> "walletAsyncOpened", tid |-> j.tid, handle |-> h], inbox)
          /\ UNCHANGED objects

\* It fails: open() returns -1, the timer of openAsync() just returns.
\* (Mutant: the caller of open() gets no reply.)
OpenFailedUnanswered(j) ==
  IF j.tid = 0
  THEN UNCHANGED <<objects, failed>>
  ELSE failed' = failed \cup {j.object} /\ UNCHANGED objects
OpenFailed(j) ==
  IF j.tid = 0
  THEN /\ objects' = [objects EXCEPT ![j.object] = DeletedObject]
       /\ UNCHANGED failed
  ELSE failed' = failed \cup {j.object} /\ UNCHANGED objects

\* unlockCollection() asks the proxy whether the collection is locked.  What the
\* proxy has cached is old while a notice of a change is on its way.
SeenUnlocked(n) ==
  n \in exists /\ (n \in unlocked \/ {n, "gone"} \cap Queued(notices) # {})
OpenUnlocked(j) ==
  /\ Free /\ j \in jobs
  /\ serviceUp /\ SeenUnlocked(j.wallet)
  /\ Opened(j)
  /\ jobs' = jobs \ {j}
  /\ UNCHANGED <<service, alive, busy, lastTid, appid, history>>

\* createCollection() or unlockCollection() prompts, or waits for a service that
\* is being activated.
ShowPrompt(j) ==
  /\ Free /\ j \in jobs
  /\ ~(serviceUp /\ j.wallet \in unlocked)
  /\ jobs' = jobs \ {j} /\ busy' = j
  /\ UNCHANGED <<service, alive, sessions, lastTid, drawn, clients, history>>

\* The user accepts: the collection is created or unlocked (one deleted while it
\* was prompted for is taken to be created).
PromptAccepted ==
  /\ alive /\ busy # None /\ serviceUp
  /\ exists' = exists \cup {busy.wallet} /\ unlocked' = unlocked \cup {busy.wallet}
  /\ notices' = Append(notices, busy.wallet)
  /\ Opened(busy)
  /\ busy' = None
  /\ UNCHANGED <<serviceUp, alive, jobs, lastTid, appid, history>>

PromptRefused ==
  /\ alive /\ busy # None
  /\ "refuse" \in Faults \/ ~serviceUp
  /\ OpenFailed(busy)
  /\ busy' = None
  /\ UNCHANGED <<service, alive, sessions, jobs, lastTid, drawn, appid, inbox, unheard, outdated>>

-----------------------------------------------------------------------------
(* Other calls of applications, each with its reply *)

\* close(handle, true, appid), of lockWallet()
LockWallet(o) ==
  /\ Runs(Owner[o]) /\ Free /\ objects[o].phase = "open"
  /\ objects' = [objects EXCEPT ![o] = [@ EXCEPT !.phase = "closed", !.name = None, !.handle = 0]]
  /\ LET s == <<objects[o].handle, AppOf(o)>>
         closed == Broadcast([type |-> "walletClosedId", handle |-> s[1]], inbox)
         last == [type |-> "applicationDisconnected", wallets |-> {sessions[s]}]
     IN IF s \notin DOMAIN sessions
        THEN UNCHANGED <<sessions, inbox>>
        ELSE /\ sessions' = Without({s})
             /\ inbox' = [p \in Process |->
                  IF appid[p] = s[2] /\ s[2] \notin Apps(DOMAIN sessions \ {s})
                  THEN Append(closed[p], last) ELSE closed[p]]
  /\ UNCHANGED <<service, alive, jobs, busy, lastTid, drawn, appid, history>>

\* ~Wallet() calls close(handle, false, appid), which returns 1 and does nothing.
DeleteObject(o) ==
  /\ Runs(Owner[o]) /\ objects[o].phase \in {"waiting", "open", "closed"}
  /\ objects[o].phase = "open" => Free
  /\ objects' = [objects EXCEPT ![o] = DeletedObject]
  /\ UNCHANGED <<service, kwalletd, appid, inbox, history>>

\* The static closeWallet(n, true)
CallCloseWallet(n) ==
  /\ Free /\ SessionsOf(n) # {}
  /\ CloseWallet(n)
  /\ UNCHANGED <<service, alive, jobs, busy, lastTid, drawn, appid, objects, outdated, failed>>

DisconnectApplication(n, a) ==
  /\ Free
  /\ LET S == {s \in SessionsOf(n) : s[2] = a} IN
     /\ S # {}
     /\ sessions' = Without(S)
     /\ inbox' = Told([b \in App |-> IF b = a THEN {n} ELSE {}])
  /\ UNCHANGED <<service, alive, jobs, busy, lastTid, drawn, appid, objects, history>>

\* closeAllWallets(), also of reconfigure() when the wallet system is disabled
CallCloseAllWallets ==
  /\ Free /\ DOMAIN sessions # {}
  /\ CloseAllWallets
  /\ UNCHANGED <<service, alive, jobs, busy, lastTid, drawn, appid, objects, outdated, failed>>

-----------------------------------------------------------------------------
(* Notices of the service *)

\* onCollectionChanged() reads the label and Locked as they are NOW; when the
\* collection or the service is gone the reading fails.
\* (Mutant: the lock is not looked at.)
CollectionChangedIgnored(n) == UNCHANGED <<sessions, inbox, unheard>>
CollectionChanged(n) ==
  IF serviceUp /\ n \in exists /\ n \notin unlocked
  THEN CloseWallet(n)
  ELSE UNCHANGED <<sessions, inbox, unheard>>

\* onServiceOwnerChanged(): without an owner, or when connecting to the new one
\* fails, every session is closed.  A new owner that is gone again may have been
\* connected to before.
ServiceChanged(notice) ==
  \/ notice = "new" /\ UNCHANGED <<sessions, inbox, unheard>>
  \/ (notice = "gone" \/ ~serviceUp) /\ CloseAllWallets

HandleNotice ==
  /\ Free /\ notices # <<>>
  /\ notices' = Tail(notices)
  /\ IF Head(notices) \in Name
     THEN CollectionChanged(Head(notices)) ELSE ServiceChanged(Head(notices))
  /\ UNCHANGED <<serviceUp, exists, unlocked, alive, jobs, busy, lastTid, drawn, appid, objects,
                 outdated, failed>>

-----------------------------------------------------------------------------
(* Signals in the applications *)

\* slotWalletClosed()
Closed(o) == [o EXCEPT !.phase = "closed", !.name = None, !.handle = 0]

\* The slots of object o for signal m.  walletAsyncOpened() looks at the
\* transaction id and at the handle; it stays connected for good.
\* (Mutants: it does not compare ids; the slot for disconnected applications
\* does not compare names.)
AfterAnyTid(o, m) ==
  CASE m.type = "walletAsyncOpened"
         /\ o.type = "Asynchronous" /\ o.phase \in {"waiting", "closed"}
       -> [o EXCEPT !.phase = "open", !.handle = m.handle]
    [] m.type = "walletClosedId" /\ o.phase = "open" /\ o.handle = m.handle -> Closed(o)
    [] m.type = "applicationDisconnected" /\ o.phase = "open" /\ o.name \in m.wallets -> Closed(o)
    [] m.type = "serviceUnregistered" /\ o.phase = "open" -> Closed(o)
    [] OTHER -> o
AfterAnyName(o, m) ==
  CASE m.type = "walletAsyncOpened"
         /\ o.type = "Asynchronous" /\ o.phase \in {"waiting", "closed"} /\ o.tid = m.tid
       -> [o EXCEPT !.phase = "open", !.handle = m.handle]
    [] m.type = "walletClosedId" /\ o.phase = "open" /\ o.handle = m.handle -> Closed(o)
    [] m.type = "applicationDisconnected" /\ o.phase = "open" -> Closed(o)
    [] m.type = "serviceUnregistered" /\ o.phase = "open" -> Closed(o)
    [] OTHER -> o
After(o, m) ==
  CASE m.type = "walletAsyncOpened"
         /\ o.type = "Asynchronous" /\ o.phase \in {"waiting", "closed"} /\ o.tid = m.tid
       -> [o EXCEPT !.phase = "open", !.handle = m.handle]
    [] m.type = "walletClosedId" /\ o.phase = "open" /\ o.handle = m.handle -> Closed(o)
    [] m.type = "applicationDisconnected" /\ o.phase = "open" /\ o.name \in m.wallets -> Closed(o)
    [] m.type = "serviceUnregistered" /\ o.phase = "open" -> Closed(o)
    [] OTHER -> o

Receive(p) ==
  /\ Runs(p) /\ inbox[p] # <<>>
  /\ objects' = [o \in Object |->
       IF Owner[o] = p THEN After(objects[o], Head(inbox[p])) ELSE objects[o]]
  /\ inbox' = [inbox EXCEPT ![p] = Tail(@)]
  /\ UNCHANGED <<service, kwalletd, appid, history>>

-----------------------------------------------------------------------------
(* The service, and processes that end *)

Lock(n) ==
  /\ "lock" \in Faults /\ Len(notices) < MaxNotices
  /\ n \in unlocked
  /\ unlocked' = unlocked \ {n} /\ notices' = Noticed(n)
  /\ UNCHANGED <<serviceUp, exists, kwalletd, clients, history>>

UnlockByOthers(n) ==
  /\ "lock" \in Faults /\ Len(notices) < MaxNotices
  /\ serviceUp /\ n \in exists \ unlocked
  /\ unlocked' = unlocked \cup {n} /\ notices' = Noticed(n)
  /\ UNCHANGED <<serviceUp, exists, kwalletd, clients, history>>

\* deleteWallet() of kwalletd, or of another client of the service.  kwalletd
\* says walletDeleted() and walletListDirty(), and keeps its sessions.
DeleteWallet(n) ==
  /\ "delete" \in Faults /\ Len(notices) < MaxNotices
  /\ serviceUp /\ n \in exists
  /\ exists' = exists \ {n} /\ unlocked' = unlocked \ {n}
  /\ UNCHANGED <<serviceUp, notices, kwalletd, clients, history>>

ServiceDies ==
  /\ "serviceDies" \in Faults /\ Len(notices) < MaxNotices
  /\ serviceUp /\ serviceUp' = FALSE
  /\ unlocked' = {}
  /\ notices' = Noticed("gone")
  /\ UNCHANGED <<exists, kwalletd, clients, history>>

ServiceStarts ==
  /\ ~serviceUp /\ serviceUp' = TRUE
  /\ notices' = Noticed("new")
  /\ UNCHANGED <<exists, unlocked, kwalletd, clients, history>>

\* Applications get an error for the call they wait in, and the news.
KWalletDDies ==
  /\ "kwalletdDies" \in Faults
  /\ Cardinality(UNION {{p} \X DOMAIN inbox[p] : p \in Process}) =< MaxSignals
  /\ alive /\ alive' = FALSE
  /\ sessions' = NoSessions /\ jobs' = {} /\ busy' = None /\ lastTid' = 0
  /\ notices' = <<>>
  /\ objects' = [o \in Object |->
       IF objects[o].phase = "calling" THEN DeletedObject ELSE objects[o]]
  /\ inbox' = Broadcast([type |-> "serviceUnregistered"], inbox)
  /\ outdated' = outdated \cup {o \in Object : objects[o].tid # 0}
  /\ UNCHANGED <<serviceUp, exists, unlocked, drawn, appid, unheard, failed>>

KWalletDStarts ==
  /\ ~alive /\ alive' = TRUE
  /\ UNCHANGED <<service, sessions, jobs, busy, lastTid, drawn, clients, history>>

-----------------------------------------------------------------------------
Init ==
  /\ serviceUp = TRUE
  /\ exists \in SUBSET Name /\ unlocked \in SUBSET exists
  /\ notices = <<>>
  /\ alive = TRUE /\ sessions = NoSessions /\ jobs = {} /\ busy = None
  /\ lastTid = 0 /\ drawn = 0
  /\ appid \in [Process -> App]
  /\ objects = [o \in Object |-> NewObject]
  /\ inbox = [p \in Process |-> <<>>]
  /\ unheard = {} /\ outdated = {} /\ failed = {}

Opening == \E j \in jobs : OpenUnlocked(j) \/ ShowPrompt(j)
PromptEnds == PromptAccepted \/ PromptRefused
Calls ==
  \/ \E o \in Object :
       \/ \E n \in Name : OpenWallet(o, n) \/ OpenWalletAsync(o, n)
       \/ LockWallet(o)
       \/ DeleteObject(o)
  \/ \E n \in Name :
       CallCloseWallet(n) \/ \E a \in App : DisconnectApplication(n, a)
  \/ CallCloseAllWallets
Environment ==
  \/ \E n \in Name : Lock(n) \/ UnlockByOthers(n) \/ DeleteWallet(n)
  \/ ServiceDies \/ ServiceStarts
  \/ KWalletDDies \/ KWalletDStarts

Next ==
  \/ Opening \/ PromptEnds \/ Calls \/ HandleNotice
  \/ (\E p \in Process : Receive(p))
  \/ Environment

Spec == Init /\ [][Next]_vars

-----------------------------------------------------------------------------
(* Properties *)

TypeOK ==
  /\ serviceUp \in BOOLEAN /\ alive \in BOOLEAN
  /\ exists \subseteq Name /\ unlocked \subseteq exists
  /\ notices \in Seq(Name \cup {"gone", "new"})
  /\ DOMAIN sessions \subseteq Handle \X App /\ sessions \in [DOMAIN sessions -> Name]
  /\ jobs \subseteq Job /\ busy \in Job \cup {None}
  /\ lastTid \in Nat /\ drawn \in Nat
  /\ appid \in [Process -> App]
  /\ objects \in [Object -> WalletObject]
  /\ inbox \in [Process -> Seq(Signal)]
  /\ unheard \subseteq Handle /\ outdated \subseteq Object /\ failed \subseteq Object

\* The calls and timers kwalletd knows of, and the signals on their way, account
\* for every object that waits: none is answered twice or forgotten but by a
\* failed openAsync() and by a kwalletd that died.
InProgress == jobs \cup (IF busy = None THEN {} ELSE {busy})
Answering(o) ==
  {i \in DOMAIN inbox[Owner[o]] :
     LET m == inbox[Owner[o]][i]
     IN m.type = "walletAsyncOpened" /\ m.tid = objects[o].tid}
Structure ==
  /\ TypeOK
  /\ ~alive => sessions = NoSessions /\ InProgress = {}
  /\ \A s \in DOMAIN sessions : s[1] =< drawn
  /\ \A o \in Object \ outdated :
       objects[o].phase \in {"calling", "waiting"} =>
         Cardinality({j \in InProgress : j.object = o}) + Cardinality(Answering(o))
           = IF o \in failed THEN 0 ELSE 1

\* A Wallet object believes itself open only while kwalletd has its session or a
\* signal that closes it is on the way, through forced closes, locks, dying
\* services and calls of other processes; unheard and outdated name the rest.
Heard(o) ==
  \E m \in Queued(inbox[Owner[o]]) :
    \/ m.type = "walletClosedId" /\ m.handle = objects[o].handle
    \/ m.type = "applicationDisconnected" /\ objects[o].name \in m.wallets
    \/ m.type = "serviceUnregistered"
SessionOf(o) == <<objects[o].handle, AppOf(o)>>
OpenIsASession ==
  \A o \in Object \ outdated :
    objects[o].phase = "open" /\ objects[o].handle \notin unheard
      => SessionOf(o) \in DOMAIN sessions \/ Heard(o)

\* What a Wallet object reads and writes is in the wallet it was opened for, and
\* no two objects share a session.
SessionIsTheWallet ==
  \A o \in Object \ outdated :
    objects[o].phase = "open" /\ SessionOf(o) \in DOMAIN sessions =>
      /\ sessions[SessionOf(o)] = objects[o].asked
      /\ \A q \in Object \ (outdated \cup {o}) :
           objects[q].phase = "open" => objects[q].handle # objects[o].handle

\* A session is of an unlocked wallet, or kwalletd will hear that it is locked;
\* deleteWallet() aside.
SessionsUnlocked ==
  \A s \in DOMAIN sessions :
    sessions[s] \in exists => sessions[s] \in unlocked \cup Queued(notices) \/ "gone" \in Queued(notices)

\* walletClosed() of an object opened with openAsync() is never about another
\* session: when the object says that its wallet is closed, its session is gone.
ClosedIsClosed ==
  [][\A o \in Object \ outdated :
       /\ objects[o].type = "Asynchronous"
       /\ objects[o].phase = "open" /\ objects'[o].phase = "closed"
       => SessionOf(o) \notin DOMAIN sessions']_vars

-----------------------------------------------------------------------------
(* What the documentation says, and the code does not keep *)

\* "walletClosed(): Emitted when this wallet is closed." and "isOpen(): Returns
\* true if the wallet handle is valid and open.", of every object.
ClosedIsHeard ==
  \A o \in Object \ outdated :
    objects[o].phase = "open" => SessionOf(o) \in DOMAIN sessions \/ Heard(o)
=============================================================================
