--------------------------- MODULE SecretService ---------------------------
(***************************************************************************)
(* The Freedesktop Secret Service of ksecretd                              *)
(* (src/src/runtime/ksecretd/kwalletfreedesktop{service,collection,        *)
(* prompt}.cpp): collections named after wallets and holding their handles, *)
(* aliases, and prompts that open wallets through the queue of the daemon.  *)
(*                                                                         *)
(* Of the daemon, KSecretD models the table, the timers and the dialogs in *)
(* detail; here a wallet is open or not, a transaction waits, is in its    *)
(* dialog or is answered, and an answer runs the continuation of its       *)
(* future, walletAsyncOpened() of a prompt, in the same step: both live in *)
(* the one thread.                                                         *)
(***************************************************************************)
EXTENDS Naturals, Sequences, FiniteSets

CONSTANTS
  Name,            \* wallet names, and so labels of collections
  Rank,            \* the order std::map gives the object paths made of them
  Handle,          \* values generateHandle() can return
  Prompt,          \* prompt objects of one life of the service
  Alias, Default,  \* the aliases; "default" is one of them
  LocalWallet,     \* the local wallet of kwalletrc, None where one wallet is used for all
  NewUser,         \* whether kwalletrc may say "First Use" at the beginning
  WId,             \* window ids clients pass to Prompt()
  Labels,          \* what clients ask setLabel() for
  Others,          \* wallets opened by the portal, the old API, changes of password
  Faults,          \* what the environment may do, a subset of AllFaults
  MaxObjects,      \* bound: the collections of the Unlock() of each prompt
  MaxQueue,        \* bound: the transactions queued when another client calls open()
  MaxCollections,  \* bound: the collections when a file is removed
  None             \* no handle, path, prompt, alias or transaction

AllFaults == {"external", "junk", "reopen", "rename", "kill"}

ASSUME ConstantsAssumption ==
  /\ IsFiniteSet(Name)
  /\ Rank \in [Name -> Nat] /\ \A m, n \in Name : Rank[m] = Rank[n] => m = n
  /\ Default \in Alias /\ LocalWallet \in Name \cup {None} /\ NewUser \in BOOLEAN
  /\ Labels \subseteq Name /\ Others \subseteq Name
  /\ Faults \subseteq AllFaults
  /\ MaxObjects \in [Prompt -> Nat] /\ MaxQueue \in Nat /\ MaxCollections \in Nat
  /\ None \notin Name \cup Handle \cup Prompt \cup (Name \X Nat)
  /\ None \notin [wallet : Name, wId : WId, prompt : Prompt \cup {None},
                  path : (Name \X Nat) \cup {None}]

VARIABLES
  up,           \* the process runs
  files,        \* names of the wallets on disk
  junk,         \* names of .kwl files below the 60 bytes exists() asks for
  wallets,      \* KSecretD::_wallets: the name of each open wallet, by handle
  collections,  \* m_collections: by object path, the wallet and the handle held
  aliases,      \* kwalletrc: the wallet each alias names
  served,       \* the collection registered on the bus under each alias path
  prompts,      \* m_prompts, the deleted ones included
  queue,        \* KSecretD::_transactions, those of type Open
  current,      \* the transaction whose dialog is shown
  brandNew,     \* its local of that name in internalOpen()
  processing,   \* processTransactions() has the thread between two transactions
  firstUse,     \* "First Use" of kwalletrc, and _firstUse, which is read from it
  doubtful,     \* history: names that lost their one-to-one link, see Doubt
  overtaken     \* history: what stays served as "default", see FirstUse

service == <<collections, aliases, served, prompts>>
transactions == <<queue, current, brandNew, processing>>
disk == <<files, junk>>
setup == <<firstUse, overtaken>>
vars == <<up, disk, wallets, service, transactions, doubtful, setup>>

-----------------------------------------------------------------------------
(* Types *)

\* makeUniqueObjectPath(): the mangled name, then that with "0", "1", ...
Path == Name \X Nat
Collection == [wallet : Name, handle : Handle \cup {None}]
\* What a prompt was made for: CollectionProperties.
Object == [wallet : Name, path : Path \cup {None}]
Transaction ==
  [wallet : Name, wId : WId, prompt : Prompt \cup {None}, path : Path \cup {None}]
PromptObject ==
  [type : {"Open", "Create"}, objects : Seq(Object), alias : Alias \cup {None},
   called : BOOLEAN, registered : BOOLEAN, dismissed : BOOLEAN,
   left : Nat,                  \* m_transactionIds: those outstanding or failed
   result : Seq(Path),          \* m_result
   completed : Seq(BOOLEAN)]    \* the Completed signals sent

Opened == DOMAIN wallets
OnDisk == files \cup junk                      \* KSecretD::wallets()
FindWallet(n) == {h \in Opened : wallets[h] = n}
Pending == {queue[i] : i \in DOMAIN queue} \cup (IF current = None THEN {} ELSE {current})

\* Calls are served by the event loop, outer or nested in a dialog.
EventLoop == up /\ (current # None \/ ~processing)

-----------------------------------------------------------------------------
(* Collections *)

Empty == [x \in {} |-> None]
With(f, x, y) == [z \in DOMAIN f \cup {x} |-> IF z = x THEN y ELSE f[z]]
Without(f, S) == [z \in DOMAIN f \ S |-> f[z]]

\* getCollectionByWalletName() takes the first in the order of the map.
Of(C, n) == {p \in DOMAIN C : C[p].wallet = n}
Before(p, q) == Rank[p[1]] < Rank[q[1]] \/ (p[1] = q[1] /\ p[2] =< q[2])
First(C, n) == CHOOSE p \in Of(C, n) : \A q \in Of(C, n) : Before(p, q)

FreePath(C, n) ==
  CHOOSE p \in {n} \X (0 .. Cardinality(DOMAIN C)) :
    p \notin DOMAIN C /\ \A k \in 0 .. p[2] : k < p[2] => <<n, k>> \in DOMAIN C
Add(C, n, h) == With(C, FreePath(C, n), [wallet |-> n, handle |-> h])

\* lockCollection(), for each of the wallets N that close.
\* (Mutant: nobody tells the collection.)
LockNone(C, N) == C
Lock(C, N) ==
  [p \in DOMAIN C |->
     IF C[p].wallet \in N /\ p = First(C, C[p].wallet)
     THEN [C[p] EXCEPT !.handle = None] ELSE C[p]]

\* promptUnlockCollection()
\* (Mutant: a collection that exists keeps its handle.)
UnlockNewOnly(C, n, h) == IF Of(C, n) = {} THEN Add(C, n, h) ELSE C
Unlock(C, n, h) ==
  IF Of(C, n) = {} THEN Add(C, n, h) ELSE [C EXCEPT ![First(C, n)].handle = h]

\* The constructor of a collection registers it under the aliases of its
\* wallet, which fails where another is registered; the destructor undoes it.
Register ==
  served' = [a \in Alias |->
    LET new == {p \in DOMAIN collections' \ DOMAIN collections :
                  collections'[p].wallet = aliases'[a]}
    IN IF served[a] = None /\ new # {} THEN CHOOSE p \in new : TRUE
       ELSE IF served[a] \in DOMAIN collections' THEN served[a] ELSE None]

\* makeUniqueWalletName(): the label, or a numbered variant of it that is free.
UniqueNames(label) == IF label \in OnDisk THEN Name \ OnDisk ELSE {label}

-----------------------------------------------------------------------------
(* Prompts *)

\* Unlock() of some objects: those that are unlocked are returned at once, and
\* only the locked ones, objects here, make a prompt.
Locked(p) == collections[p].handle \notin Opened
NewPrompt(type, objects, alias) ==
  [type |-> type, objects |-> objects, alias |-> alias, called |-> FALSE,
   registered |-> TRUE, dismissed |-> FALSE, left |-> 0, result |-> <<>>, completed |-> <<>>]

CallUnlock(q, objects) ==
  /\ EventLoop /\ q \notin DOMAIN prompts
  /\ \A i \in DOMAIN objects : Locked(objects[i])
  /\ prompts' = With(prompts, q, NewPrompt("Open",
       [i \in DOMAIN objects |->
          [wallet |-> collections[objects[i]].wallet, path |-> objects[i]]], None))
  /\ UNCHANGED <<up, disk, wallets, collections, aliases, served, transactions, doubtful, setup>>

CallCreateCollection(q, label, a) ==
  /\ EventLoop /\ q \notin DOMAIN prompts
  /\ prompts' = With(prompts, q,
       NewPrompt("Create", <<[wallet |-> label, path |-> None]>>, a))
  /\ UNCHANGED <<up, disk, wallets, collections, aliases, served, transactions, doubtful, setup>>

\* createCollectionAlias(): kwalletrc is written before anything is opened.
Realias(a, n) ==
  LET left == IF aliases[a] # None /\ Of(collections, aliases[a]) # {} THEN None ELSE served[a]
  IN /\ aliases' = [aliases EXCEPT ![a] = n]
     /\ served' = [served EXCEPT ![a] =
          IF left = None /\ Of(collections, n) # {} THEN First(collections, n) ELSE left]
     /\ overtaken' = IF a = Default /\ left = None THEN None ELSE overtaken

\* Prompt(): every open() is queued; a new wallet gets its unique name here.
CallPrompt(q, w) ==
  /\ EventLoop /\ q \in DOMAIN prompts
  /\ prompts[q].registered /\ ~prompts[q].called
  /\ LET objects == prompts[q].objects
         opens(name) == [i \in DOMAIN objects |->
           [wallet |-> name[i], wId |-> w, prompt |-> q, path |-> objects[i].path]]
     IN \/ /\ prompts[q].type = "Open"
           /\ queue' = queue \o opens([i \in DOMAIN objects |-> objects[i].wallet])
           /\ UNCHANGED <<aliases, served, overtaken>>
        \/ /\ prompts[q].type = "Create"
           /\ \E n \in UniqueNames(objects[1].wallet) :
                /\ queue' = queue \o opens(<<n>>)
                /\ IF prompts[q].alias = None
                   THEN UNCHANGED <<aliases, served, overtaken>>
                   ELSE Realias(prompts[q].alias, n)
  /\ prompts' = [prompts EXCEPT ![q].called = TRUE, ![q].left = Len(prompts[q].objects)]
  /\ UNCHANGED <<up, disk, wallets, collections, current, brandNew, processing, doubtful, firstUse>>

\* Dismiss() by the client: the transactions go on.  One that crosses the
\* Completed(false) of its prompt is left out.
CallDismiss(q) ==
  /\ EventLoop /\ q \in DOMAIN prompts
  /\ prompts[q].registered
  /\ prompts' = [prompts EXCEPT ![q].registered = FALSE, ![q].dismissed = TRUE,
                                ![q].completed = Append(@, TRUE)]
  /\ UNCHANGED <<up, disk, wallets, collections, aliases, served, transactions, doubtful, setup>>

\* walletAsyncOpened() with a handle, for the prompt of transaction t.
\* (Mutant: the prompt completes with its first wallet.)
CompletedEarly(t, path) ==
  [prompts EXCEPT ![t.prompt] =
     [@ EXCEPT !.left = @ - 1,
               !.registered = FALSE,
               !.result = Append(@, path),
               !.completed = Append(@, FALSE)]]
OpenedFor(t, path) ==
  LET p == prompts[t.prompt] IN
  [prompts EXCEPT ![t.prompt] =
     [p EXCEPT !.left = @ - 1,
               !.registered = @ /\ p.left > 1,
               !.result = Append(@, path),
               !.completed = IF p.left = 1 THEN Append(@, FALSE) ELSE @]]

\* walletAsyncOpened() with -1, once for each of the failed transactions S of
\* each prompt.  Their ids stay in m_transactionIds.
Failures(q, S) == Cardinality({x \in S : x[2].prompt = q})
\* (Mutant: the ids are removed, and the last of them completes the prompt.)
FailedForRemoved(S) ==
  [q \in DOMAIN prompts |->
     IF Failures(q, S) = 0 THEN prompts[q]
     ELSE [prompts[q] EXCEPT
             !.registered = FALSE,
             !.left = @ - Failures(q, S),
             !.completed = @ \o [i \in 1 .. Failures(q, S) |-> TRUE]]]
\* (Mutant: only those still in the queue are answered.)
FailedForQueued(S) ==
  LET T == {x \in S : x[1] # 0} IN
  [q \in DOMAIN prompts |->
     IF Failures(q, T) = 0 THEN prompts[q]
     ELSE [prompts[q] EXCEPT
             !.registered = FALSE,
             !.completed = @ \o [i \in 1 .. Failures(q, T) |-> TRUE]]]
FailedFor(S) ==
  [q \in DOMAIN prompts |->
     IF Failures(q, S) = 0 THEN prompts[q]
     ELSE [prompts[q] EXCEPT
             !.registered = FALSE,
             !.completed = @ \o [i \in 1 .. Failures(q, S) |-> TRUE]]]

-----------------------------------------------------------------------------
(* The queue of the daemon *)

\* open() by the portal, the old API or a change of password.
OtherOpen(n, w) ==
  /\ EventLoop /\ Len(queue) < MaxQueue
  /\ queue' = Append(queue, [wallet |-> n, wId |-> w, prompt |-> None, path |-> None])
  /\ UNCHANGED <<up, disk, wallets, service, current, brandNew, processing, doubtful, setup>>

\* walletCreated(): whether a collection of that name exists is not asked.
\* (Mutant: said for every wallet that is opened.)
WalletCreatedAlways(n) == Add(collections, n, None)
WalletCreated(n) == IF brandNew THEN Add(collections, n, None) ELSE collections

\* Transaction t leaves with handle h; C are the collections once walletCreated()
\* has been heard.
Succeed(t, h, C, rest) ==
  /\ collections' = IF t.prompt = None THEN C ELSE Unlock(C, t.wallet, h)
  /\ prompts' = IF t.prompt = None THEN prompts
       ELSE OpenedFor(t, IF t.path = None THEN First(collections', t.wallet) ELSE t.path)
  /\ Register
  /\ current' = None /\ brandNew' = FALSE
  /\ queue' = rest /\ processing' = (rest # <<>>)

\* doTransactionOpen(): until the local wallet is there, the wallet asked for becomes
\* the default one, whether or not it opens.  Only kwalletrc is written: what the bus
\* serves as "default" stays.
Local == IF LocalWallet = None THEN aliases[Default] ELSE LocalWallet
FirstUse(n) ==
  /\ aliases' = IF firstUse /\ n # Local THEN [aliases EXCEPT ![Default] = n] ELSE aliases
  /\ firstUse' = (firstUse /\ Local' \notin OnDisk)
  /\ overtaken' = IF aliases' # aliases THEN served[Default] ELSE overtaken

\* internalOpen(): the wallet is open already, or a dialog is shown.
BeginFound(h) ==
  /\ up /\ current = None /\ queue # <<>>
  /\ h \in FindWallet(Head(queue).wallet)
  /\ FirstUse(Head(queue).wallet)
  /\ Succeed(Head(queue), h, collections, Tail(queue))
  /\ UNCHANGED <<up, disk, wallets, doubtful>>
BeginDialog ==
  /\ up /\ current = None /\ queue # <<>>
  /\ FindWallet(Head(queue).wallet) = {}
  /\ current' = Head(queue) /\ queue' = Tail(queue)
  /\ brandNew' = (Head(queue).wallet \notin files)
  /\ processing' = TRUE
  /\ FirstUse(Head(queue).wallet)
  /\ UNCHANGED <<up, disk, wallets, collections, served, prompts, doubtful>>

\* The user enters the password, or the empty one does without a dialog.
Accept(h) ==
  /\ up /\ current # None
  /\ h \in Handle \ Opened
  /\ wallets' = With(wallets, h, current.wallet)
  /\ files' = files \cup {current.wallet} /\ junk' = junk \ {current.wallet}
  /\ aliases' = aliases
  /\ Succeed(current, h, WalletCreated(current.wallet), queue)
  /\ UNCHANGED <<up, doubtful, setup>>

\* The user cancels, or the table is full: the other opens of the same client
\* are answered too, and stay in the queue with nobody waiting.
Cancel ==
  /\ up /\ current # None
  /\ LET same == {i \in DOMAIN queue :
                    queue[i].wallet = current.wallet /\ queue[i].wId = current.wId}
     IN /\ prompts' = FailedFor({<<i, queue[i]>> : i \in same} \cup {<<0, current>>})
        /\ queue' = [i \in DOMAIN queue |->
                       IF i \in same THEN [queue[i] EXCEPT !.prompt = None] ELSE queue[i]]
  /\ current' = None /\ brandNew' = FALSE
  /\ processing' = (queue # <<>>)
  /\ UNCHANGED <<up, disk, wallets, collections, aliases, served, doubtful, setup>>

-----------------------------------------------------------------------------
(* The process *)

\* The process ends: killed, or by using a null Backend.
Die ==
  /\ up' = FALSE
  /\ wallets' = Empty /\ collections' = Empty /\ prompts' = Empty
  /\ served' = [a \in Alias |-> None]
  /\ queue' = <<>> /\ current' = None /\ brandNew' = FALSE /\ processing' = FALSE
  /\ overtaken' = None
  /\ UNCHANGED <<disk, aliases, doubtful, firstUse>>

Kill == "kill" \in Faults /\ up /\ Die

\* A collection for each .kwl file; pamOpen() may open one wallet, or make it,
\* and tells its collection.
Start ==
  /\ ~up /\ up' = TRUE
  /\ \/ UNCHANGED <<disk, wallets>>
     \/ \E n \in Name \ junk, h \in Handle :
          /\ wallets' = With(Empty, h, n)
          /\ files' = files \cup {n} /\ UNCHANGED junk
  /\ collections' = [p \in (files' \cup junk) \X {0} |->
       [wallet |-> p[1],
        handle |-> IF \E h \in DOMAIN wallets' : wallets'[h] = p[1]
                   THEN CHOOSE h \in DOMAIN wallets' : TRUE ELSE None]]
  /\ aliases' = aliases /\ Register
  /\ doubtful' = junk
  /\ UNCHANGED <<prompts, transactions, setup>>

-----------------------------------------------------------------------------
(* Calls on collections, and wallets that close *)

\* Lock() of a collection, close() of the old API, the idle timer.
Close(h) ==
  /\ EventLoop /\ h \in Opened
  /\ wallets' = Without(wallets, {h})
  /\ collections' = Lock(collections, {wallets[h]})
  /\ UNCHANGED <<up, disk, aliases, served, prompts, transactions, doubtful, setup>>

\* emitWalletListDirty(): the files of these wallets are gone.
WatchDirectory ==
  /\ EventLoop
  /\ LET gone == {h \in Opened : wallets[h] \notin OnDisk}
     IN /\ gone # {}
        /\ wallets' = Without(wallets, gone)
        /\ collections' = Lock(collections, {wallets[h] : h \in gone})
  /\ UNCHANGED <<up, disk, aliases, served, prompts, transactions, doubtful, setup>>

\* Delete(): deleteWallet() says walletDeleted(), which deletes the first
\* collection of that wallet; then this one goes.
Delete(p) ==
  /\ EventLoop /\ p \in DOMAIN collections
  /\ LET n == collections[p].wallet IN
     \/ n \in OnDisk /\ FindWallet(n) = {} /\ Die
     \/ /\ n \in OnDisk => FindWallet(n) # {}
        /\ aliases' = [a \in Alias |->
             IF aliases[a] = n /\ a # Default THEN None ELSE aliases[a]]
        /\ IF n \in OnDisk
           THEN \E h \in FindWallet(n) :
                  /\ wallets' = Without(wallets, {h})
                  /\ collections' = Without(collections, {p, First(collections, n)})
           ELSE UNCHANGED wallets /\ collections' = Without(collections, {p})
        /\ files' = files \ {n} /\ junk' = junk \ {n}
        /\ served' = [a \in Alias |->
             IF (aliases[a] = n /\ a # Default) \/ served[a] \notin DOMAIN collections'
             THEN None ELSE served[a]]
        /\ overtaken' = IF overtaken \in DOMAIN collections' THEN overtaken ELSE None
        /\ UNCHANGED <<up, prompts, transactions, doubtful, firstUse>>

\* A name may end up with no collection, with two, or with one that holds a
\* handle of no such wallet.  The causes: its file was removed behind the
\* daemon's back or is too short, a rename failed half-way, or it was renamed to
\* while its first dialog is shown; and renames hand the doubt on.
Doubt(N) == doubtful' = doubtful \cup N
HandedOn(o, n) ==
  IF o \in doubtful \/ (current # None /\ current.wallet = n) THEN {n} ELSE {}

\* setLabel(), by way of renameWallet() of the wallet's backend, which does not
\* ask whether there is one.
\* (Mutant: the aliases keep the old name.)
FollowNot(o, n) == aliases
Follow(o, n) == [a \in Alias |-> IF aliases[a] = o THEN n ELSE aliases[a]]
SetLabel(p, label) ==
  /\ EventLoop /\ p \in DOMAIN collections
  /\ label # collections[p].wallet
  /\ LET o == collections[p].wallet IN
     \/ FindWallet(o) = {} /\ Die
     \/ \E h \in FindWallet(o), n \in UniqueNames(label) \ {o} :
          /\ o \in files
          /\ wallets' = [wallets EXCEPT ![h] = n]
          /\ \/ /\ files' = (files \ {o}) \cup {n}
                /\ collections' = [collections EXCEPT ![p].wallet = n]
                /\ aliases' = Follow(o, n)
                /\ Doubt(HandedOn(o, n))
             \/ \* openInternal() fails: an error for the caller, the backend is renamed
                /\ "reopen" \in Faults
                /\ files' = (files \ {o}) \cup {n}
                /\ Doubt({o, n})
                /\ UNCHANGED <<collections, aliases>>
             \/ \* QFile::rename() fails: a new wallet, and the old file stays
                /\ "rename" \in Faults
                /\ files' = files \cup {n}
                /\ collections' = [collections EXCEPT ![p].wallet = n]
                /\ aliases' = Follow(o, n)
                /\ Doubt({o} \cup HandedOn(o, n))
          /\ UNCHANGED <<up, junk, served, prompts, transactions, setup>>

SetAlias(a, p) ==
  /\ EventLoop /\ p \in DOMAIN collections
  /\ aliases' = [aliases EXCEPT ![a] = collections[p].wallet]
  /\ LET free == served[a] = None \/ (aliases[a] # None /\ Of(collections, aliases[a]) # {})
     IN /\ served' = [served EXCEPT ![a] = IF free THEN p ELSE @]
        /\ overtaken' = IF a = Default /\ free THEN None ELSE overtaken
  /\ UNCHANGED <<up, disk, wallets, collections, prompts, transactions, doubtful, firstUse>>

\* Somebody removes a .kwl file: its collection stays.
ExternalRemove(n) ==
  /\ "external" \in Faults /\ n \in OnDisk
  /\ Cardinality(DOMAIN collections) < MaxCollections
  /\ files' = files \ {n} /\ junk' = junk \ {n}
  /\ Doubt(IF up THEN {n} ELSE {})
  /\ UNCHANGED <<up, wallets, service, transactions, setup>>

-----------------------------------------------------------------------------
Init ==
  /\ up = FALSE
  /\ files \in SUBSET Name
  /\ junk \in IF "junk" \in Faults THEN SUBSET (Name \ files) ELSE {{}}
  /\ wallets = Empty /\ collections = Empty /\ prompts = Empty
  /\ aliases \in [Alias -> Name \cup {None}]
  /\ served = [a \in Alias |-> None]
  /\ queue = <<>> /\ current = None /\ brandNew = FALSE /\ processing = FALSE
  /\ firstUse \in IF NewUser THEN BOOLEAN ELSE {FALSE}
  /\ doubtful = {} /\ overtaken = None

Begin == BeginDialog \/ \E h \in Handle : BeginFound(h)
DialogEnds == Cancel \/ \E h \in Handle : Accept(h)
PromptCalls ==
  \E q \in Prompt :
    \/ \E k \in 1 .. MaxObjects[q] : \E objects \in [1 .. k -> DOMAIN collections] :
         CallUnlock(q, objects)
    \/ \E label \in Name, a \in Alias \cup {None} : CallCreateCollection(q, label, a)
    \/ \E w \in WId : CallPrompt(q, w)
    \/ CallDismiss(q)
CollectionCalls ==
  \E p \in DOMAIN collections :
    \/ Delete(p)
    \/ \E label \in Labels : SetLabel(p, label)
    \/ \E a \in Alias : SetAlias(a, p)
DaemonCalls ==
  \/ \E h \in Handle : Close(h)
  \/ \E n \in Others, w \in WId : OtherOpen(n, w)

Next ==
  \/ Begin \/ DialogEnds \/ PromptCalls \/ CollectionCalls \/ DaemonCalls
  \/ WatchDirectory \/ Start \/ Kill
  \/ \E n \in Name : ExternalRemove(n)

Spec == Init /\ [][Next]_vars

-----------------------------------------------------------------------------
(* Properties *)

TypeOK ==
  /\ up \in BOOLEAN
  /\ files \subseteq Name /\ junk \subseteq Name \ files
  /\ Opened \subseteq Handle /\ wallets \in [Opened -> Name]
  /\ DOMAIN collections \subseteq Path
  /\ collections \in [DOMAIN collections -> Collection]
  /\ aliases \in [Alias -> Name \cup {None}]
  /\ served \in [Alias -> Path \cup {None}]
  /\ DOMAIN prompts \subseteq Prompt /\ prompts \in [DOMAIN prompts -> PromptObject]
  /\ queue \in Seq(Transaction) /\ current \in Transaction \cup {None}
  /\ brandNew \in BOOLEAN /\ processing \in BOOLEAN
  /\ firstUse \in BOOLEAN
  /\ doubtful \subseteq Name /\ overtaken \in Path \cup {None}

\* The transactions of a prompt that nobody has answered, and the answers -1.
Outstanding(q) ==
  Cardinality({i \in DOMAIN queue : queue[i].prompt = q})
  + (IF current # None /\ current.prompt = q THEN 1 ELSE 0)
Refusals(q) ==
  Cardinality({i \in DOMAIN prompts[q].completed : prompts[q].completed[i]})
  - (IF prompts[q].dismissed THEN 1 ELSE 0)

\* The types, and what the suspended transaction, the queue and the prompts know
\* of each other: m_transactionIds holds exactly the transactions of a prompt
\* that are queued, in their dialog, or have failed, whoever answers them.
Structure ==
  /\ TypeOK
  /\ ~up => Opened = {} /\ DOMAIN collections = {} /\ DOMAIN prompts = {} /\ ~processing
  /\ ~processing => current = None
  /\ current = None => ~brandNew /\ (processing => queue # <<>>)
  /\ \A t \in Pending : t.prompt \in DOMAIN prompts \cup {None}
  /\ \A q \in DOMAIN prompts :
       prompts[q].left = IF prompts[q].called THEN Outstanding(q) + Refusals(q) ELSE 0

\* "At this point there is no remaining transactions, so we able to complete
\* prompt": Completed(false) comes once, last, with a result for each object,
\* and never after a Completed(true) the client did not ask for.
CompletedIsFinal ==
  \A q \in DOMAIN prompts :
    LET p == prompts[q] IN
    \A i \in DOMAIN p.completed :
      ~p.completed[i] =>
        /\ i = Len(p.completed) /\ i = (IF p.dismissed THEN 2 ELSE 1)
        /\ Outstanding(q) = 0 /\ Len(p.result) = Len(p.objects)

\* Of each wallet there is exactly one collection and of each collection a
\* wallet, however prompts, renames and deletions of several clients mix.
CollectionsAreWallets ==
  up => \A n \in Name \ doubtful :
          Cardinality(Of(collections, n)) = IF n \in OnDisk THEN 1 ELSE 0

\* A collection holds no handle or that of its own open wallet: CreateItem()
\* looks no further than at m_handle, so with a stale one the secret would be
\* written nowhere and the call succeed.
NoStaleHandle ==
  \A p \in DOMAIN collections :
    LET c == collections[p] IN
    c.handle # None /\ c.wallet \notin doubtful =>
      c.handle \in Opened /\ wallets[c.handle] = c.wallet

\* The collection on the bus under an alias is the one ReadAlias() names:
\* kwalletrc and the bus are changed apart, by SetAlias(), prompts, renames,
\* deletions and constructors.  Two kinds stay on the bus under an alias that has gone
\* on to another wallet: a collection of a doubtful name, and the one served as
\* "default" when an open on first use writes another default to kwalletrc
\* (doTransactionOpen()); that one until somebody sets the alias, it is deleted or
\* the daemon ends.
ReadAlias(a) ==
  IF aliases[a] # None /\ Of(collections, aliases[a]) # {}
  THEN First(collections, aliases[a]) ELSE None
AliasesAgree ==
  \A a \in Alias : served[a] # None =>
    /\ served[a] \in DOMAIN collections
    /\ \/ served[a] = ReadAlias(a)
       \/ collections[served[a]].wallet \in doubtful
       \/ a = Default /\ served[a] = overtaken

\* When a prompt completes, the collection opened last is unlocked, unless it
\* was renamed or deleted since Unlock() and the prompt opened another wallet.
CompletedIsUnlocked ==
  [][\A q \in DOMAIN prompts \cap DOMAIN prompts' :
       LET p == prompts'[q]
           r == p.result[Len(p.result)]
       IN p.completed # prompts[q].completed /\ ~p.completed[Len(p.completed)]
          /\ r \in DOMAIN collections' /\ collections'[r].wallet \notin doubtful'
          /\ (p.type = "Open" => collections'[r].wallet = p.objects[Len(p.objects)].wallet)
          => collections'[r].handle \in Opened']_vars

\* The daemon processes its queue and the user ends each dialog some time.
FairSpec == Spec /\ WF_vars(Begin) /\ WF_vars(DialogEnds)

\* A client that calls Prompt() hears Completed, or the service goes away: no
\* wallet of the prompt is forgotten behind a failure or another client's dialog.
PromptCompletes ==
  \A q \in Prompt :
    (q \in DOMAIN prompts /\ prompts[q].called)
      ~> (q \notin DOMAIN prompts \/ prompts[q].completed # <<>>)
=============================================================================
