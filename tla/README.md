# KWallet in TLA+

A verification project for KDE's wallet system: the daemon `ksecretd`, the
backend that keeps wallets in files, the Freedesktop Secret Service on top of
the daemon, the `kwalletd` proxy and the client library.  Paths below are
relative to the directory that holds `src/` and `tla/`; `ksecretd.cpp` is
`src/src/runtime/ksecretd/ksecretd.cpp`, and so on.

Contents: [the system](#1-the-system) · [the plan](#2-the-plan) ·
[the modules](#3-the-modules) · [the runs](#4-the-runs) ·
[fairness](#5-fairness) · [the proofs](#6-the-proofs) ·
[disagreements found](#7-where-the-code-and-its-word-part) ·
[not modelled](#8-what-is-not-modelled) · [how to run](#9-how-to-run)

## 1. The system

### Processes and threads

`ksecretd` is one process with one thread and one Qt event loop.  Everything in
it, timers, D-Bus calls, the directory watch, runs as a handler that runs to its
end.  The exception is the one that makes the program hard: a dialog is shown
with `exec()`, which runs a *nested* event loop.  While a password dialog of one
caller is up, every other call, timer and signal is served, and then the
suspended function goes on with the local variables it had.

`kwalletd` is a second process that offers the old KWallet D-Bus interface and
turns each call into Secret Service calls to `ksecretd`; applications use it
through the `KWallet::Wallet` class of the client library.

### Components

| component (file) | state | operations | talks to |
|---|---|---|---|
| **ksecretd core** (`ksecretd.cpp`, `ktimeout.cpp`) | `_wallets` (handle → Backend), `_transactions`, `_curtrans`, `_processing`, `_closeIdle`, `_closeTimers`, `_syncTimers`, the promises callers wait on | `open`, `changePassword` (queued), `close`, `deleteWallet`, `renameWallet`, the content calls (`writeEntry`, ...), `timedOutClose`, `timedOutSync`, `emitWalletListDirty`, `pamOpen`, destructor | Backend (calls), Secret Service (signals `walletCreated`, `walletDeleted`, `walletClosed`, futures), the user (dialogs) |
| **Backend** (`kwalletbackend.cc`) | the `.kwl` and `.salt` files of a directory; `_open`, `_cipherType`, `_passhash`, `_newPassHash`, `_useNewHash`, `_entries` | `open`, `openPreHashed`, `setPassword`, `sync`, `close`, `renameWallet`, entries and folders | persist handler |
| **persist handler** (`backendpersisthandler.cpp`) | none | `read`, `write` of a whole file, for Blowfish or GPG | ciphers |
| **Secret Service** (`kwalletfreedesktop{service,collection,prompt}.cpp`) | `m_collections`, `m_prompts`, the handle each collection holds, aliases in kwalletrc, objects on the bus | `Unlock`, `Lock`, `CreateCollection`, `Prompt`, `Dismiss`, `Delete`, `setLabel`, `SetAlias`, `ReadAlias` | ksecretd core |
| **items, attributes, sessions** (`kwalletfreedesktop{item,attributes,session}.cpp`) | per collection `_params` and the `.json` file of attributes, `m_items`, `m_itemCounter`; sessions | `CreateItem`, `SetSecret`, `setAttributes`, `setLabel`, `Delete`, `GetSecrets`, `SearchItems` | core (entries by handle), collections (signals) |
| **portal** (`kwalletportalsecrets.cpp`) | pending requests | `RetrieveSecret` | core |
| **kwalletd** (`kwalletd.cpp`) | `m_openWallets`: <handle, application> → wallet; `m_structure` (folders); `s_lastTransaction` | `open`, `openAsync`, `close` by wallet or handle, `deleteWallet`, `disconnectApplication`, `closeAllWallets`, `reconfigure`, folders and entries | SecretServiceClient (blocking calls, signals), client library (replies, broadcast signals) |
| **SecretServiceClient** (`secretserviceclient.cpp`) | cache of collection proxies, watch of the service's owner | open, create, read, write, delete; `onServiceOwnerChanged`, `onCollectionChanged` | Secret Service over D-Bus |
| **client library** (`kwallet.cpp`) | per `Wallet` object `handle`, `name`, `transactionId` | `openWallet`, `lockWallet`, `closeWallet`, destructor, reads and writes, slots for opened and closed wallets | kwalletd |

`PROJECT.json` lists every part, the unmodelled ones with the reason.

### What is hard, and what makes each component correct

*ksecretd core.*  `internalOpen()` looks the wallet up, counts the open ones and
shows a dialog; it inserts afterwards, when the table may be another.
`doTransactionChangePassword()` keeps a raw pointer over three dialogs.  Handles
are reused, and three places keep timers by handle.  A failure answers several
callers at once.  Saves fail, files vanish, and the process is killed.  Correct
means: one backend per wallet; the answer a caller gets is a handle of the
wallet it asked for; timers and table agree; the table stays bounded; every
caller is answered; a change made reaches the disk; nothing old overwrites
anything new.

*Backend.*  A wallet is two files, changed in several steps with crashes in
between; the key is derived in three ways; hash and version are chosen at three
places.  Correct means: whoever knows the password can open what is on the
disk; an upgraded wallet is never written back in the old form; a save never
replaces newer contents.

*Secret Service.*  Collections, aliases in kwalletrc and objects on the bus are
four copies of one fact (there is a wallet of that name, and it is open or not),
kept in step by signals that arrive inside other calls.  A prompt counts the
transactions of several wallets, which others answer too.  Correct means: one
collection per wallet; no collection holds a handle of something else; a prompt
called completes, and says "completed" last and once; aliases and bus agree.

*Items.*  Attributes are saved at once, contents 5 s later; a call that is
refused has made its item already; items can be changed while their wallet is
locked; the signals of an entry's move come back inside the call that moves it.
Correct means: every entry has an item, items and entries correspond, labels
take secret and attributes along, no secret is lost or doubled, and a crash
brings back what was there.

*Folders and entries over kwalletd.*  A rename is a deletion and a write, and
kwalletd may die in between.  Folders are a cache of what libsecret has loaded,
mended by signals of which one too many may be ignored.  Correct means: calls
lose no value, and folders with entries are listed.

*kwalletd, client library.*  Three processes each believe something about
which wallet is open, and any of them can go away.  kwalletd blocks while the
user is asked; signals wait meanwhile, are broadcast to every process, and are
told apart by wallet name, application name, handle or transaction id.
Correct means: an object that believes itself open has a session, or the signal
that says otherwise is on its way; the session is of the wallet that was asked
for, and that wallet is unlocked; every caller is answered.

The hazards, each at its line and with the properties that watch it, are in
`PROJECT.json` (`hazards`).

## 2. The plan

| step | module | composes | abstract specification | status |
|---|---|---|---|---|
| 1 | `KSecretD` | | `SecretStore`: what a wallet store promises about contents | done |
| 2 | `KSecretDProofs` | `KSecretD` | | done: the table, the timers and the queue |
| 3 | `WalletBackend` | | (a `SecretStore` of one session, over two files) | done; refinement planned |
| 4 | `WalletBackendProofs` | `WalletBackend` | | done: every property |
| 5 | `SecretService` | an abstract daemon queue | the queue as a component of `KSecretD`, planned | done |
| 6 | `Entries` | | the entries of one wallet as functions | done |
| 7 | `SecretItems` | `Entries`, a collection, its attributes file, its wallet | | done |
| 8 | `KWalletD` | client library, proxy, a Secret Service that restarts | an application's view of a wallet: open, use, closed (planned) | done for sessions |
| 9 | `ProxyFolders` | kwalletd's folders and entries over the items of a service others use too | | done |
| 10 | `ProxyFoldersProofs` | `ProxyFolders` | | done: every safety invariant |
| 11 | `SecretItemsProofs` | `SecretItems` | | done: every property |
| 12 | `KWalletDProofs` | `KWalletD` | | done: every property |
| 13 | `SecretServiceProofs` | `SecretService` | | done: `CollectionsAreWallets`, `NoStaleHandle`, `AliasesAgree` |
| 14 | `SecretPromptsProofs` | `SecretServiceProofs` | | done: `Structure`, `CompletedIsFinal`, `CompletedIsUnlocked` |
| 15 | `KSecretDStore`, `KSecretDStoreProofs` | `KSecretD`, `KSecretDProofs` | `KSecretD` implements `SecretStore` | done: `DirtyHasTimer`, `NoStaleWriteBack`, `Implements` |

The order is by what is lost when it goes wrong: contents and keys first, then
what clients are told, then caches.  All modules are written to be proved
about: parameters are CONSTANTS with a named assumption as weak as the code
allows, invariants are conjunctions of named parts, and there is no recursive
operator anywhere.

## 3. The modules

A module's definitions have the names the code gives them, where it gives any;
`PROJECT.json` (`map`) says which lines each stands for.  Operators with a
"(Mutant: ...)" comment are plausible bugs, used only to see that a property
notices them; they are never part of `Next`.

### KSecretD

| variable | code |
|---|---|
| `wallets`, `closeTimers`, `syncTimers` | `_wallets`, `_closeTimers`, `_syncTimers`; a backend is its name, `isOpen()`, cipher, password and contents |
| `transactions`, `stage`, `current` | `_transactions`; where `processTransactions()` is; `_curtrans` |
| `target`, `reclose` | the locals `w` and `reclose` of `doTransactionChangePassword()`; `target` is `"freed"` once somebody deleted the backend |
| `answers` | the promise of each request: waiting, a handle, -1, done, or gone with the process |
| `files` | the `.kwl` files: absent, too short, or contents and password |
| `life`, `enabled`, `closeIdle` | the process; the settings |
| `writes`, `renamedOnto` | history: numbers each change of contents; names renamed onto while in use |

*Interleaving.*  `stage` says which handler is suspended.  In `"running"` and
`"begin"` the thread belongs to `processTransactions()`; in a dialog stage it
is in a nested event loop, and `EventLoop` admits every other action.  What
happens when the dialog ends is one action, because no event is served in it.

*Failures.*  `Faults` switches on: saves that fail, opens that fail with an
unread header, renames and removals of files that fail, files removed from
outside, the daemon disabled, the process killed.  Ending in `"nullptr"` or
`"dangling"` is the code using a null or a deleted Backend; since anything may
follow, the model follows it no further.

*Contents* are one number, the count of the last change, so that older and newer
can be told apart; `WriteEntry` stands for all the calls that change contents.
A handle given out again is possible as soon as it is free, because
`generateHandle()` looks only at the table.

### SecretStore, and how KSecretD implements it

`SecretStore` has no handles, dialogs, timers or queue: wallets are stored under
passwords, unlocking starts a session on exactly what is stored, locking stores
the session, a crash leaves what was stored.  The mapping (`KSecretDStore`): what
is stored is `files`, a session is what the open backends hold; handles, timers,
dialogs and the queue do not show.  With `MayLose = FALSE` a session never ends
unsaved; `StoreAssumption` allows that only where no save and no open fails and
nobody removes files from outside.

A rename moves a wallet to a free name, stored and unlocked contents alike.  But
`renameWallet()` looks only for a file: while the dialog that makes a wallet is
up, or a wallet whose file vanished is open, it puts a second wallet under the
name.  The store calls such a name mixed (`renamedOnto`), promises nothing of it,
and says exactly when that may happen: while the user is asked for the password of
the name (the input `asked`), or where files may vanish.  A wallet that leaves a
mixed name for a free one is again like any other (`Return`).  The run
`daemon_store` checks the mapping with crashes, failing removals and the renames of
one wallet onto the name of another; `KSecretDStoreProofs` proves it with any faults and
renames.

### WalletBackend

One backend over the two files of each wallet.  A call is cut where the
directory changes, since the process may be killed there; nothing else runs in
between.  Keys are symbolic: a password with a salt, or with `Sha1` for the
hash of version 0 files, or `Zero` for a hash `close()` has wiped.  Random salts are
fresh: `WriteSalt` takes one not in `Used`.  `Init` has wallets from before
PBKDF2, or none, so that each upgrade happens within the run.

The history variable `stranded` names wallets whose salt some call has lost for
a key in use; it grows in four places of the code and nowhere else, and
`Readable` says that every other wallet opens under its password:

1. `renameWallet()` between its two `QFile::rename()`, or when only one of them
   moved its file (`Parted`; a wallet whose two files moved is not stranded by it);
2. `setPassword()` when an existing salt cannot be read: `createAndSaveSalt()`
   removes it first;
3. `createAndSaveSalt()` when the file cannot be created or flushed (`close()`
   is not checked);
4. `deleteWallet()` when the `.kwl` file could not be removed and the `.salt`
   file could.

### SecretService

| variable | code |
|---|---|
| `collections` | `m_collections`: object path → wallet name and `m_handle` |
| `prompts` | `m_prompts`: what was asked, `m_transactionIds` (as a count), `m_result`, the Completed signals sent |
| `aliases`, `served` | the group of aliases in kwalletrc; what is registered on the bus under each |
| `wallets`, `queue`, `current`, `processing` | the daemon, as far as this component sees it |
| `firstUse` | `_firstUse` of the daemon, which kwalletrc says once |
| `doubtful`, `overtaken` | history: see below |

The daemon is abstracted: a wallet is open or not; a transaction is queued, in
its dialog, or answered; saving works (KSecretD is about when it does not).
Futures of `ksecretd` are given their continuation with `.then(this, ...)`
in the thread that finishes them, so that `walletAsyncOpened()` runs in the step
that answers the transaction; this, like the behaviour of `QDBusConnection`,
belongs to Qt and is an assumption.

`doubtful` names the wallets whose one-to-one link to a collection is broken by
a cause the code does not handle: the file removed from outside, a file below
60 bytes, a rename that fails half-way, a rename onto the name a first dialog is
shown for; a rename hands the doubt on.  The properties say that these are the
*only* causes.  A collection of such a name may stay on the bus under an alias
that has moved on to another wallet, and `AliasesAgree` allows just that.

`overtaken` is the other exception.  On first use, until the local wallet has a
file, `doTransactionOpen()` makes the wallet it is asked to open the default one
(`FirstUse`; `LocalWallet = None` is the setting by which the local wallet is the
default one).  It writes kwalletrc and tells the bus nothing: the collection that
is served as `default` at that moment is `overtaken`, until somebody sets that
alias, the collection is deleted or the daemon ends.

`Unlock()` returns the unlocked objects at once and makes a prompt of the others;
`CallUnlock` takes those others.

Assumed here: a client calls `Prompt()` once per prompt, and does not cross a
Completed(false) with a Dismiss(); names are opaque (different labels do not
collide in their mangled paths or encoded file names); nobody edits kwalletrc
from outside.

### KWalletD

| variable | code |
|---|---|
| `objects`, `inbox` | the `Wallet` objects (`d->handle`, `d->name`, `d->transactionId`); the signals a process has not handled |
| `sessions`, `lastTid` | `m_openWallets`, `s_lastTransaction` |
| `jobs`, `busy` | `open()` calls and `openAsync()` timers that wait; the one kwalletd is blocked in |
| `serviceUp`, `exists`, `unlocked`, `notices` | the Secret Service and its signals on the way to kwalletd |
| `unheard`, `outdated`, `failed` | history: see below |

One action per call or slot.  `open()` is in two (call and reply), because the
user may take any time; the other calls reply at once, so that call, handling
and reply are one step.  A process in `open()` handles no signal (`Runs`), and
kwalletd in a prompt handles no call and no notice (`Free`): libsecret's `_sync`
functions run a main context of their own.  That `Locked` is read from a proxy
that may not have seen the last change is in `SeenUnlocked`; that it has seen it
when kwalletd has handled the notice is an assumption on libsecret.  Waiting
calls are taken up in any order.

The application name of a process is chosen in `Init`, so that two processes
share one or not.  An application that ends is one that deletes its objects:
kwalletd does not watch its clients.  Handles are random numbers in the code and
are taken to differ (also from 0 and from the negative number `std::abs()`
can return).

The history variables name the cases the properties except, each with its one
cause: `unheard`, handles closed by `close(wallet, true)` while their application
has another session; `outdated`, objects with a transaction id that a kwalletd that died may have
used (also of objects that call `openAsync()` before their process has handled what the
old one sent); `failed`, objects whose `openAsync()` failed.

### Entries and SecretItems

`Entries` holds no state: it defines the contents of a wallet (folders, and
entries by location) and the operations of `Backend` on them as functions, with
the order in which `QMap` keeps them, and `ReadBack`, what `read()` makes of a
file: `read()` skips an entry of unknown type without its value, so that the
entries after it are lost.  A key is a name and the suffix that makes it unique.

| variable of `SecretItems` | code |
|---|---|
| `unlocked`, `wallet`, `pending` | `m_handle`, the open wallet's `_entries`, the sync timer of 5 s |
| `kwl`, `json` | the two files: the wallet's, and the attributes' |
| `items`, `paths` | `m_items`: object path → location; `m_itemCounter` |
| `attrs` | `_params` of the attributes |
| `value`, `kept`, `misread`, `estranged`, `mishaps` | history and bounds: see below |

One action per D-Bus call, with the signals it causes: `removeEntry()` and
`renameEntry()` of the daemon tell the service, whose `entryDeleted()` and
`entryRenamed()` act on the first item at that location *before* the calling
`Delete()` or `setLabel()` goes on (`Told`).  A secret is refused (a session that
is not there, bytes that are not UTF-8) where the code looks at it: after
attributes and item have been made.  The attributes file is written by most
calls, and a failure is only logged (`WriteJson`).  A crash (`Restart`) forgets
what is in memory and makes the items anew from the attributes.

`estranged` is set by the calls after which the files no longer match: a secret
refused after its item was made, an item deleted or relabelled while locked, a
crash or a failed save that leaves the attributes ahead of the entries.  The
properties say that nothing else separates them, that nothing but reading such a
file loses a secret (`misread`), and what holds even then.

### ProxyFolders

| variable | code |
|---|---|
| `items` | the items of the collection in the service: server (folder), user (key), type; what they hold, and how often it is encoded |
| `listed` | what libsecret has loaded of them, by folder |
| `structure`, `ownUpdate`, `due` | `m_structure`, `m_updateInProgress`, `m_dirtyCollections` with its 100 ms timer |
| `signals` | item signals kwalletd has not handled, its own and others' |
| `job` | the `renameEntry()` in progress: what it read, whether the old entry is gone |
| `value`, `kept`, `missed`, `mishaps` | history and bounds |

Each call of the old interface is one action, but for `renameEntry()`, which is
three: a search, a deletion and a write, each a call to the service between
which other clients' changes arrive and kwalletd may die.  Signals wait for
the end of the call, because libsecret's `_sync` functions do not run the main
loop.  Searches ask the service; the list of folders is read from what libsecret
has loaded, which lags behind (`ItemsLoaded`).

`missed` is the set of folders the cache was left behind of: the flag swallowed the
signal of another client, a reload or a call read a list that lags, or only the last
item of the folder could be removed.  A later reload, service or restart makes the
set anew.  The `course` of a `job` is `"misled"` when its search for the new key
failed, and `"disturbed"` once another client wrote or removed an item; then
`deleteEntry()`, which searches again, may find an item of the same key and another
type than the one that was read.  What was read is then in `copied`, as it ends up
under both keys.

## 4. The runs

| run | instance | states | what it shows |
|---|---|---|---|
| `daemon_faults` | 3 wallets, limit 1, 2 requests, 2 passwords | 1.15 M | the table, timers, suspended transaction and answers under all faults |
| `daemon_renames` | 2 wallets, 2 windows, any rename, disabling | 1.34 M | one backend per wallet, dialogs find the table they looked at, no stale save |
| `daemon_store` | 2 wallets, crashes, one rename | 0.52 M | the refinement of `SecretStore`, and progress |
| `backend_faults` | 2 wallets, 2 passwords, 3 salts, every fault | 0.31 M | keys, salts and files stay together |
| `service_prompts` | 2 wallets, 2 prompts (one over two collections), another client | 0.95 M | prompts complete, once, last, with an unlocked collection |
| `service_collections` | 2 wallets, 2 aliases, first use or later, every fault | 2.32 M | collections, wallets, handles and aliases agree |
| `proxy_sessions` | 2 wallets, 2 processes with an object each, 1 or 2 application names, every fault | 4.76 M | objects, sessions and wallets agree but for signals under way |
| `items_faults` | 2 folders, 1 name, 2 keys each, 2 items, every fault | 1.40 M | entries, attributes and items stay in step; secrets are kept |
| `proxy_folders` | 2 folders, 2 keys, 2 types, another client, 2 mishaps | 1.56 M | folders follow items; renames keep values |
| three `violation` runs | one or two wallets | small | section 7 |

**`daemon_faults`**: `Structure` (types; a suspended change of password holds a
backend that exists or is known to be gone), `TimersMatchTable`, `BoundedOpen`,
`WaitingIsPending`, `AnswerIsTheWallet`.  With `OpenLimit = 1` the table can hold
two, so three wallets reach the limit and pass it if the code let them;
two requests are what it takes for one to be queued behind the dialog of the
other, and three handles for one to be reused.

**`daemon_renames`**: `UniqueOpen`, `DialogConsistent`, `DirtyHasTimer`,
`NoStaleWriteBack`.  Two names are a rename; the interesting orders are renames
within dialogs.  The four make exceptions only for names renamed onto while
they were open or being opened: a `renameWallet()` onto the name of a wallet
whose *create* dialog is up makes two backends over one file.

**`daemon_store`**: `Implements`, `EveryCallerAnswered`, `ChangesReachDisk`.  No
symmetry, since liveness is checked, and renames in one direction only: one wallet moves
onto the name that the other is opened or made under.  `ChangesReachDisk` leaves out
a name that was renamed onto, since of two backends over one file the one without the
change has no sync timer.

**`backend_faults`**: `Structure`, `Readable`, `NoDowngrade`, `NoOlderContents`.
Two wallets for renames, three salts: one in each file and a fresh one.

**`service_prompts`**: `Structure` (with: `m_transactionIds` counts exactly the
transactions queued, in a dialog or failed), `CompletedIsFinal`,
`CompletedIsUnlocked`, `PromptCompletes`.  A prompt for two collections and
another for one, in the same window, is the smallest case where the failure of
one transaction answers a second prompt's.

**`service_collections`**: `CollectionsAreWallets`, `NoStaleHandle`,
`AliasesAgree`.  One prompt makes the wallets; `MaxCollections = 2` bounds only
the removals of files from outside, each of which can add a second
collection to a name.  `Init` chooses whether the user is new; the default is the
local wallet, as the settings have it when there is one wallet.

**`proxy_sessions`**: `Structure` (types; every waiting object has exactly one
call, timer or answer under way), `OpenIsASession`, `SessionIsTheWallet`,
`SessionsUnlocked`, `ClosedIsClosed`.  Two objects are what it takes for a
signal about one session to reach another, two wallets for an application to
keep a session when one is closed.  `MaxSignals = 1` lets kwalletd die while one
signal is unhandled, so that its successor can give out the same transaction id.

**`items_faults`**: `Structure`, `EveryEntryHasItem`, `ItemsMatchEntries`,
`SecretsAreKept`, `MisreadOnlyEstranged`, `CreateKeepsEntries`, `LabelTakesAll`,
`QuietRestart`.  Two folders make a label that moves an entry to another folder
and an order in which a misread entry hides the next; one name with one suffix
makes the collision that labels have to avoid; two items can share a location.
`Init` has a wallet with an entry from before the Secret Service, or none.

**`proxy_folders`**: `Structure`, `FoldersListed`, `SecretsSurvive`,
`ChangesAreSeen`.  Two types make two items of one key, which `removeEntry()` and
`renameEntry()` cannot tell apart; two signals are what it takes for a foreign one
to be swallowed behind an own one.  The types are a text and a map: only what renaming a
stream does to its encoding needs streams, and that is the run `renamed_stream`.

*Bounds.*  `Request`, `Prompt`: each call is made once, so behaviours are finite
in calls while sessions of the process repeat without bound.  `MaxWrites` bounds
changes of contents, `MaxQueue` the transactions of other clients, `MaxObjects`
the collections in one Unlock(), `MaxCollections` as said; each `Object` is used
for one `openWallet()`, `MaxNotices` bounds what the service changes before
kwalletd hears of it and `MaxSignals` what applications together have left to handle
when kwalletd dies.  `MaxValue` bounds the secrets written, `MaxPath` the object paths
given out, `MaxCopy` the suffixes tried, `MaxLayers` the encodings of a stream
(which only `renamed_stream` has),
`MaxMishaps` failures, crashes and estranging calls; `MaxSignals` of
`ProxyFolders` the signals under way when a change begins.  The theorems below
need none of them.

*Symmetry* is used in safety runs only, over sets no definition tells apart
(names, handles, requests, windows; salts, passwords; applications, and
processes together with their objects).  `SecretService` has
none: `First` orders paths by `Rank`, as `std::map` does.

*Deadlock* is checked in every run.

## 5. Fairness

`KSecretD!FairSpec`: the event loop serves what is pending, so `Processing` and
`EmitWalletListDirty` are weakly fair, and so is each sync timer; the
destructor ends; and the user ends each dialog some time, without which no
caller of a wallet with a password is answered by anybody.  A dialog stage stays enabled
until it ends, so weak fairness suffices.  Nothing is assumed of clients, and
nothing of the idle timers.  One assumption is hidden in a bound:
`initiateSync()` restarts the 5 s timer of its wallet at each change, so that a
client that never pauses for 5 s keeps its changes off the disk;
`ChangesReachDisk` holds because `MaxWrites` makes the clients pause.

`SecretService!FairSpec`: `Begin` (the queue) and `DialogEnds`, for the same
reasons.  `Start` is not fair: after a crash nobody need start the service, and
`PromptCompletes` counts its going away as an answer.

`ProxyFolders!FairSpec`: a rename in progress goes on (`RenameDelete`,
`RenameWrite`), signals are delivered, the timer of the reload runs out, and libsecret
loads what it has heard of.  No call is fair.  Each signal that is not ignored
starts the 100 ms anew (`secretserviceclient.cpp:440`), which the model leaves out: a
reload is `due`, and the timer runs out some time between
calls, and `ChangesAreSeen` assumes that renames do not follow each other
without a pause.

`KWalletD` and `SecretItems` are checked for safety only and state no fairness.

## 6. The proofs

`tlapm` checks every theorem for all values of the constants: any number of
names, handles, requests, passwords, any limit, any set of faults.

### KSecretDProofs

Assumed: `ConstantsAssumption` of KSecretD (the special values are not handles;
the limit and the bound are numbers).

The argument is one inductive invariant: `Structure`, the table's part
`TableInvariant` and `WaitingIsPending`.  The table's part is not inductive alone: `BoundedOpen` and
`UniqueOpen` at the end of a dialog need what was true at its beginning to be
true still, which is `DialogConsistent`; and that no other action disturbs it
needs `QueueConsistent`, that is, that only the transaction being processed
inserts.  Each action has a lemma for each part it can disturb; the helpers
(`Insert`, `Forget`, `Saved`, `Finish`, ...) have type lemmas of their own.

| theorem | says |
|---|---|
| `StructureCorrect` | `Spec => []Structure` |
| `TimersAgree` | `Spec => []TimersMatchTable` |
| `OneBackendPerWallet` | `Spec => []UniqueOpen` |
| `DialogStillRight` | `Spec => []DialogConsistent` |
| `TableBounded` | `Spec => []BoundedOpen`: `OpenLimit + 1`, the 21 of the code, however calls interleave |
| `CallersPending` | `Spec => []WaitingIsPending` |
| `HandlesAreRight` | `Spec => AnswerIsTheWallet` |

### KSecretDStoreProofs

Assumed: `ConstantsAssumption`, and for the refinement `StoreAssumption`.

What a step does to contents is one of thirteen kinds (`DataStep`: a save, a
close, an open, ...), which each action is shown to be first; the rest of the
argument never looks at an action again.  `DirtyHasTimer` and `NoStaleWriteBack`
need the invariant `Contents`: an open backend that nobody renamed onto, and that
has a file, is of a known cipher, so that it can be saved; it is never behind its
file; and it is ahead only while its sync timer runs.  `Bounded` adds that nothing
is newer than the last change.  A rename changes two files and a name, and
its lemma (`DataRenamed`) needs `UniqueOpen` to know that no third backend is over
either of them.

For the refinement the session of a wallet that is not mixed is the contents of the
only open backend of that name.  Four lemmas about tables (`SessionDrop`,
`SessionHold`, `SessionValue`, `SessionMoves`) say how the sessions change when
backends go, or one is opened, written to or moved; each kind of step is then
shown to be an action of the store or a stutter.  Where nothing may be lost one
more part is needed, `Kept`: every backend of a name that is not mixed
is open, of a known cipher and over a file.  So a close can save it, and a
rename, which asks that no file has the new name, meets an open backend of that name
only where it is mixed already: what remains is the dialog.

| theorem | says |
|---|---|
| `ChangesAreTimed` | `Spec => []DirtyHasTimer` |
| `FilesStayNew` | `Spec => NoStaleWriteBack` |
| `DaemonIsAStore` | `Spec => Implements` |

### WalletBackendProofs

Assumed: `BackendAssumption` (special values differ from salts, keys, files).

`Readable` speaks of files; that a save keeps it needs to know what key the save
uses: `KeyInUse`, in `Structure`.  `StepConsistent` says what a call in progress
has established: of a rename, that the file it moves is under the key in memory
(`Written`), so that a `.salt` that comes along opens it under its new name.  Between removing and reading a file under an old salt one more part,
`OldReadable`, is needed: a version 0 file is under a hash of the old kind,
whatever happens to salts.  `BackendInvariant` is `Structure /\ Readable /\
OldReadable`; one lemma per action.

The other two say what a step may not do to a file.  They need `Current`: the
open backend is not older than its file, and writes the new form if the file has
it; a wallet in the new form is under a salted key; the target of a rename in
progress has no file.

| theorem | says |
|---|---|
| `KeysAreKept` | `Spec => []Structure` |
| `WalletsStayReadable` | `Spec => []Readable` |
| `UpgradesStay` | `Spec => NoDowngrade` |
| `ContentsStayNew` | `Spec => NoOlderContents` |

### ProxyFoldersProofs

Assumed: `ProxyAssumption` (the types are those kwalletd writes; the bounds are
numbers).

`SecretsSurvive` is not inductive: whether a rename may write what it read
depends on nobody having stored that value meanwhile, and on its key being still
free.  `InHand` says so: what a rename holds is stored nowhere but where it was
read, a rename nobody disturbed has its entry, and one whose search did not fail
either has its new key to itself.
`FoldersListed` speaks of quiet states only; `Listed` says for every state that
a folder with an entry, or with one in the hands of a rename, is in the cache,
or a reload is due, or the signal of another client is on its way; or it is missed.  `Invariant`
is `Structure /\ Kept /\ InHand /\ Listed`, with one lemma per action.

| theorem | says |
|---|---|
| `StructureCorrect` | `Spec => []Structure` |
| `FoldersListedCorrect` | `Spec => []FoldersListed` |
| `SecretsSurviveCorrect` | `Spec => []SecretsSurvive` |

### SecretItemsProofs

Assumed: `EntriesAssumption` (folders and names are numbers, and `"unknown"` is
not a type a client gives) and `ItemsAssumption`.

`SecretsAreKept` compares values with what was stored, and a later call may move,
copy or remove any of them: `Sound` says of both the open wallet and the file that
no two entries have one value, and `Secrets` that all of them are values given out
before (`Below`).  A label moves the entry in two ways, by renaming it and by copying
it to another folder; both are shown to be one relation, `Carried`, that keeps
`Sound` and the set of values.  `ItemsMatchEntries` speaks of unlocked collections;
`Joined` says what remains of it while locked (descriptions and items agree, and
the file has an entry for each), and that no entry has the type that `read()`
stumbles over, without which an unlock would lose entries.  The paths of the items an
unlock or a start makes are ranks of locations, and `RankIsInjective` says that no two
get one path.  `Invariant` is `Flags /\ Tables /\ Reached /\ Secrets /\ Joined`, with
one lemma per action.

| theorem | says |
|---|---|
| `StructureHolds` | `Spec => []Structure` |
| `EntriesAreReached` | `Spec => []EveryEntryHasItem` |
| `ItemsMatch` | `Spec => []ItemsMatchEntries` |
| `SecretsKept` | `Spec => []SecretsAreKept` |
| `MisreadEstranged` | `Spec => []MisreadOnlyEstranged` |
| `NewItemsKeepEntries` | `Spec => CreateKeepsEntries` |
| `LabelsTakeAll` | `Spec => LabelTakesAll` |
| `QuietRestarts` | `Spec => QuietRestart` |

### KWalletDProofs

Assumed: `ConstantsAssumption` of KWalletD (each object has an owner; the special
values are not wallets, objects or jobs; the bounds are numbers).

`SessionsUnlocked` needs two facts more: a kwalletd that does not run keeps nothing
(`Down`), and a service that is gone has said so to a kwalletd with sessions (`Gone`).

The other properties speak of what an object believes now, and that depends on
signals it has yet to handle.  So the invariant speaks of *claims*: an object
claims the handle it has, and each handle that a `walletAsyncOpened` in its inbox
is going to bring.  For every claim `Held` says that kwalletd has the session, of the
wallet asked for, or that a signal behind the claim closes it, and, for `openAsync()`,
that not both are true; `Once` says that no two objects claim one handle.  A step of the
application moves its claims one place down the inbox (`ReceivedClaims`); a step that closes
sessions adds signals behind all claims (`ClosingStep`, the one lemma for seven actions).
That the answer to one object is not taken for another's needs the rest: `Works` and
`Answers` (the ids in use are those of one kwalletd, and what an older one sent has
its `serviceUnregistered` behind it), `Accounted` (one call, timer or answer for each
object that waits), `Phases`, `Handles` and `ClosedIds`.  `Agreement` is their
conjunction; it is inductive together with `TypeOK` and `Down`.

| theorem | says |
|---|---|
| `UnlockedIsKept` | `Spec => []SessionsUnlocked` |
| `WaitingIsAccounted` | `Spec => []Structure` |
| `NoneIsMistaken` | `Spec => []OpenIsASession` |
| `SessionsAreTheirOwn` | `Spec => []SessionIsTheWallet` |
| `ClosedIsMeant` | `Spec => ClosedIsClosed` |

### SecretServiceProofs and SecretPromptsProofs

Assumed: `ConstantsAssumption` of SecretService.  Names are finitely many and
ranked, as the sorted lists of the code need to have a first element, and `None`
is no name, handle, path or transaction.

The three theorems about collections share one invariant.  `Linked(n)` says of a
name that is not doubtful that it has one collection if it is on disk and
none otherwise, is open once at most, only while its file is there, that its
collection has that handle or none, and that a wallet whose dialog is shown is not
open and is `brandNew` just when it is not on disk.  `CollectionsAreWallets` needs
the last part, because it is the end of the dialog that writes the file and makes
the collection; `NoStaleHandle` needs that a name is open once, because
a signal closes by name and a collection keeps a handle.  `OnAlias` is
`AliasesAgree` seen from the bus: what is registered under an alias is a
collection of the wallet kwalletrc names, or of a doubtful one, or the overtaken one
under `default`.  An open may make kwalletrc name another default; `FirstUseFacts`
says that what is served under it is overtaken then.  A rename changes
all of it at once, for two names; its lemma shows `Linked` of each name apart.
`IInv` is the conjunction with the types, and with `Down`: a daemon that does not
run has nothing open and serves nothing.

The theorems about prompts add `Sound(p, n)` for each prompt `p` with `n`
transactions outstanding: before `Prompt()` there are none; afterwards `left`,
the size of `m_transactionIds`, is the number outstanding and the number refused, and
with the results it makes up the objects; or Completed(false) has been
sent, and then nothing is outstanding.  A step that ends one transaction
may end others of the same window with it, those of other prompts
included; `Places` counts a prompt's transactions in a queue, and the lemmas
`CountTail` and `CountConcat` say what a removal from it or an addition to it does to
the count.

What a prompt has opened when it completes depends on the order of its
transactions.  `Ordered` says that as long as none of them was refused, the
last in the queue, or the one in its dialog if none is queued, opens the wallet
of the prompt's last object (`Fits`).  Completed(false) needs the last
id to leave with none refused (`Sound`), so the transaction that sends it is
that one; its wallet has one collection (`Linked`, of the state after the
step), which is therefore the one that was just given the handle.
`OnlyOpened` shows that no other step sends Completed(false).

| theorem | says |
|---|---|
| `CollectionsMatchFiles` | `Spec => []CollectionsAreWallets` |
| `HandlesAreFresh` | `Spec => []NoStaleHandle` |
| `BusFollowsAliases` | `Spec => []AliasesAgree` |
| `PromptsKnowTheirTransactions` | `Spec => []Structure` |
| `CompletionIsFinal` | `Spec => []CompletedIsFinal` |
| `CompletionUnlocks` | `Spec => CompletedIsUnlocked` |

### Only model-checked

`EveryCallerAnswered`, `ChangesReachDisk`, `PromptCompletes`, `ChangesAreSeen`:
liveness under fairness is beyond this prover.  Every other property of a
passing run is a theorem.

## 7. Where the code and its word part

Each is a run with one property, which TLC finds violated, and a finding in
`PROJECT.json` that quotes the line.

| run | what happens |
|---|---|
| `freed_during_dialog` | closing a wallet while its new-password dialog is up frees the backend the dialog's caller uses next |
| `renamed_stream` | a stream renamed through kwalletd is not decoded when it is read, but encoded when it is written: it comes back as text |
| `unheard_close` | a forced close or a lock of one wallet does not reach an application that has another one open: its object stays open, with a handle kwalletd does not know |

Other behaviour met while modelling is in the models as it is, without a run of
its own.  In the daemon:

- when the header of a file cannot be read and the user cancels the dialog, the
  unopened backend is inserted and its handle given out (`ksecretd.cpp:454`),
  though the comment at 310 says that the type is known by then;
- after "Error re-encrypting the wallet. Password was not changed." (607) the
  hashes in memory are the new ones, and the wallet is saved under them as soon as
  saving works again;
- deleting a wallet that is not open uses a null pointer (503, 631);
- a failed open answers the other opens of that client with -1 and leaves them
  queued (`ksecretd.cpp:160-178`): the dialogs the comment there wants to spare
  are shown again, for callers that have their answer;
- a crash between the two renames of `renameWallet()` leaves a wallet no password
  opens (the first of the four places of `stranded`);
- an `openAsync()` that fails in kwalletd, or whose kwalletd dies, is never
  answered, though `kwallet.h:155-163` promises to tell success or failure;
- transaction ids start at 1 again in a new kwalletd, and
  `disconnect(this, SLOT(walletAsyncOpened(int, int)))` (`kwallet.cpp:821`) undoes
  no connection made by `connect()`: an object that waited for the old kwalletd,
  or was opened by it and closed, takes the handle meant for another object; so does
  one that calls `openAsync()` before it handles what the old kwalletd had sent;
- `~Wallet()` calls `close(handle, false)`, which never erases a session: sessions
  outlive their objects and their applications, and hide later closes as in
  `unheard_close`;
- `applicationDisconnected` names a wallet and an application: an object that opened
  with the blocking `openWallet()`, in a process that has yet to handle the signal
  about an earlier session, is closed by it (`ClosedIsClosed` speaks of
  `openAsync()` only);
- `lockWallet()` ends only the session of its own object, and `deleteWallet()` of
  kwalletd none;
- `open()` of kwalletd does not ask `isEnabled()`, which its header says it does;
  `disconnectApplication()` always returns false; `deleteCollection()` tests the
  pointer `ok`, not what it points to;
- renaming a locked wallet (a collection's `setLabel()`) uses the same null
  pointer as deleting one;
- `KSecretD::wallets()` lists `.kwl` files below 60 bytes, which `openInternal()`
  takes for no wallet;
- a client's Dismiss() is followed by a second Completed when its transactions
  end, and a prompt several of whose wallets fail sends Completed(true) for each;
- two CreateCollection() of one label, both prompted before the first wallet is
  on disk, get one collection;
- CreateCollection() with an alias overwrites it in kwalletrc before the dialog;
  a cancelled one leaves it, `default` too, naming no wallet;
- an Unlock prompt keeps wallet names: after a `setLabel()` or `Delete()` it asks
  the user to create a wallet of the old name;
- a `setLabel()` whose reopening fails leaves a collection with the old label
  that does not hear when its wallet closes;
- `walletCreated()` makes a second collection for a wallet that has come back;
- on first use, opening a wallet that is not the local one makes it the default in
  kwalletrc (`ksecretd.cpp:274-288`) while the bus goes on serving the collection of
  the old one as `default`: `ReadAlias()` and the alias object name different
  wallets (`overtaken`); and each further open does the same until the local wallet
  has a file.

About items:

- `CreateItem()` makes attributes and item first; when the secret is refused they
  stay, without an entry, and nobody is told;
- such an item, moved to another folder, gets an entry of type Unknown: `write()`
  saves its key, type and value, and `read()` goes on at "Unknown entry"
  (`backendpersisthandler.cpp:347`) without reading the value, so that the entries
  after it are lost (`misread`);
- `SetSecret()`, `Delete()` and `setLabel()` do not ask whether the collection is
  locked: the first reports success and stores nothing, the others change the
  attributes and leave the entry, which the next unlock finds again;
- "same attributes" (`kwalletfreedesktopcollection.cpp:135`) is any item whose
  attributes include those asked for;
- the comment at 353 says "only the first time an handle is added, right at ctor
  time"; it is each time the wallet is opened.

About folders and entries in kwalletd:

- `renameEntry()` deletes before it writes: a crash or a failure in between loses
  the entry, and a search for the new key that fails counts as "not taken";
- the change of another client that follows an own one is ignored in its place,
  and a call that fails leaves `m_updateInProgress` set for the next: a folder that
  such a change makes stays unlisted until another signal, the service or kwalletd
  starts a reload (`missed`);
- `renameEntry()` deletes the first item of a search of its own, which may be one
  another client has just stored under that key with another type (`copied`);
- `removeEntry()` removes one of several items of that key (types differ), so that
  `hasEntry()` may still be true; of `removeFolder()`'s removals the last decides
  what is returned, and whether the folder is dropped from the cache;
- `createFolder()` is kept in memory: the next reload forgets an empty folder;
- `hasFolder()` is true of any part of the name of any folder of any wallet;
- `folderUpdated(folder, wallet)` (`kwalletd.cpp:74`) has its arguments swapped, as
  has a call of `listEntries()`;
- collections made by others after the start are watched only once they were
  unlocked through kwalletd;
- `Wallet::removeFolder()` of the last folder leaves the object in it.

## 8. What is not modelled

- **Ciphers and file layout** (Blowfish, CBC, SHA-1, PBKDF2, the bytes of a
  `.kwl` file): arithmetic over long inputs, with test vectors in the
  repository; keys are symbolic.
- **GPG wallets**: gpgme and pinentry decide; to the daemon an open succeeds or
  does not.
- **The MD5 index** (`folderDoesNotExist()`, `entryDoesNotExist()` of closed
  wallets), `createFolder()` and `removeFolder()` of the daemon: `Entries` has the
  operations the Secret Service uses.  KSecretD and WalletBackend keep contents as
  one number, since they are about which contents reach which file.
- **Sessions of the Secret Service**: the key exchange is libgcrypt's; a secret is
  accepted or refused.
- **The migration to another service** (`migrateData()`), and the 25 s timeout of
  D-Bus calls other than `open()`.
- **Several wallets in ProxyFolders**: a reload of one reads all; `m_structure` is
  modelled for one, and the sessions that calls ask for are `KWalletD`'s.
- **Dialog contents, the wizard, the wallet manager, the failed-access
  counter, `kwallet-query`, the macOS library**: user interface, or no state of
  their own.
- **Start-up I/O**: reading the PAM socket and environment in `main.cpp`.

## 9. How to run

    tlc -workers 2 -config KSecretD_faults.cfg MCKSecretD.tla
    tlapm KSecretDProofs.tla

and so on, with the modules and configurations `PROJECT.json` (`runs`) lists.
