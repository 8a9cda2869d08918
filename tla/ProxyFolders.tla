----------------------------- MODULE ProxyFolders -----------------------------
(***************************************************************************)
(* Folders and entries of one open wallet as kwalletd offers them          *)
(* (src/src/runtime/kwalletd/kwalletd.cpp, secretserviceclient.cpp) over   *)
(* the items of a Secret Service collection that other clients write too.  *)
(*                                                                         *)
(* An entry is an item with the attributes server, user and type.  Folders *)
(* do not exist in the service: kwalletd caches their names and mends the  *)
(* cache by the signals of the service, of which it ignores the ones that  *)
(* it takes for the echo of its own changes.  Other wallets are re-read    *)
(* along with this one and left out; sessions are the module KWalletD.     *)
(***************************************************************************)
EXTENDS Naturals, Sequences, FiniteSets

CONSTANTS
  Folder, Key,
  Type,         \* "plaintext", "base64" and "map": the types kwalletd writes
  MaxValue,     \* bound: values written in one behaviour
  MaxLayers,    \* bound: encodings one inside the other
  MaxSignals,   \* bound: signals on their way when a change begins
  MaxMishaps    \* bound: failures and restarts in one behaviour

ASSUME ProxyAssumption ==
  /\ Type \subseteq {"plaintext", "base64", "map"}
  /\ MaxValue \in Nat /\ MaxLayers \in Nat /\ MaxSignals \in Nat /\ MaxMishaps \in Nat

VARIABLES
  items,      \* the items of the collection, by their attributes
  listed,     \* folders of the items that libsecret has loaded
  structure,  \* m_structure: the folders kwalletd knows of
  ownUpdate,  \* m_updateInProgress
  signals,    \* "own" or "other": changes of items kwalletd has yet to hear of
  due,        \* m_dirtyCollections is not empty, and m_collectionDirtyTimer runs
  job,        \* the renameEntry() in progress, if any
  value,      \* number of values written
  kept,       \* history: values that were stored and not removed or replaced since
  copied,     \* history: values a rename read from one item and deleted another instead
  missed,     \* history: folders the cache was left behind of, see FoldersListed
  mishaps     \* number of failures and restarts

history == <<kept, copied>>
vars == <<items, listed, structure, ownUpdate, signals, due, job, value, history, missed, mishaps>>

Slot == [folder : Folder, key : Key, type : Type]
Item == [value : Nat, layers : Nat]
\* "misled": the search for the new key failed; "disturbed": another client has changed
\* items since.
Job == [from : Slot, key : Key, item : Item, gone : BOOLEAN,
        course : {"straight", "misled", "disturbed"}]

-----------------------------------------------------------------------------
(* Helpers *)

With(f, x, y) == [z \in DOMAIN f \cup {x} |-> IF z = x THEN y ELSE f[z]]
Without(f, S) == [z \in DOMAIN f \ S |-> f[z]]

FoldersOf(its) == {s.folder : s \in DOMAIN its}
Values(its) == {its[s].value : s \in DOMAIN its}

\* retrieveItem() with type Unknown: whatever its type, and there may be several.
SlotsOf(f, k) == {s \in DOMAIN items : s.folder = f /\ s.key = k}

\* writeEntry() of the client encodes what has type Base64, once more if need be.
Coded(t, layers) == IF t = "base64" THEN layers + 1 ELSE layers

Mishaps(n) == mishaps + n <= MaxMishaps /\ mishaps' = mishaps + n

UseValue == value < MaxValue /\ value' = value + 1

\* The service tells of each change, of some with two signals.
Signalled(who, n) == signals' = signals \o [i \in 1 .. n |-> who]
Room == Len(signals) < MaxSignals
OwnChange == ownUpdate' = TRUE /\ \E n \in {1, 2} : Signalled("own", n)

\* The flag is set before the call, and a call that fails leaves it so.
OwnFailure == ownUpdate' = TRUE /\ Mishaps(1) /\ UNCHANGED signals

-----------------------------------------------------------------------------
(* The calls of the old API *)

\* Kept in memory only.
CreateFolder(f) ==
  /\ job = {}
  /\ structure' = structure \cup {f}
  /\ UNCHANGED <<items, listed, ownUpdate, signals, due, job, value, history, missed, mishaps>>

\* A folder is new when libsecret has loaded no item of it.  (Mutant: new folders
\* are left to the signals.)
InsertedNever(f) == structure
Inserted(f) == IF f \in listed THEN structure ELSE structure \cup {f}

WriteEntry(f, k, t) ==
  /\ job = {} /\ Room
  /\ LET s == [folder |-> f, key |-> k, type |-> t] IN
     \/ /\ UseValue
        /\ items' = With(items, s, [value |-> value + 1, layers |-> Coded(t, 0)])
        /\ kept' = (kept \ {items[r].value : r \in {s} \cap DOMAIN items}) \cup {value + 1}
        /\ structure' = Inserted(f)
        /\ missed' = missed \cup ({f} \cap (listed \ FoldersOf(items)))
        /\ OwnChange /\ Mishaps(0)
     \/ OwnFailure /\ UNCHANGED <<items, structure, value, kept, missed>>
  /\ UNCHANGED <<listed, due, job, copied>>

\* removeEntry() removes one of the items of that key, and the folder from the cache
\* when libsecret lists no item of it.
RemoveEntry(f, k) ==
  /\ job = {} /\ Room /\ SlotsOf(f, k) # {}
  /\ \/ \E s \in SlotsOf(f, k) :
          /\ items' = Without(items, {s})
          /\ kept' = kept \ {items[s].value}
          /\ structure' = IF f \in listed THEN structure ELSE structure \ {f}
          /\ missed' = missed \cup ({f} \cap (FoldersOf(items') \ listed))
          /\ OwnChange /\ Mishaps(0)
     \/ OwnFailure /\ UNCHANGED <<items, structure, kept, missed>>
  /\ UNCHANGED <<listed, due, job, value, copied>>

\* removeFolder(): item by item.  The last one decides what the call returns, and
\* whether the cache drops the folder.
RemoveFolder(f) ==
  /\ job = {} /\ Room
  /\ LET all == {s \in DOMAIN items : s.folder = f} IN
     \E gone \in SUBSET all, ok \in BOOLEAN :
       /\ gone = all => ok
       /\ gone = {} /\ all # {} => ~ok
       /\ items' = Without(items, gone)
       /\ kept' = kept \ {items[s].value : s \in gone}
       /\ structure' = IF ok THEN structure \ {f} ELSE structure
       /\ missed' = IF ok /\ gone # all THEN missed \cup {f} ELSE missed
       /\ ownUpdate' = (ownUpdate \/ all # {})
       /\ Signalled("own", Cardinality(gone))
       /\ Mishaps(IF gone = all THEN 0 ELSE 1)
  /\ UNCHANGED <<listed, due, job, value, copied>>

\* renameEntry() reads the entry and looks whether the new key is taken.  It asks for
\* an item, so that a search that fails counts as none.  (Mutant: it does not look.)
TakenNever(f, k) == FALSE
Taken(f, k) == SlotsOf(f, k) # {}
RenameEntry(f, old, new) ==
  /\ job = {} /\ Room
  /\ \E s \in SlotsOf(f, old), misled \in BOOLEAN :
       /\ items[s].layers < MaxLayers
       /\ ~misled => ~Taken(f, new)
       /\ Mishaps(IF misled THEN 1 ELSE 0)
       /\ job' = {[from |-> s, key |-> new, item |-> items[s],
                   gone |-> FALSE,
                   course |-> IF misled THEN "misled" ELSE "straight"]}
  /\ UNCHANGED <<items, listed, structure, ownUpdate, signals, due, value, history, missed>>

\* deleteEntry() searches again and takes the first item of that key, the one that was
\* read unless another client has changed items since.
Straight(j) == j.course = "straight"
RenameDelete ==
  \E j \in job :
    LET found == SlotsOf(j.from.folder, j.from.key) IN
    /\ ~j.gone
    /\ \/ \E s \in IF j.course = "disturbed" THEN found ELSE {j.from} :
            /\ items' = Without(items, {s})
            /\ job' = {[j EXCEPT !.gone = TRUE]}
            /\ kept' = IF Straight(j) THEN kept ELSE kept \ {items[s].value}
            /\ copied' = IF s = j.from THEN copied ELSE copied \cup {j.item.value}
            /\ OwnChange /\ Mishaps(0)
       \/ /\ found = {} /\ job' = {}
          /\ UNCHANGED <<items, ownUpdate, signals, history, mishaps>>
       \/ OwnFailure /\ job' = {} /\ UNCHANGED <<items, history>>
    /\ UNCHANGED <<listed, structure, due, value, missed>>

\* What was read is written under the new key; a stream is encoded again.
RenameWrite ==
  \E j \in job :
    LET s == [j.from EXCEPT !.key = j.key] IN
    /\ j.gone /\ job' = {}
    /\ \/ /\ items' = With(items, s, [j.item EXCEPT !.layers = Coded(s.type, @)])
          /\ kept' = IF Straight(j) THEN kept
                     ELSE (kept \ {items[r].value : r \in {s} \cap DOMAIN items})
                            \cup {j.item.value}
          /\ OwnChange /\ Mishaps(0)
       \/ /\ OwnFailure
          /\ kept' = kept \ {j.item.value} /\ UNCHANGED items
    /\ UNCHANGED <<listed, structure, due, value, copied, missed>>

\* The calls that read: entryList(), hasEntry(), hasFolder(), readEntry() and the rest.
\* hasFolder() is also true of a folder whose name is part of one that is known.
EntryList(f) == {s.key : s \in {r \in DOMAIN items : r.folder = f}}
HasFolder(f) == f \in structure
ReadLayers(s) == IF s.type = "base64" THEN items[s].layers - 1 ELSE items[s].layers
Read == UNCHANGED vars

-----------------------------------------------------------------------------
(* Signals *)

\* onSecretItemChanged(): one signal clears the flag, whoever it tells of.
SecretItemChanged ==
  /\ job = {} /\ signals # <<>>
  /\ signals' = Tail(signals)
  /\ ownUpdate' = FALSE
  /\ due' = (due \/ ~ownUpdate)
  /\ missed' = IF ownUpdate /\ Head(signals) = "other"
               THEN missed \cup (FoldersOf(items) \ structure) ELSE missed
  /\ UNCHANGED <<items, listed, structure, job, value, history, mishaps>>

\* The timer of 100 ms: collectionDirty() clears the cache and reads it anew from what
\* libsecret has loaded.  (Mutant: it is only cleared.)
ReloadedEmpty == {}
Reloaded == listed
CollectionDirty ==
  /\ job = {} /\ due
  /\ due' = FALSE
  /\ structure' = Reloaded
  /\ missed' = FoldersOf(items) \ listed
  /\ UNCHANGED <<items, listed, ownUpdate, signals, job, value, history, mishaps>>

-----------------------------------------------------------------------------
(* The others *)

\* libsecret loads items after it has heard of them, in its own time.
ItemsLoaded ==
  /\ listed # FoldersOf(items)
  /\ listed' = FoldersOf(items)
  /\ UNCHANGED <<items, structure, ownUpdate, signals, due, job, value, history, missed, mishaps>>

Disturb == job' = {[j EXCEPT !.course = "disturbed"] : j \in job}

OtherWrites(s) ==
  /\ Room /\ UseValue
  /\ items' = With(items, s, [value |-> value + 1, layers |-> Coded(s.type, 0)])
  /\ kept' = (kept \ {items[r].value : r \in {s} \cap DOMAIN items}) \cup {value + 1}
  /\ Signalled("other", 1) /\ Disturb
  /\ UNCHANGED <<listed, structure, ownUpdate, due, copied, missed, mishaps>>

OtherRemoves(s) ==
  /\ Room /\ s \in DOMAIN items
  /\ items' = Without(items, {s})
  /\ kept' = kept \ {items[s].value}
  /\ Signalled("other", 1) /\ Disturb
  /\ UNCHANGED <<listed, structure, ownUpdate, due, value, copied, missed, mishaps>>

\* The service comes back: folders are added to the cache, none is dropped.
ServiceChanged ==
  /\ job = {} /\ Mishaps(1)
  /\ listed' = FoldersOf(items)
  /\ structure' = structure \cup listed'
  /\ missed' = {}
  /\ UNCHANGED <<items, ownUpdate, signals, due, job, value, history>>

\* kwalletd dies, in the middle of a rename or not, and is started again.
KWalletDRestarts ==
  /\ Mishaps(1)
  /\ kept' = kept \ {j.item.value : j \in {i \in job : i.gone}}
  /\ listed' = FoldersOf(items) /\ structure' = listed'
  /\ ownUpdate' = FALSE /\ signals' = <<>> /\ due' = FALSE
  /\ job' = {} /\ missed' = {}
  /\ UNCHANGED <<items, value, copied>>

-----------------------------------------------------------------------------
Init ==
  /\ items = [s \in {} |-> [value |-> 0, layers |-> 0]]
  /\ listed = {} /\ structure = {} /\ ownUpdate = FALSE /\ signals = <<>> /\ due = FALSE
  /\ job = {} /\ value = 0 /\ kept = {} /\ copied = {} /\ missed = {} /\ mishaps = 0

Calls ==
  \/ \E f \in Folder : CreateFolder(f) \/ RemoveFolder(f)
  \/ \E f \in Folder, k \in Key :
       RemoveEntry(f, k) \/ \E t \in Type : WriteEntry(f, k, t)
  \/ \E f \in Folder, k, m \in Key : RenameEntry(f, k, m)
  \/ Read

Others ==
  \/ \E s \in Slot : OtherWrites(s) \/ OtherRemoves(s)
  \/ ServiceChanged \/ KWalletDRestarts

Next == Calls \/ RenameDelete \/ RenameWrite \/ SecretItemChanged \/ CollectionDirty
          \/ ItemsLoaded \/ Others

Spec == Init /\ [][Next]_vars

\* A call goes on to its end, signals arrive, timers run out and libsecret loads
\* what it has heard of; nobody has to call anything.
Fairness ==
  /\ WF_vars(RenameDelete) /\ WF_vars(RenameWrite)
  /\ WF_vars(SecretItemChanged) /\ WF_vars(CollectionDirty) /\ WF_vars(ItemsLoaded)
FairSpec == Spec /\ Fairness

-----------------------------------------------------------------------------
(* Properties *)

\* The records stay within their types, and a rename onto its own key stops before it
\* deletes anything, unless its search failed or other clients interfere (renameEntry()).
Structure ==
  /\ IsFiniteSet(DOMAIN items)
  /\ DOMAIN items \subseteq Slot /\ items \in [DOMAIN items -> Item]
  /\ listed \subseteq Folder /\ structure \subseteq Folder
  /\ ownUpdate \in BOOLEAN /\ due \in BOOLEAN /\ missed \subseteq Folder
  /\ signals \in Seq({"own", "other"})
  /\ job \subseteq Job /\ \A i, j \in job : i = j
  /\ value \in 0 .. MaxValue /\ kept \cup copied \subseteq 1 .. value
  /\ mishaps \in 0 .. MaxMishaps
  /\ \A j \in job : j.gone => j.from.key # j.key \/ ~Straight(j)

\* When no signal is on its way and no reload is due, kwalletd lists every folder that
\* has an entry, but for those missed: folders of which it ignored the change by another
\* client, because its own change had set the flag; those a reload or a call found not
\* as libsecret has them; and one of which only the last entry could be removed
\* (m_structure, m_updateInProgress, removeFolder()).
Quiet == signals = <<>> /\ ~due /\ job = {}
FoldersListed ==
  Quiet => \A f \in Folder \ missed : EntryList(f) # {} => HasFolder(f)

\* Calls lose no value but the one they are meant to replace or remove, and keep each
\* under one key: a rename may lose one only when its second half fails, kwalletd dies
\* in between, the search for the new key fails, or another client writes or removes
\* items while it runs; and keeps one under both keys only when it deleted an entry of
\* another type that such a client stored (renameEntry(), deleteEntry(), writeEntry()).
SecretsSurvive ==
  /\ kept \subseteq Values(items) \cup {j.item.value : j \in job}
  /\ Values(items) \subseteq kept \cup copied
  /\ \A r, s \in DOMAIN items :
       items[r].value = items[s].value /\ items[r].value \notin copied => r = s

\* A folder in which anybody stores an entry is listed in the end, unless it is missed,
\* see FoldersListed, and no later signal, service or restart of kwalletd mends that.
\* Provided renames come to an end: each signal that is not ignored starts the timer
\* anew, and renames without a pause put the reload off (onSecretItemChanged(),
\* collectionDirty).
ChangesAreSeen ==
  <>[](job = {}) =>
    \A f \in Folder :
      EntryList(f) # {} ~> HasFolder(f) \/ EntryList(f) = {} \/ [](f \in missed)

\* What kwallet.h:353 says of renameEntry(): the entry has another name.  It still
\* reads as it was written.
StreamsReadBack == \A s \in DOMAIN items : ReadLayers(s) = 0
=============================================================================
