----------------------------- MODULE SecretItems -----------------------------
(***************************************************************************)
(* The items of one collection of the Secret Service                       *)
(* (src/src/runtime/ksecretd/kwalletfreedesktopcollection.cpp, ...item.cpp,*)
(* ...attributes.cpp, ...session.cpp) over the entries of its wallet       *)
(* (ksecretd.cpp).  An item is two things kept in two places: an entry in  *)
(* the wallet, which reaches the .kwl file when a timer of five seconds    *)
(* runs out or the wallet is locked, and attributes in a .json file that   *)
(* every change rewrites at once.  A third record, the objects on the bus, *)
(* joins the two by location.                                              *)
(***************************************************************************)
EXTENDS Entries

CONSTANTS
  Attribute,     \* attributes a client may give an item
  Imported,      \* the attributes "server", "user" and "type" of an entry found in a wallet
  MaxValue,      \* bound: secrets written in one behaviour
  MaxPath,       \* bound: the last object path of an item
  MaxMishaps     \* bound: failures, crashes and estranging calls in one behaviour

ASSUME ItemsAssumption ==
  /\ Imported \notin Attribute
  /\ MaxValue \in Nat \ {0} /\ MaxPath \in Nat /\ MaxMishaps \in Nat

VARIABLES
  unlocked,   \* m_handle >= 0
  wallet,     \* entries of the open wallet
  kwl,        \* the .kwl file
  pending,    \* the timer for the next sync() runs
  items,      \* m_items: the location of each item, by object path
  paths,      \* m_itemCounter
  attrs,      \* _params: the attributes by location; {} when it has none
  json,       \* the attributes file
  value,      \* number of secrets written
  kept,       \* history: secrets that were stored and not deleted or replaced since
  misread,    \* history: secrets in a file that reading the file left out
  estranged,  \* history: an item was made without its entry, or changed while locked
  mishaps     \* number of failures, crashes and estranging calls

vars == <<unlocked, wallet, kwl, pending, items, paths, attrs, json, value, kept, misread, estranged, mishaps>>

Description == SUBSET (Attribute \cup {Imported})

-----------------------------------------------------------------------------
(* Helpers *)

\* findItemByEntryLocation(): the first of them, in the order of the paths.
ItemsAt(its, l) == {p \in DOMAIN its : its[p] = l}
FindItem(its, l) == CHOOSE p \in ItemsAt(its, l) : \A q \in ItemsAt(its, l) : p <= q

\* The item that entryDeleted() and entryRenamed() of the service act on, if any.
Told(its, l) == IF ItemsAt(its, l) = {} THEN {} ELSE {FindItem(its, l)}

\* matchAttributes(): an item without attributes matches nothing.
Match(query) == {l \in DOMAIN attrs : attrs[l] # {} /\ query \subseteq attrs[l]}

\* makeUniqueEntryLocation() asks the wallet, by a handle that is -1 when locked.
\* (Mutant: the name is taken as it is.)
UniqueLocationTaken(f, n) == {[folder |-> f, name |-> n, copy |-> 0]}
UniqueLocation(f, n) ==
  LET free == {k \in 0 .. MaxCopy :
                 ~unlocked \/ ~HasEntry(wallet, [folder |-> f, name |-> n, copy |-> k])} IN
  {[folder |-> f, name |-> n, copy |-> k] : k \in {c \in free : \A d \in free : c <= d}}

Mishaps(n) == mishaps + n <= MaxMishaps /\ mishaps' = mishaps + n

\* write() only logs its failures: fails is 1 for a write that fails, else 0.
WriteJson(fails) == json' = IF fails = 1 THEN json ELSE attrs'

Estrange(condition) == estranged' = (estranged \/ condition)

\* What a call has written to the wallet waits for the timer of initiateSync().
Wrote(c) == wallet' = c /\ pending' = TRUE

UseValue == value < MaxValue /\ value' = value + 1

-----------------------------------------------------------------------------
(* CreateItem() *)

\* With replace, the item of the first match keeps its path and its location.
Replaced(query, replace) ==
  IF replace /\ Match(query) # {} /\ ItemsAt(items, FirstOf(Match(query))) # {}
  THEN {FirstOf(Match(query))} ELSE {}

\* newItem(), setAttributes() and pushNewItem().  (Mutant: the counter of the
\* paths stays.)
RegisterStuck(l, p, query) ==
  /\ attrs' = With(attrs, l, query)
  /\ items' = With(items, p, l)
  /\ UNCHANGED paths
Register(l, p, query) ==
  /\ attrs' = With(attrs, l, query)
  /\ items' = With(items, p, l)
  /\ paths' = IF p = paths THEN paths + 1 ELSE paths

\* The attributes and the item are made before the secret is looked at.
CreateItem(f, n, query, type, replace) ==
  /\ unlocked
  /\ \E l \in IF Replaced(query, replace) # {} THEN Replaced(query, replace)
              ELSE UniqueLocation(f, n), fails \in {0, 1} :
       LET p == IF Replaced(query, replace) # {} THEN FindItem(items, l) ELSE paths IN
       /\ p <= MaxPath
       /\ Register(l, p, query) /\ WriteJson(fails)
       /\ \/ /\ UseValue
             /\ Wrote(WriteEntry(wallet, l, [type |-> type, value |-> value + 1]))
             /\ kept' = (kept \ {EntryAt(wallet, l).value}) \cup {value + 1}
             /\ Mishaps(fails) /\ UNCHANGED estranged
          \/ /\ Mishaps(fails + 1) /\ Estrange(~HasEntry(wallet, l))
             /\ UNCHANGED <<wallet, pending, value, kept>>
  /\ UNCHANGED <<unlocked, kwl, misread>>

-----------------------------------------------------------------------------
(* An item *)

\* SetSecret() does not look whether the collection is locked: the entry is then
\* written to no wallet, and the caller sees no error.
SetSecret(p, type) ==
  /\ p \in DOMAIN items /\ UNCHANGED attrs
  /\ \E fails \in {0, 1} :
       /\ IF items[p] \in DOMAIN attrs THEN WriteJson(fails) ELSE fails = 0 /\ UNCHANGED json
       /\ \/ /\ unlocked /\ UseValue
             /\ Wrote(WriteEntry(wallet, items[p], [type |-> type, value |-> value + 1]))
             /\ kept' = (kept \ {EntryAt(wallet, items[p]).value}) \cup {value + 1}
             /\ Mishaps(fails)
          \/ Mishaps(fails + 1) /\ UNCHANGED <<wallet, pending, value, kept>>
  /\ UNCHANGED <<unlocked, kwl, items, paths, misread, estranged>>

SetAttributes(p, query) ==
  /\ p \in DOMAIN items /\ items[p] \in DOMAIN attrs
  /\ attrs' = With(attrs, items[p], query)
  /\ \E fails \in {0, 1} : WriteJson(fails) /\ Mishaps(fails)
  /\ UNCHANGED <<unlocked, wallet, kwl, pending, items, paths, value,
                 kept, misread, estranged>>

\* setDeleted().  (Mutant: the description of the item stays.)
ForgetNothing(l) == attrs
Forget(l) == Without(attrs, {l})

\* removeEntry() tells the service, which drops the first item of that location;
\* then the item itself is dropped.  A locked wallet keeps the entry.
Delete(p) ==
  /\ p \in DOMAIN items
  /\ LET l == items[p]
         told == unlocked /\ HasFolder(wallet, l.folder)
         dropped == {p} \cup (IF told THEN Told(items, l) ELSE {})
     IN
     /\ items' = Without(items, dropped)
     /\ attrs' = Forget(l)
     /\ IF told THEN Wrote(RemoveEntry(wallet, l)) /\ kept' = kept \ {EntryAt(wallet, l).value}
                ELSE UNCHANGED <<wallet, pending, kept>>
  /\ \E fails \in {0, 1} : WriteJson(fails) /\ Mishaps(fails + IF unlocked THEN 0 ELSE 1)
  /\ Estrange(~unlocked)
  /\ UNCHANGED <<unlocked, kwl, paths, value, misread>>

\* renameLabel(): the description moves, onto one that is there if need be.
\* (Mutant: it is copied.)
MovedCopy(descr, old, new) ==
  IF old \in DOMAIN descr THEN With(descr, new, descr[old]) ELSE descr
Moved(descr, old, new) ==
  IF old \in DOMAIN descr THEN With(Without(descr, {old}), new, descr[old]) ELSE descr

\* To another folder: a copy of the entry, then the removal of the old one, which
\* the service hears of.  (Mutants: the old entry is removed before it is read;
\* its type is lost.)
MoveEntryLate(l, new) == WriteEntry(RemoveEntry(wallet, l), new, NoEntry)
MoveEntryUntyped(l, new) ==
  RemoveEntry(WriteEntry(wallet, new, [EntryAt(wallet, l) EXCEPT !.type = "unknown"]), l)
MoveEntry(l, new) == RemoveEntry(WriteEntry(wallet, new, EntryAt(wallet, l)), l)

\* setLabel().  The item has its new label before the entry is touched, so that
\* what the service hears finds another item of the old location, if any.
SetLabel(p, f, n) ==
  /\ p \in DOMAIN items
  /\ \E new \in UniqueLocation(f, n), fails \in {0, 1} :
       LET l == items[p]
           its == [items EXCEPT ![p] = new]
           other == Told(its, l)
           away == unlocked /\ l.folder # new.folder
           heard == unlocked /\ l # new /\ (away => HasFolder(wallet, l.folder))
       IN
       /\ IF ~unlocked \/ l = new THEN UNCHANGED <<wallet, pending>>
          ELSE Wrote(IF away THEN MoveEntry(l, new) ELSE RenameEntry(wallet, l, new))
       /\ items' = IF ~heard THEN its
                   ELSE IF away THEN Without(its, other)
                   ELSE [q \in DOMAIN its |-> IF q \in other THEN new ELSE its[q]]
       /\ attrs' = IF heard /\ away /\ other # {} THEN Without(attrs, {l})
                   ELSE Moved(attrs, l, new)
       /\ IF l \in DOMAIN attrs THEN WriteJson(fails) ELSE fails = 0 /\ UNCHANGED json
       /\ Mishaps(fails + IF ~unlocked /\ l # new THEN 1 ELSE 0)
       /\ Estrange(~unlocked /\ l # new)
  /\ UNCHANGED <<unlocked, kwl, paths, value, kept, misread>>

\* SearchItems(), GetSecrets() and the properties of an item: what they answer.
Found(query) == {FindItem(items, l) : l \in {m \in Match(query) : ItemsAt(items, m) # {}}}
SecretOf(p) == EntryAt(wallet, items[p]).value
Read == UNCHANGED vars

-----------------------------------------------------------------------------
(* The wallet under the collection *)

TimedOutSync ==
  /\ pending
  /\ pending' = FALSE
  /\ \/ kwl' = wallet /\ Mishaps(0)
     \/ UNCHANGED kwl /\ Mishaps(1)
  /\ UNCHANGED <<unlocked, wallet, items, paths, attrs, json, value, kept,
                 misread, estranged>>

\* onWalletChangeState(): every entry without an item gets one.  The items of
\* entries that are not there stay.  (Mutant: only the first time.)
DiscoveredOnce(c) == IF paths = 0 THEN DOMAIN c.at ELSE {}
Discovered(c) == {l \in DOMAIN c.at : ItemsAt(items, l) = {}}
Unlock ==
  LET c == ReadBack(kwl)
      new == Discovered(c)
  IN
  /\ ~unlocked /\ paths + Cardinality(new) <= MaxPath + 1
  /\ unlocked' = TRUE /\ wallet' = c
  /\ items' = [p \in DOMAIN items \cup {paths + Rank(l, new) : l \in new} |->
                 IF p \in DOMAIN items THEN items[p]
                 ELSE CHOOSE l \in new : p = paths + Rank(l, new)]
  /\ paths' = paths + Cardinality(new)
  /\ attrs' = [l \in DOMAIN attrs \cup new |-> IF l \in new THEN {Imported} ELSE attrs[l]]
  /\ \E fails \in {0, 1} :
       /\ IF new = {} THEN fails = 0 /\ UNCHANGED json ELSE WriteJson(fails)
       /\ Mishaps(fails)
  /\ misread' = misread \cup (Values(kwl) \ Values(c))
  /\ UNCHANGED <<kwl, pending, value, kept, estranged>>

\* internalClose(): what sync() fails to save is lost, and nobody is told.
Lock ==
  /\ unlocked
  /\ unlocked' = FALSE /\ wallet' = Nothing /\ pending' = FALSE
  /\ \/ kwl' = wallet /\ Mishaps(0) /\ UNCHANGED <<kept, estranged>>
     \/ /\ UNCHANGED kwl /\ Mishaps(1)
        /\ kept' = Values(kwl) /\ Estrange(~(DOMAIN attrs \subseteq DOMAIN kwl.at))
  /\ UNCHANGED <<items, paths, attrs, json, value, misread>>

\* The process ends without close() and starts again: one item for each
\* description in the file.
Restart ==
  /\ Mishaps(1)
  /\ unlocked' = FALSE /\ wallet' = Nothing /\ pending' = FALSE
  /\ attrs' = json
  /\ paths' = Cardinality(DOMAIN json)
  /\ items' = [p \in {Rank(l, DOMAIN json) : l \in DOMAIN json} |->
                 CHOOSE l \in DOMAIN json : p = Rank(l, DOMAIN json)]
  /\ kept' = Values(kwl) /\ Estrange(~(DOMAIN json \subseteq DOMAIN kwl.at))
  /\ UNCHANGED <<kwl, json, value, misread>>

-----------------------------------------------------------------------------
\* A locked wallet, empty or with one entry from before the Secret Service.
Init ==
  /\ unlocked = FALSE /\ wallet = Nothing /\ pending = FALSE
  /\ kwl \in {Nothing} \cup
       {WriteEntry(Nothing, l, [type |-> t, value |-> 1]) :
          l \in {m \in Location : m.copy = 0}, t \in KnownType}
  /\ items = [p \in {} |-> 0] /\ paths = 0
  /\ attrs = [l \in {} |-> {}] /\ json = attrs
  /\ value = 1 /\ kept = Values(kwl) /\ misread = {} /\ estranged = FALSE
  /\ mishaps = 0

Next ==
  \/ \E f \in Folder, n \in Name, query \in SUBSET Attribute, t \in KnownType,
        replace \in BOOLEAN : CreateItem(f, n, query, t, replace)
  \/ \E p \in DOMAIN items, t \in KnownType : SetSecret(p, t)
  \/ \E p \in DOMAIN items, query \in SUBSET Attribute : SetAttributes(p, query)
  \/ \E p \in DOMAIN items : Delete(p)
  \/ \E p \in DOMAIN items, f \in Folder, n \in Name : SetLabel(p, f, n)
  \/ TimedOutSync \/ Unlock \/ Lock \/ Restart \/ Read

Spec == Init /\ [][Next]_vars

-----------------------------------------------------------------------------
(* Properties *)

\* The records stay within their types: an open wallet's entries lie in folders it
\* has, no item has a path the counter has yet to give out, and a locked collection
\* has neither contents nor a timer (onWalletChangeState(), nextItemPath(),
\* internalClose()).
Structure ==
  /\ unlocked \in BOOLEAN /\ pending \in BOOLEAN /\ estranged \in BOOLEAN
  /\ IsContents(wallet) /\ IsContents(kwl)
  /\ DOMAIN items \subseteq Nat /\ items \in [DOMAIN items -> Location]
  /\ paths \in Nat /\ \A p \in DOMAIN items : p < paths
  /\ DOMAIN attrs \subseteq Location /\ attrs \in [DOMAIN attrs -> Description]
  /\ DOMAIN json \subseteq Location /\ json \in [DOMAIN json -> Description]
  /\ value \in 0 .. MaxValue /\ kept \subseteq 0 .. value /\ misread \subseteq 0 .. value
  /\ mishaps \in 0 .. MaxMishaps
  /\ ~unlocked => wallet = Nothing /\ ~pending

\* In an unlocked collection no secret is out of reach: each entry of the wallet has
\* an item on the bus, whatever was renamed, deleted or described while the
\* collection was locked (onWalletChangeState(), setLabel(), entryDeleted()).
EveryEntryHasItem ==
  unlocked => \A l \in DOMAIN wallet.at : ItemsAt(items, l) # {}

Locations(its) == {its[p] : p \in DOMAIN its}

\* As long as no secret was refused after its item had been made, no item was changed
\* while locked and no save was lost, the three records name the same locations, and
\* no two items share one.
ItemsMatchEntries ==
  unlocked /\ ~estranged =>
    /\ Locations(items) = DOMAIN wallet.at /\ DOMAIN attrs = DOMAIN wallet.at
    /\ \A p, q \in DOMAIN items : items[p] = items[q] => p = q

\* Secrets are neither lost, nor doubled, nor do deleted or replaced ones come back:
\* the wallet holds the secrets that were stored and not deleted or replaced since,
\* each in one place (setLabel(), Delete(), CreateItem(), writeEntry()).
Current == IF unlocked THEN wallet ELSE kwl
SecretsAreKept ==
  /\ kept \ misread \subseteq Values(Current)
  /\ Values(Current) \subseteq kept
  /\ \A l, m \in DOMAIN Current.at :
       Current.at[l].value = Current.at[m].value => l = m \/ Current.at[l] = NoEntry

\* A file is read back in full unless somebody moved an item without an entry to
\* another folder, which writes an entry of type Unknown (setLabel(), read()).
MisreadOnlyEstranged == misread # {} => estranged

\* A call that makes a new item leaves every entry of the wallet as it was
\* (makeUniqueEntryLocation()).
CreateKeepsEntries ==
  [][unlocked /\ unlocked' /\ paths' > paths =>
       \A l \in DOMAIN wallet.at : HasEntry(wallet', l) /\ wallet'.at[l] = wallet.at[l]]_vars

\* An item that gets another label takes its secret and its attributes along
\* (setLabel(), renameLabel(), and entryRenamed() for an item that shares the entry).
LabelTakesAll ==
  [][unlocked =>
       \A p \in DOMAIN items \cap DOMAIN items' :
         items'[p] # items[p] /\ unlocked' =>
           /\ EntryAt(wallet', items'[p]) = EntryAt(wallet, items[p])
           /\ ~estranged => attrs'[items'[p]] = attrs[items[p]]]_vars

\* A crash while nothing waits to be saved brings back the same items with the same
\* attributes (listItems() in the constructor of the collection).
QuietRestart ==
  [][Restart /\ ~pending /\ ~estranged /\ json = attrs /\ (unlocked => kwl = wallet) =>
       Locations(items') = Locations(items) /\ attrs' = attrs /\ ~estranged']_vars
=============================================================================
