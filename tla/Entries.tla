------------------------------- MODULE Entries -------------------------------
(***************************************************************************)
(* The contents of one wallet: KWallet::Backend's _entries, folders of     *)
(* entries by key, the operations of                                       *)
(* src/src/runtime/kwalletbackend/kwalletbackend.cc on them, and what a    *)
(* file written by backendpersisthandler.cpp gives back when it is read.   *)
(*                                                                         *)
(* A location is a folder and a key.  A key is a name and a copy: 0 for    *)
(* the bare name, n for the name with the suffix "__<n - 1>_" that         *)
(* FdoUniqueLabel::makeName() adds.  Folders and names are numbers, in     *)
(* the order QMap keeps them; none of them holds a slash.                  *)
(***************************************************************************)
EXTENDS Naturals, FiniteSets

CONSTANTS
  Folder, Name,
  MaxCopy,      \* bound: the highest suffix
  KnownType     \* types a client gives a secret: password, stream, map

ASSUME EntriesAssumption ==
  /\ Folder \subseteq Nat /\ Name \subseteq Nat /\ MaxCopy \in Nat
  /\ "unknown" \notin KnownType

Location == [folder : Folder, name : Name, copy : 0 .. MaxCopy]

\* Entries are told apart by a number, 0 for no value at all.
Entry == [type : KnownType \cup {"unknown"}, value : Nat]
NoEntry == [type |-> "unknown", value |-> 0]

Without(f, S) == [x \in DOMAIN f \ S |-> f[x]]
With(f, x, y) == [z \in DOMAIN f \cup {x} |-> IF z = x THEN y ELSE f[z]]

\* The folders, and the entries by location.
IsContents(c) ==
  /\ DOMAIN c = {"folders", "at"}
  /\ c.folders \subseteq Folder
  /\ DOMAIN c.at \subseteq Location /\ c.at \in [DOMAIN c.at -> Entry]
  /\ \A l \in DOMAIN c.at : l.folder \in c.folders

Nothing == [folders |-> {}, at |-> [l \in {} |-> NoEntry]]

HasFolder(c, f) == f \in c.folders
HasEntry(c, l) == l \in DOMAIN c.at
EntryAt(c, l) == IF HasEntry(c, l) THEN c.at[l] ELSE NoEntry
Values(c) == {c.at[l].value : l \in DOMAIN c.at} \ {0}

\* writeEntry() makes the folder it needs, and replaces an entry of that key.
WriteEntry(c, l, e) == [folders |-> c.folders \cup {l.folder}, at |-> With(c.at, l, e)]

RemoveEntry(c, l) == [c EXCEPT !.at = Without(@, {l})]

\* renameEntry() does nothing when the new key is taken, or the old one absent.
RenameEntry(c, old, new) ==
  [folders |-> c.folders \cup {old.folder},
   at |-> IF HasEntry(c, old) /\ ~HasEntry(c, new)
          THEN With(Without(c.at, {old}), new, c.at[old]) ELSE c.at]

-----------------------------------------------------------------------------
(* Order, and reading a file back *)

Precedes(l, m) ==
  \/ l.folder < m.folder
  \/ l.folder = m.folder /\ l.name < m.name
  \/ l.folder = m.folder /\ l.name = m.name /\ l.copy < m.copy

FirstOf(L) == CHOOSE l \in L : \A m \in L \ {l} : Precedes(l, m)
Rank(l, L) == Cardinality({m \in L : Precedes(m, l)})

\* Entries are written one after the other, each with its key, its type and its
\* value.  read() goes on to the next entry as soon as it sees a type it does not
\* know, without the value of that entry: the bytes after it are taken for
\* something else, and the model has none of them recognised.
ReadBack(c) ==
  LET unknown == {l \in DOMAIN c.at : c.at[l].type = "unknown"} IN
  [folders |-> {f \in c.folders : \A u \in unknown : f <= u.folder},
   at |-> Without(c.at, {l \in DOMAIN c.at : \E u \in unknown : l = u \/ Precedes(u, l)})]
=============================================================================
