------------------------- MODULE ProxyFoldersProofs -------------------------
(* Theorems about ProxyFolders, for any folders, keys, types and bounds.     *)
EXTENDS ProxyFolders, FiniteSetTheorems, TLAPS

-----------------------------------------------------------------------------
(* The invariant: what is kept is in the items, each value once, or in the   *)
(* hands of a rename that has deleted its entry.                             *)

Kept ==
  /\ \A v \in kept : \/ \E s \in DOMAIN items : items[s].value = v
                     \/ \E j \in job : j.gone /\ j.item.value = v
  /\ \A s \in DOMAIN items : items[s].value \in kept \cup copied
  /\ \A r, s \in DOMAIN items :
       items[r].value = items[s].value /\ items[r].value \notin copied => r = s

\* The value in the hands of a rename is nowhere but where it was read; and a rename
\* that nobody disturbed has its entry, and one not misled its new key to itself.
InHand ==
  \A j \in job :
    /\ j.item.value \in 1 .. value
    /\ j.item.value \notin copied =>
         \A s \in DOMAIN items : items[s].value = j.item.value => s = j.from /\ ~j.gone
    /\ j.course # "disturbed" /\ ~j.gone => j.from \in DOMAIN items /\ items[j.from] = j.item
    /\ Straight(j) =>
         /\ j.item.value \in kept \cup copied
         /\ \A s \in DOMAIN items : s.folder = j.from.folder => s.key # j.key

\* A folder with entries, or whose entry a rename holds, is listed or missed, or a
\* reload or the signal of another client is to come.
OtherToCome == \E i \in 1 .. Len(signals) : signals[i] = "other"
Covered(f) == f \in structure \/ due \/ OtherToCome
Listed ==
  /\ \A s \in DOMAIN items : s.folder \notin missed => Covered(s.folder)
  /\ \A j \in job : j.from.folder \notin missed => Covered(j.from.folder)

Invariant == Structure /\ Kept /\ InHand /\ Listed

LEMMA InitInvariant == Init => Invariant
  <1> SUFFICES ASSUME Init PROVE Invariant
    OBVIOUS
  <1>1. Structure
    <2>0. IsFiniteSet(DOMAIN items)
      <3>1. DOMAIN items = {}
        BY DEF Init
      <3> QED BY <3>1, FS_EmptySet
    <2>1. DOMAIN items \subseteq Slot /\ items \in [DOMAIN items -> Item] /\ signals \in Seq({"own", "other"})
      BY DEF Init
    <2>2. ownUpdate \in BOOLEAN /\ due \in BOOLEAN /\ missed \subseteq Folder
      BY DEF Init
    <2>3. /\ listed \subseteq Folder /\ structure \subseteq Folder
          /\ job \subseteq Job /\ (\A i, j \in job : i = j)
          /\ \A j \in job : j.gone => j.from.key # j.key \/ ~Straight(j)
      BY DEF Init
    <2>4. value \in 0 .. MaxValue /\ kept \cup copied \subseteq 1 .. value /\ mishaps \in 0 .. MaxMishaps
      BY ProxyAssumption DEF Init
    <2> QED BY <2>0, <2>1, <2>2, <2>3, <2>4 DEF Structure
  <1>2. Kept /\ InHand /\ Listed
    BY DEF Init, Kept, InHand, Listed
  <1> QED BY <1>1, <1>2 DEF Invariant

-----------------------------------------------------------------------------
(* Types *)

LEMMA MishapsType ==
  ASSUME Structure, NEW n \in Nat, Mishaps(n)
  PROVE  mishaps' \in 0 .. MaxMishaps
  BY ProxyAssumption DEF Structure, Mishaps

LEMMA SignalledType ==
  ASSUME Structure, NEW who \in {"own", "other"}, NEW n \in Nat, Signalled(who, n)
  PROVE  /\ signals' \in Seq({"own", "other"})
         /\ Len(signals') = Len(signals) + n
         /\ \A i \in 1 .. Len(signals) : signals'[i] = signals[i]
         /\ \A i \in Len(signals) + 1 .. Len(signals') : signals'[i] = who
  <1> DEFINE more == [i \in 1 .. n |-> who]
  <1>1. more \in Seq({"own", "other"}) /\ Len(more) = n /\ \A i \in 1 .. n : more[i] = who
    OBVIOUS
  <1>2. signals \in Seq({"own", "other"}) /\ signals' = signals \o more
    BY DEF Structure, Signalled
  <1> HIDE DEF more
  <1> QED BY <1>1, <1>2

LEMMA ItemsType ==
  ASSUME Structure, NEW s \in Slot, NEW i \in Item, items' = With(items, s, i)
  PROVE  /\ IsFiniteSet(DOMAIN items')
         /\ DOMAIN items' \subseteq Slot /\ items' \in [DOMAIN items' -> Item]
  <1>1. DOMAIN items' = DOMAIN items \cup {s}
    BY DEF With
  <1>2. IsFiniteSet(DOMAIN items')
    <2>1. IsFiniteSet(DOMAIN items)
      BY DEF Structure
    <2> QED BY <1>1, <2>1, FS_AddElement
  <1>3. DOMAIN items' \subseteq Slot /\ items' \in [DOMAIN items' -> Item]
    <2>1. DOMAIN items \subseteq Slot /\ items \in [DOMAIN items -> Item]
      BY DEF Structure
    <2> QED BY <2>1 DEF With
  <1> QED BY <1>2, <1>3

LEMMA FewerItemsType ==
  ASSUME Structure, NEW S, items' = Without(items, S)
  PROVE  /\ IsFiniteSet(DOMAIN items')
         /\ DOMAIN items' \subseteq Slot /\ items' \in [DOMAIN items' -> Item]
  <1>1. DOMAIN items' \subseteq DOMAIN items
    BY DEF Without
  <1>2. IsFiniteSet(DOMAIN items')
    BY <1>1, FS_Subset DEF Structure
  <1>3. DOMAIN items' \subseteq Slot /\ items' \in [DOMAIN items' -> Item]
    BY DEF Structure, Without
  <1> QED BY <1>2, <1>3

LEMMA CodedType == ASSUME NEW t, NEW n \in Nat PROVE Coded(t, n) \in Nat
  BY DEF Coded

\* Signals are only added, and so what is covered stays covered.
LEMMA StaysCovered ==
  ASSUME Structure, NEW who \in {"own", "other"}, NEW n \in Nat, Signalled(who, n),
         UNCHANGED due, NEW f, Covered(f), f \in structure => f \in structure'
  PROVE  Covered(f)'
  <1>1. ASSUME OtherToCome PROVE OtherToCome'
    <2>1. PICK i \in 1 .. Len(signals) : signals[i] = "other"
      BY <1>1 DEF OtherToCome
    <2>2. i \in 1 .. Len(signals') /\ signals'[i] = "other"
      BY <2>1, SignalledType DEF Structure
    <2> QED BY <2>2 DEF OtherToCome
  <1> QED BY <1>1 DEF Covered

LEMMA OwnChangeFacts ==
  ASSUME Structure, OwnChange
  PROVE  ownUpdate' = TRUE /\ \E n \in Nat : Signalled("own", n)
  BY DEF OwnChange

LEMMA OwnFailureFacts ==
  ASSUME Structure, OwnFailure
  PROVE  ownUpdate' = TRUE /\ UNCHANGED signals /\ mishaps' \in 0 .. MaxMishaps
  BY MishapsType DEF OwnFailure

-----------------------------------------------------------------------------
(* What a change does to the values kept *)

\* The renames go on with what they have.
JobsStay == \A j \in job : \E i \in job' : i.gone = j.gone /\ i.item = j.item

\* A value nobody has used replaces the one of its slot.
LEMMA StoreKeeps ==
  ASSUME Structure, Kept, NEW s \in Slot, NEW n \in Nat, UseValue, JobsStay,
         items' = With(items, s, [value |-> value + 1, layers |-> n]),
         kept' = (kept \ {items[r].value : r \in {s} \cap DOMAIN items}) \cup {value + 1},
         UNCHANGED copied
  PROVE  Kept' /\ value' \in 0 .. MaxValue /\ kept' \cup copied' \subseteq 1 .. value'
  <1> DEFINE i == [value |-> value + 1, layers |-> n]
  <1>1. value \in Nat /\ value' = value + 1 /\ value' \in 0 .. MaxValue
        /\ kept \cup copied \subseteq 1 .. value
    BY ProxyAssumption DEF Structure, UseValue
  <1>2. \A v \in kept \cup copied : v # value + 1
    BY <1>1
  <1>3. /\ DOMAIN items' = DOMAIN items \cup {s} /\ items'[s] = i
        /\ \A z \in DOMAIN items : z # s => items'[z] = items[z]
    BY DEF With
  <1> HIDE DEF i
  <1>4. i.value = value + 1
    BY DEF i
  <1>5. ASSUME NEW v \in kept'
        PROVE  \/ \E z \in DOMAIN items' : items'[z].value = v
               \/ \E j \in job' : j.gone /\ j.item.value = v
    <2>1. CASE v = value + 1
      BY <2>1, <1>3, <1>4
    <2>2. CASE v \in kept /\ \E z \in DOMAIN items : items[z].value = v
      <3>1. PICK z \in DOMAIN items : items[z].value = v
        BY <2>2
      <3>2. CASE z = s
        BY <3>1, <3>2, <2>2, <1>2, <1>5
      <3>3. CASE z # s
        BY <3>1, <3>3, <1>3
      <3> QED BY <3>2, <3>3
    <2>3. CASE v \in kept /\ \E j \in job : j.gone /\ j.item.value = v
      BY <2>3 DEF JobsStay
    <2> QED BY <2>1, <2>2, <2>3, <1>5 DEF Kept
  <1>6. ASSUME NEW z \in DOMAIN items' PROVE items'[z].value \in kept' \cup copied'
    <2>1. CASE z = s
      BY <2>1, <1>3, <1>4
    <2>2. CASE z # s
      <3>1. z \in DOMAIN items /\ items'[z] = items[z] /\ items[z].value \in kept \cup copied
        BY <2>2, <1>3, <1>6 DEF Kept
      <3>2. s \in DOMAIN items /\ items[z].value \notin copied => items[z].value # items[s].value
        BY <2>2, <3>1 DEF Kept
      <3> QED BY <3>1, <3>2
    <2> QED BY <2>1, <2>2
  <1>7. ASSUME NEW r \in DOMAIN items', NEW z \in DOMAIN items', items'[r].value = items'[z].value,
               items'[r].value \notin copied'
        PROVE  r = z
    BY <1>2, <1>3, <1>4, <1>7 DEF Kept
  <1>8. Kept'
    BY <1>5, <1>6, <1>7 DEF Kept
  <1>9. kept' \cup copied' \subseteq 1 .. value'
    <2>1. \A v \in kept' \cup copied' : v \in kept \cup copied \/ v = value + 1
      OBVIOUS
    <2>2. \A v \in 1 .. value : v \in 1 .. value'
      BY <1>1
    <2>3. value + 1 \in 1 .. value'
      BY <1>1
    <2> QED BY <1>1, <2>1, <2>2, <2>3
  <1> QED BY <1>1, <1>8, <1>9

\* Values go with their slots.
LEMMA RemoveKeeps ==
  ASSUME Structure, Kept, NEW S, S \subseteq DOMAIN items, JobsStay,
         items' = Without(items, S), kept' = kept \ {items[s].value : s \in S},
         UNCHANGED copied
  PROVE  Kept'
  <1>1. DOMAIN items' = DOMAIN items \ S /\ \A z \in DOMAIN items' : items'[z] = items[z]
    BY DEF Without
  <1>2. ASSUME NEW v \in kept'
        PROVE  \/ \E z \in DOMAIN items' : items'[z].value = v
               \/ \E j \in job' : j.gone /\ j.item.value = v
    <2>1. CASE \E z \in DOMAIN items : items[z].value = v
      BY <2>1, <1>1, <1>2
    <2>2. CASE \E j \in job : j.gone /\ j.item.value = v
      BY <2>2 DEF JobsStay
    <2> QED BY <2>1, <2>2, <1>2 DEF Kept
  <1>3. ASSUME NEW z \in DOMAIN items' PROVE items'[z].value \in kept' \cup copied'
    BY <1>1, <1>3 DEF Kept
  <1>4. ASSUME NEW r \in DOMAIN items', NEW z \in DOMAIN items', items'[r].value = items'[z].value,
               items'[r].value \notin copied'
        PROVE  r = z
    BY <1>1, <1>4 DEF Kept
  <1> QED BY <1>2, <1>3, <1>4 DEF Kept

\* Nothing that the statements speak of has changed.
LEMMA SameKept ==
  ASSUME Kept, InHand, UNCHANGED <<items, job, history, value>>
  PROVE  Kept' /\ InHand'
  BY DEF Kept, InHand, history, Straight

LEMMA NoJobs == ASSUME job' = {} PROVE InHand'
  BY DEF InHand

-----------------------------------------------------------------------------
(* The steps *)

LEMMA CreateFolderStep ==
  ASSUME Invariant, NEW f \in Folder, CreateFolder(f)
  PROVE  Invariant'
  <1>1. Structure'
    BY DEF Invariant, CreateFolder, Structure, history
  <1>2. Kept' /\ InHand'
    BY SameKept DEF Invariant, CreateFolder
  <1>3. Listed'
    BY DEF Invariant, CreateFolder, Listed, Covered, OtherToCome
  <1> QED BY <1>1, <1>2, <1>3 DEF Invariant

LEMMA WriteEntryStep ==
  ASSUME Invariant, NEW f \in Folder, NEW k \in Key, NEW t \in Type, WriteEntry(f, k, t)
  PROVE  Invariant'
  <1> DEFINE s == [folder |-> f, key |-> k, type |-> t]
             i == [value |-> value + 1, layers |-> Coded(t, 0)]
  <1>1. Structure /\ Kept /\ InHand /\ Listed
    BY DEF Invariant
  <1>2. s \in Slot /\ s.folder = f
    BY DEF Slot
  <1>3. job = {} /\ job' = {} /\ UNCHANGED <<listed, due, copied>>
    BY DEF WriteEntry
  <1>4. InHand'
    BY <1>3, NoJobs
  <1>5. CASE OwnFailure /\ UNCHANGED <<items, structure, value, kept, missed>>
    <2>1. Structure'
      BY <1>1, <1>3, <1>5, OwnFailureFacts DEF Structure
    <2>2. Kept'
      BY <1>1, <1>3, <1>5 DEF Kept
    <2>3. Listed'
      BY <1>1, <1>3, <1>5, OwnFailureFacts DEF Listed, Covered, OtherToCome
    <2> QED BY <1>4, <2>1, <2>2, <2>3 DEF Invariant
  <1>6. CASE /\ UseValue
             /\ items' = With(items, s, i)
             /\ kept' = (kept \ {items[r].value : r \in {s} \cap DOMAIN items}) \cup {value + 1}
             /\ structure' = Inserted(f)
             /\ missed' = missed \cup ({f} \cap (listed \ FoldersOf(items)))
             /\ OwnChange /\ Mishaps(0)
    <2>1. i \in Item /\ Coded(t, 0) \in Nat
      BY <1>1, CodedType DEF Item, Structure
    <2>2. PICK n \in Nat : Signalled("own", n)
      BY <1>1, <1>6, OwnChangeFacts
    <2>3. Kept' /\ value' \in 0 .. MaxValue /\ kept' \cup copied' \subseteq 1 .. value'
      BY <1>1, <1>2, <1>3, <1>6, <2>1, StoreKeeps DEF JobsStay
    <2>4. structure' \subseteq Folder /\ structure \subseteq structure' /\ missed' \subseteq Folder
          /\ (f \notin listed => f \in structure')
      BY <1>1, <1>6 DEF Structure, Inserted
    <2> HIDE DEF s, i
    <2>5. Structure'
      <3>1. IsFiniteSet(DOMAIN items') /\ DOMAIN items' \subseteq Slot /\ items' \in [DOMAIN items' -> Item]
        BY <1>1, <1>2, <1>6, <2>1, ItemsType
      <3>2. signals' \in Seq({"own", "other"}) /\ mishaps' \in 0 .. MaxMishaps
        BY <1>1, <1>6, <2>2, SignalledType, MishapsType
      <3> QED BY <1>1, <1>3, <1>6, <2>3, <2>4, <3>1, <3>2, OwnChangeFacts DEF Structure
    <2>6. Listed'
      <3>1. ASSUME NEW z \in DOMAIN items', z.folder \notin missed' PROVE Covered(z.folder)'
        <4>1. CASE z \in DOMAIN items
          BY <1>1, <1>3, <2>2, <2>4, <3>1, <4>1, <1>6, StaysCovered DEF Listed
        <4>2. CASE z = s /\ f \notin listed
          BY <1>2, <2>4, <4>2 DEF Covered
        <4>3. CASE z = s /\ f \in FoldersOf(items)
          <5>1. PICK r \in DOMAIN items : r.folder = f
            BY <4>3 DEF FoldersOf
          <5>2. Covered(f)
            BY <1>1, <1>2, <1>6, <3>1, <4>3, <5>1 DEF Listed
          <5> QED BY <1>1, <1>2, <1>3, <2>2, <2>4, <4>3, <5>2, StaysCovered
        <4>4. z \in DOMAIN items \/ z = s
          BY <1>6, <3>1 DEF With
        <4> QED BY <1>2, <1>6, <3>1, <4>1, <4>2, <4>3, <4>4
      <3> QED BY <1>3, <3>1 DEF Listed
    <2> QED BY <1>4, <2>3, <2>5, <2>6 DEF Invariant
  <1> QED BY <1>5, <1>6 DEF WriteEntry

LEMMA RemoveEntryStep ==
  ASSUME Invariant, NEW f \in Folder, NEW k \in Key, RemoveEntry(f, k)
  PROVE  Invariant'
  <1>1. Structure /\ Kept /\ InHand /\ Listed
    BY DEF Invariant
  <1>2. job = {} /\ job' = {} /\ UNCHANGED <<listed, due, value, copied>>
    BY DEF RemoveEntry
  <1>3. InHand'
    BY <1>2, NoJobs
  <1>4. CASE OwnFailure /\ UNCHANGED <<items, structure, kept, missed>>
    <2>1. Structure'
      BY <1>1, <1>2, <1>4, OwnFailureFacts DEF Structure
    <2>2. Kept'
      BY <1>1, <1>2, <1>4 DEF Kept
    <2>3. Listed'
      BY <1>1, <1>2, <1>4, OwnFailureFacts DEF Listed, Covered, OtherToCome
    <2> QED BY <1>3, <2>1, <2>2, <2>3 DEF Invariant
  <1>5. ASSUME NEW s \in SlotsOf(f, k),
               items' = Without(items, {s}), kept' = kept \ {items[s].value},
               structure' = IF f \in listed THEN structure ELSE structure \ {f},
               missed' = missed \cup ({f} \cap (FoldersOf(items') \ listed)),
               OwnChange, Mishaps(0)
        PROVE  Invariant'
    <2>1. PICK n \in Nat : Signalled("own", n)
      BY <1>1, <1>5, OwnChangeFacts
    <2>2. s \in DOMAIN items
      BY DEF SlotsOf
    <2>3. Kept'
      <3>1. kept' = kept \ {items[r].value : r \in {s}} /\ {s} \subseteq DOMAIN items /\ JobsStay
        BY <1>2, <1>5, <2>2 DEF JobsStay
      <3>2. UNCHANGED copied
        BY <1>2
      <3> QED BY <1>1, <1>5, <3>1, <3>2, RemoveKeeps
    <2>4. structure' \subseteq Folder /\ missed' \subseteq Folder
          /\ \A g \in structure : g \in structure' \/ (g = f /\ f \notin listed)
      BY <1>1, <1>5 DEF Structure
    <2>5. Structure'
      <3>1. IsFiniteSet(DOMAIN items') /\ DOMAIN items' \subseteq Slot /\ items' \in [DOMAIN items' -> Item]
        BY <1>1, <1>5, FewerItemsType
      <3>2. signals' \in Seq({"own", "other"}) /\ mishaps' \in 0 .. MaxMishaps
        BY <1>1, <1>5, <2>1, SignalledType, MishapsType
      <3> QED BY <1>1, <1>2, <1>5, <2>4, <3>1, <3>2, OwnChangeFacts DEF Structure
    <2>6. Listed'
      <3>1. ASSUME NEW z \in DOMAIN items', z.folder \notin missed' PROVE Covered(z.folder)'
        <4>1. z \in DOMAIN items /\ z.folder \in FoldersOf(items')
          BY <1>5, <3>1 DEF Without, FoldersOf
        <4>2. Covered(z.folder)
          BY <1>1, <1>5, <3>1, <4>1 DEF Listed
        <4>3. z.folder \in structure => z.folder \in structure'
          BY <1>5, <2>4, <3>1, <4>1
        <4> QED BY <1>1, <1>2, <2>1, <4>2, <4>3, StaysCovered
      <3> QED BY <1>2, <3>1 DEF Listed
    <2> QED BY <1>3, <2>3, <2>5, <2>6 DEF Invariant
  <1> QED BY <1>4, <1>5 DEF RemoveEntry

LEMMA RemoveFolderStep ==
  ASSUME Invariant, NEW f \in Folder, RemoveFolder(f)
  PROVE  Invariant'
  <1> DEFINE all == {s \in DOMAIN items : s.folder = f}
  <1>1. Structure /\ Kept /\ InHand /\ Listed
    BY DEF Invariant
  <1>2. job = {} /\ job' = {} /\ UNCHANGED <<listed, due, value, copied>>
    BY DEF RemoveFolder
  <1>3. PICK gone \in SUBSET all, ok \in BOOLEAN :
          /\ items' = Without(items, gone)
          /\ kept' = kept \ {items[s].value : s \in gone}
          /\ structure' = IF ok THEN structure \ {f} ELSE structure
          /\ missed' = IF ok /\ gone # all THEN missed \cup {f} ELSE missed
          /\ ownUpdate' = (ownUpdate \/ all # {})
          /\ Signalled("own", Cardinality(gone))
          /\ Mishaps(IF gone = all THEN 0 ELSE 1)
    BY DEF RemoveFolder
  <1>4. gone \subseteq DOMAIN items
    OBVIOUS
  <1>5. Kept'
    BY <1>1, <1>2, <1>3, <1>4, RemoveKeeps DEF JobsStay
  <1>6. InHand'
    BY <1>2, NoJobs
  <1>7. Cardinality(gone) \in Nat
    BY <1>1, <1>4, FS_Subset, FS_CardinalityType DEF Structure
  <1>8. Structure'
    <2>1. IsFiniteSet(DOMAIN items') /\ DOMAIN items' \subseteq Slot /\ items' \in [DOMAIN items' -> Item]
      BY <1>1, <1>3, FewerItemsType
    <2>2. signals' \in Seq({"own", "other"}) /\ mishaps' \in 0 .. MaxMishaps
      BY <1>1, <1>3, <1>7, SignalledType, MishapsType
    <2>3. structure' \subseteq Folder /\ missed' \subseteq Folder /\ ownUpdate' \in BOOLEAN
      BY <1>1, <1>3 DEF Structure
    <2> QED BY <1>1, <1>2, <1>3, <2>1, <2>2, <2>3 DEF Structure
  <1>9. Listed'
    <2>1. ASSUME NEW z \in DOMAIN items', z.folder \notin missed' PROVE Covered(z.folder)'
      <3>1. z \in DOMAIN items /\ z \notin gone
        BY <1>3, <2>1 DEF Without
      <3>2. Covered(z.folder)
        BY <1>1, <1>3, <2>1, <3>1 DEF Listed
      <3>3. z.folder \in structure => z.folder \in structure'
        BY <1>3, <2>1, <3>1
      <3> QED BY <1>1, <1>2, <1>3, <1>7, <3>2, <3>3, StaysCovered
    <2> QED BY <1>2, <2>1 DEF Listed
  <1> QED BY <1>5, <1>6, <1>8, <1>9 DEF Invariant

LEMMA RenameEntryStep ==
  ASSUME Invariant, NEW f \in Folder, NEW old \in Key, NEW new \in Key, RenameEntry(f, old, new)
  PROVE  Invariant'
  <1>1. Structure /\ Kept /\ InHand /\ Listed
    BY DEF Invariant
  <1>2. PICK s \in SlotsOf(f, old), misled \in BOOLEAN :
          /\ ~misled => ~Taken(f, new)
          /\ Mishaps(IF misled THEN 1 ELSE 0)
          /\ job' = {[from |-> s, key |-> new, item |-> items[s], gone |-> FALSE,
                      course |-> IF misled THEN "misled" ELSE "straight"]}
    BY DEF RenameEntry
  <1> DEFINE j == [from |-> s, key |-> new, item |-> items[s], gone |-> FALSE,
                   course |-> IF misled THEN "misled" ELSE "straight"]
  <1>3. /\ j.from = s /\ j.key = new /\ j.item = items[s] /\ ~j.gone /\ (Straight(j) <=> ~misled)
        /\ job' = {j} /\ job = {}
    BY <1>2 DEF RenameEntry, Straight
  <1>4. UNCHANGED <<items, listed, structure, ownUpdate, signals, due, value, kept, copied, missed>>
    BY DEF RenameEntry, history
  <1>5. s \in DOMAIN items /\ s \in Slot /\ s.folder = f /\ s.key = old /\ items[s] \in Item
    BY <1>1 DEF SlotsOf, Structure
  <1>6. j \in Job
    BY <1>2, <1>5 DEF Job
  <1> HIDE DEF j
  <1>7. Structure'
    <2>1. mishaps' \in 0 .. MaxMishaps
      BY <1>1, <1>2, MishapsType
    <2> QED BY <1>1, <1>3, <1>4, <1>6, <2>1 DEF Structure
  <1>8. Kept'
    BY <1>1, <1>3, <1>4 DEF Kept
  <1>9. InHand'
    <2>1. items[s].value \in kept \cup copied /\ items[s].value \in 1 .. value
      BY <1>1, <1>5 DEF Kept, Structure
    <2>2. items[s].value \notin copied =>
            \A r \in DOMAIN items : items[r].value = items[s].value => r = s
      BY <1>1, <1>5 DEF Kept
    <2>3. ~misled => \A r \in DOMAIN items : r.folder = f => r.key # new
      BY <1>2 DEF Taken, SlotsOf
    <2> QED BY <1>3, <1>4, <1>5, <2>1, <2>2, <2>3 DEF InHand
  <1>10. Listed'
    BY <1>1, <1>3, <1>4, <1>5 DEF Listed, Covered, OtherToCome
  <1> QED BY <1>7, <1>8, <1>9, <1>10 DEF Invariant

\* What is covered stays covered by any step of a rename, whose folders do not move.
LEMMA StaysListed ==
  ASSUME Structure, Listed, NEW who \in {"own", "other"}, NEW n \in Nat, Signalled(who, n),
         UNCHANGED <<due, structure, missed>>,
         \A z \in DOMAIN items' : z \in DOMAIN items \/ \E j \in job : z.folder = j.from.folder,
         \A i \in job' : \E j \in job : i.from = j.from
  PROVE  Listed'
  <1>1. ASSUME NEW f, Covered(f) PROVE Covered(f)'
    BY <1>1, StaysCovered
  <1>2. ASSUME NEW z \in DOMAIN items', z.folder \notin missed' PROVE Covered(z.folder)'
    BY <1>1, <1>2 DEF Listed
  <1>3. ASSUME NEW i \in job', i.from.folder \notin missed' PROVE Covered(i.from.folder)'
    BY <1>1, <1>3 DEF Listed
  <1> QED BY <1>2, <1>3 DEF Listed

LEMMA RenameDeleteStep ==
  ASSUME Invariant, RenameDelete
  PROVE  Invariant'
  <1>1. Structure /\ Kept /\ InHand /\ Listed
    BY DEF Invariant
  <1>2. PICK j \in job :
          LET found == SlotsOf(j.from.folder, j.from.key) IN
          /\ ~j.gone
          /\ \/ \E s \in IF j.course = "disturbed" THEN found ELSE {j.from} :
                  /\ items' = Without(items, {s})
                  /\ job' = {[j EXCEPT !.gone = TRUE]}
                  /\ kept' = IF Straight(j) THEN kept ELSE kept \ {items[s].value}
                  /\ copied' = IF s = j.from THEN copied ELSE copied \cup {j.item.value}
                  /\ OwnChange /\ Mishaps(0)
             \/ /\ found = {} /\ job' = {}
                /\ UNCHANGED <<items, ownUpdate, signals, history, mishaps>>
             \/ OwnFailure /\ job' = {} /\ UNCHANGED <<items, history>>
          /\ UNCHANGED <<listed, structure, due, value, missed>>
    BY DEF RenameDelete
  <1> DEFINE found == SlotsOf(j.from.folder, j.from.key)
  <1>3. job = {j} /\ j \in Job
    BY <1>1 DEF Structure
  <1>4. CASE /\ job' = {} /\ UNCHANGED <<items, history, signals>> /\ ownUpdate' \in BOOLEAN
             /\ mishaps' \in 0 .. MaxMishaps
    <2>1. Structure'
      BY <1>1, <1>2, <1>4 DEF Structure, history
    <2>2. Kept'
      BY <1>1, <1>2, <1>3, <1>4 DEF Kept, history
    <2>3. Listed'
      BY <1>1, <1>2, <1>4 DEF Listed, Covered, OtherToCome
    <2> QED BY <1>4, <2>1, <2>2, <2>3, NoJobs DEF Invariant
  <1>5. ASSUME NEW s \in IF j.course = "disturbed" THEN found ELSE {j.from},
               items' = Without(items, {s}), job' = {[j EXCEPT !.gone = TRUE]},
               kept' = IF Straight(j) THEN kept ELSE kept \ {items[s].value},
               copied' = IF s = j.from THEN copied ELSE copied \cup {j.item.value},
               OwnChange, Mishaps(0)
        PROVE  Invariant'
    <2> DEFINE i == [j EXCEPT !.gone = TRUE]
    <2>1. PICK n \in Nat : Signalled("own", n)
      BY <1>1, <1>5, OwnChangeFacts
    <2>0. j.item.value \in 1 .. value
      BY <1>1, <1>3 DEF InHand
    <2>2. s \in DOMAIN items /\ s.folder = j.from.folder
      <3>1. CASE j.course = "disturbed"
        BY <1>5, <3>1 DEF SlotsOf
      <3>2. CASE j.course # "disturbed"
        BY <1>1, <1>2, <1>3, <1>5, <3>2 DEF InHand
      <3> QED BY <3>1, <3>2
    <2>3. /\ i.from = j.from /\ i.key = j.key /\ i.item = j.item /\ i.gone
          /\ i.course = j.course /\ i \in Job /\ job' = {i}
      BY <1>3, <1>5 DEF Job
    <2> HIDE DEF i, found
    <2>4. /\ DOMAIN items' = DOMAIN items \ {s}
          /\ \A z \in DOMAIN items' : items'[z] = items[z]
      BY <1>5 DEF Without
    <2>9. copied \subseteq copied' /\ copied' \subseteq copied \cup {j.item.value}
      BY <1>5
    <2>5. Structure'
      <3>1. IsFiniteSet(DOMAIN items') /\ DOMAIN items' \subseteq Slot /\ items' \in [DOMAIN items' -> Item]
        BY <1>1, <1>5, FewerItemsType
      <3>2. signals' \in Seq({"own", "other"}) /\ mishaps' \in 0 .. MaxMishaps
        BY <1>1, <1>5, <2>1, SignalledType, MishapsType
      <3>3. kept' \cup copied' \subseteq 1 .. value
        <4>1. kept \cup copied \subseteq 1 .. value
          BY <1>1 DEF Structure
        <4> QED BY <1>5, <2>0, <2>9, <4>1
      <3>4. job' \subseteq Job /\ \A a, b \in job' : a = b
        BY <2>3
      <3>5. i.from.key # i.key \/ ~Straight(i)
        <4>1. CASE Straight(j)
          <5>1. j.from \in DOMAIN items /\ j.from.key # j.key
            BY <1>1, <1>2, <1>3, <4>1 DEF InHand, Straight
          <5> QED BY <2>3, <5>1
        <4> QED BY <2>3, <4>1 DEF Straight
      <3> QED BY <1>1, <1>2, <2>3, <3>1, <3>2, <3>3, <3>4, <3>5, <1>5, OwnChangeFacts DEF Structure
    <2>6. Kept'
      <3>1. CASE ~Straight(j)
        <4>1. kept' = kept \ {items[s].value}
          BY <1>5, <3>1
        <4>2. \A v \in kept' : \E z \in DOMAIN items' : items'[z].value = v
          BY <1>1, <1>2, <1>3, <2>4, <4>1 DEF Kept
        <4>3. ASSUME NEW z \in DOMAIN items' PROVE items'[z].value \in kept' \cup copied'
          <5>1. /\ z \in DOMAIN items /\ z # s /\ items'[z] = items[z]
                /\ items[z].value \in kept \cup copied
            BY <1>1, <2>4 DEF Kept
          <5>2. items[z].value \notin copied => items[z].value # items[s].value
            BY <1>1, <2>2, <5>1 DEF Kept
          <5> QED BY <2>9, <4>1, <5>1, <5>2
        <4>4. \A y, z \in DOMAIN items' :
                items'[y].value = items'[z].value /\ items'[y].value \notin copied' => y = z
          BY <1>1, <2>4, <2>9 DEF Kept
        <4> QED BY <4>2, <4>3, <4>4 DEF Kept
      <3>2. CASE Straight(j)
        <4>1. s = j.from /\ items[s] = j.item /\ kept' = kept /\ copied' = copied
          BY <1>1, <1>2, <1>3, <1>5, <3>2 DEF InHand, Straight
        <4>2. ASSUME NEW v \in kept'
              PROVE  \/ \E z \in DOMAIN items' : items'[z].value = v
                     \/ \E a \in job' : a.gone /\ a.item.value = v
          <5>1. PICK z \in DOMAIN items : items[z].value = v
            BY <1>1, <1>2, <1>3, <4>1, <4>2 DEF Kept
          <5>2. CASE z = s
            BY <2>3, <4>1, <5>1, <5>2
          <5>3. CASE z # s
            BY <2>4, <5>1, <5>3
          <5> QED BY <5>2, <5>3
        <4> QED BY <1>1, <2>4, <4>1, <4>2 DEF Kept
      <3> QED BY <3>1, <3>2
    <2>7. InHand'
      <3>1. i.item.value \in 1 .. value'
        BY <1>2, <2>0, <2>3
      <3>2. ASSUME i.item.value \notin copied',
                   NEW z \in DOMAIN items', items'[z].value = i.item.value
            PROVE  FALSE
        <4>1. z \in DOMAIN items /\ z # s /\ items[z].value = j.item.value
          BY <2>3, <2>4, <3>2
        <4>2. z = j.from
          BY <1>1, <1>3, <2>3, <2>9, <3>2, <4>1 DEF InHand
        <4>3. s = j.from
          BY <1>5, <2>3, <3>2
        <4> QED BY <4>1, <4>2, <4>3
      <3>3. ASSUME Straight(i)
            PROVE  /\ i.item.value \in kept' \cup copied'
                   /\ \A z \in DOMAIN items' : z.folder = i.from.folder => z.key # i.key
        <4>1. Straight(j)
          BY <2>3, <3>3 DEF Straight
        <4>2. kept' = kept
          BY <1>5, <4>1
        <4> QED BY <1>1, <1>3, <2>3, <2>4, <2>9, <4>1, <4>2 DEF InHand
      <3> QED BY <2>3, <3>1, <3>2, <3>3 DEF InHand
    <2>8. Listed'
      BY <1>1, <1>2, <1>3, <2>1, <2>3, <2>4, StaysListed
    <2> QED BY <2>5, <2>6, <2>7, <2>8 DEF Invariant
  <1>6. ASSUME OwnFailure PROVE UNCHANGED signals /\ ownUpdate' \in BOOLEAN /\ mishaps' \in 0 .. MaxMishaps
    BY <1>1, <1>6, OwnFailureFacts
  <1> QED BY <1>1, <1>2, <1>4, <1>5, <1>6 DEF Structure

LEMMA RenameWriteStep ==
  ASSUME Invariant, RenameWrite
  PROVE  Invariant'
  <1>1. Structure /\ Kept /\ InHand /\ Listed
    BY DEF Invariant
  <1>2. PICK j \in job :
          LET s == [j.from EXCEPT !.key = j.key] IN
          /\ j.gone /\ job' = {}
          /\ \/ /\ items' = With(items, s, [j.item EXCEPT !.layers = Coded(s.type, @)])
                /\ kept' = IF Straight(j) THEN kept
                           ELSE (kept \ {items[r].value : r \in {s} \cap DOMAIN items})
                                  \cup {j.item.value}
                /\ OwnChange /\ Mishaps(0)
             \/ /\ OwnFailure
                /\ kept' = kept \ {j.item.value} /\ UNCHANGED items
          /\ UNCHANGED <<listed, structure, due, value, copied, missed>>
    BY DEF RenameWrite
  <1> DEFINE s == [j.from EXCEPT !.key = j.key]
             i == [j.item EXCEPT !.layers = Coded(s.type, @)]
  <1>3. job = {j} /\ j \in Job
    BY <1>1 DEF Structure
  <1>4. InHand'
    BY <1>2, NoJobs
  <1>5. CASE OwnFailure /\ kept' = kept \ {j.item.value} /\ UNCHANGED items
    <2>1. Structure'
      BY <1>1, <1>2, <1>5, OwnFailureFacts DEF Structure
    <2>2. j.item.value \notin copied => \A z \in DOMAIN items : items[z].value # j.item.value
      BY <1>1, <1>2, <1>3 DEF InHand
    <2>3. Kept'
      BY <1>1, <1>2, <1>3, <1>5, <2>2 DEF Kept
    <2>4. Listed'
      BY <1>1, <1>2, <1>5, OwnFailureFacts DEF Listed, Covered, OtherToCome
    <2> QED BY <1>4, <2>1, <2>3, <2>4 DEF Invariant
  <1>6. CASE /\ items' = With(items, s, i)
             /\ kept' = IF Straight(j) THEN kept
                        ELSE (kept \ {items[r].value : r \in {s} \cap DOMAIN items}) \cup {j.item.value}
             /\ OwnChange /\ Mishaps(0)
    <2>1. PICK n \in Nat : Signalled("own", n)
      BY <1>1, <1>6, OwnChangeFacts
    <2>2. /\ s \in Slot /\ s.folder = j.from.folder /\ s.key = j.key
          /\ i \in Item /\ i.value = j.item.value
      BY <1>3, CodedType DEF Job, Slot, Item
    <2>3. /\ DOMAIN items' = DOMAIN items \cup {s} /\ items'[s] = i
          /\ \A z \in DOMAIN items : z # s => items'[z] = items[z]
      BY <1>6 DEF With
    <2>4. /\ j.item.value \in 1 .. value
          /\ j.item.value \notin copied => \A z \in DOMAIN items : items[z].value # j.item.value
      BY <1>1, <1>2, <1>3 DEF InHand
    <2>5. Straight(j) => s \notin DOMAIN items /\ j.item.value \in kept \cup copied /\ kept' = kept
      BY <1>1, <1>3, <1>6, <2>2 DEF InHand
    <2> HIDE DEF s, i
    <2>6. ASSUME ~Straight(j), NEW v
          PROVE  v \in kept' <=> \/ v = j.item.value
                                 \/ v \in kept /\ ~(s \in DOMAIN items /\ v = items[s].value)
      <3>1. kept' = (kept \ {items[r].value : r \in {s} \cap DOMAIN items}) \cup {j.item.value}
        BY <1>6, <2>6
      <3> QED BY <3>1
    <2>7. Structure'
      <3>1. IsFiniteSet(DOMAIN items') /\ DOMAIN items' \subseteq Slot /\ items' \in [DOMAIN items' -> Item]
        BY <1>1, <1>6, <2>2, ItemsType
      <3>2. signals' \in Seq({"own", "other"}) /\ mishaps' \in 0 .. MaxMishaps
        BY <1>1, <1>6, <2>1, SignalledType, MishapsType
      <3>3. kept' \cup copied \subseteq 1 .. value
        <4>1. kept \cup copied \subseteq 1 .. value
          BY <1>1 DEF Structure
        <4> QED BY <2>4, <2>5, <2>6, <4>1
      <3> QED BY <1>1, <1>2, <1>6, <3>1, <3>2, <3>3, OwnChangeFacts DEF Structure
    <2>8. Kept'
      <3>1. ASSUME NEW v \in kept' PROVE \E z \in DOMAIN items' : items'[z].value = v
        <4>1. CASE v = j.item.value
          BY <2>2, <2>3, <4>1
        <4>2. CASE v # j.item.value
          <5>1. v \in kept
            BY <2>5, <2>6, <3>1, <4>2
          <5>2. PICK z \in DOMAIN items : items[z].value = v
            BY <1>1, <1>3, <4>2, <5>1 DEF Kept
          <5>3. z # s
            BY <2>5, <2>6, <3>1, <4>2, <5>2
          <5> QED BY <2>3, <5>2, <5>3
        <4> QED BY <4>1, <4>2
      <3>2. ASSUME NEW z \in DOMAIN items' PROVE items'[z].value \in kept' \cup copied
        <4>1. CASE z = s
          <5>1. items'[z].value = j.item.value
            BY <2>2, <2>3, <4>1
          <5>2. CASE ~Straight(j)
            BY <2>6, <5>1, <5>2
          <5>3. CASE Straight(j)
            BY <2>5, <5>1, <5>3
          <5> QED BY <5>2, <5>3
        <4>2. CASE z # s
          <5>1. z \in DOMAIN items /\ items'[z] = items[z] /\ items[z].value \in kept \cup copied
            BY <1>1, <2>3, <3>2, <4>2 DEF Kept
          <5>2. s \in DOMAIN items /\ items[z].value \notin copied => items[z].value # items[s].value
            BY <1>1, <4>2, <5>1 DEF Kept
          <5> QED BY <2>5, <2>6, <5>1, <5>2
        <4> QED BY <4>1, <4>2
      <3>3. ASSUME NEW r \in DOMAIN items', NEW z \in DOMAIN items', items'[r].value = items'[z].value,
                   items'[r].value \notin copied
            PROVE  r = z
        BY <1>1, <2>2, <2>3, <2>4, <3>3 DEF Kept
      <3> QED BY <1>2, <3>1, <3>2, <3>3 DEF Kept
    <2>9. Listed'
      BY <1>1, <1>2, <1>3, <2>1, <2>2, <2>3, StaysListed
    <2> QED BY <1>4, <2>7, <2>8, <2>9 DEF Invariant
  <1> QED BY <1>2, <1>5, <1>6

\* Folders of what is stored are folders.
LEMMA FoldersType == ASSUME Structure PROVE FoldersOf(items) \subseteq Folder
  BY DEF Structure, FoldersOf, Slot

LEMMA SecretItemChangedStep ==
  ASSUME Invariant, SecretItemChanged
  PROVE  Invariant'
  <1>1. Structure /\ Kept /\ InHand /\ Listed
    BY DEF Invariant
  <1>2. /\ signals' = Tail(signals) /\ signals # <<>> /\ signals \in Seq({"own", "other"})
        /\ job = {} /\ UNCHANGED <<items, listed, structure, job, value, history, mishaps>>
    BY <1>1 DEF SecretItemChanged, Structure
  <1>3. signals' \in Seq({"own", "other"})
    BY <1>2
  <1>4. ownUpdate' \in BOOLEAN /\ due' \in BOOLEAN /\ missed' \subseteq Folder
    <2>1. missed' \subseteq Folder
      BY <1>1, FoldersType DEF SecretItemChanged, Structure
    <2> QED BY <2>1 DEF SecretItemChanged
  <1>5. Structure'
    BY <1>1, <1>2, <1>3, <1>4 DEF Structure, history
  <1>6. Kept' /\ InHand'
    BY <1>1, <1>2, SameKept
  <1>7. Listed'
    <2>1. ASSUME NEW z \in DOMAIN items, z.folder \notin missed' PROVE Covered(z.folder)'
      <3>1. CASE ~ownUpdate
        BY <3>1 DEF SecretItemChanged, Covered
      <3>2. CASE ownUpdate /\ Head(signals) = "other"
        <4>1. z.folder \in FoldersOf(items) /\ z.folder \notin FoldersOf(items) \ structure
          BY <2>1, <3>2 DEF SecretItemChanged, FoldersOf
        <4>2. z.folder \in structure'
          BY <1>2, <4>1
        <4> QED BY <4>2 DEF Covered
      <3>3. CASE ownUpdate /\ Head(signals) # "other"
        <4>1. Covered(z.folder)
          BY <1>1, <2>1, <3>3 DEF SecretItemChanged, Listed
        <4>2. CASE OtherToCome
          <5>1. PICK k \in 1 .. Len(signals) : signals[k] = "other"
            BY <4>2 DEF OtherToCome
          <5>2. k # 1
            BY <1>2, <3>3, <5>1
          <5>3. k - 1 \in 1 .. Len(signals') /\ signals'[k - 1] = "other"
            BY <1>2, <5>1, <5>2
          <5> QED BY <5>3 DEF Covered, OtherToCome
        <4>3. CASE z.folder \in structure \/ due
          BY <1>2, <4>3 DEF Covered, SecretItemChanged
        <4> QED BY <4>1, <4>2, <4>3 DEF Covered
      <3> QED BY <3>1, <3>2, <3>3
    <2> QED BY <1>2, <2>1 DEF Listed
  <1> QED BY <1>5, <1>6, <1>7 DEF Invariant

LEMMA CollectionDirtyStep ==
  ASSUME Invariant, CollectionDirty
  PROVE  Invariant'
  <1>1. Structure /\ Kept /\ InHand /\ Listed
    BY DEF Invariant
  <1>2. /\ job = {} /\ due' = FALSE /\ structure' = listed
        /\ missed' = FoldersOf(items) \ listed
        /\ UNCHANGED <<items, listed, ownUpdate, signals, job, value, history, mishaps>>
    BY DEF CollectionDirty, Reloaded
  <1>3. Structure'
    BY <1>1, <1>2, FoldersType DEF Structure, history
  <1>4. Kept' /\ InHand'
    BY <1>1, <1>2, SameKept
  <1>5. ASSUME NEW z \in DOMAIN items, z.folder \notin missed' PROVE z.folder \in structure'
    BY <1>2, <1>5 DEF FoldersOf
  <1>6. Listed'
    BY <1>2, <1>5 DEF Listed, Covered
  <1> QED BY <1>3, <1>4, <1>6 DEF Invariant

LEMMA ItemsLoadedStep ==
  ASSUME Invariant, ItemsLoaded
  PROVE  Invariant'
  <1>1. Structure /\ Kept /\ InHand /\ Listed
    BY DEF Invariant
  <1>2. /\ listed' = FoldersOf(items)
        /\ UNCHANGED <<items, structure, ownUpdate, signals, due, job, value, history, missed, mishaps>>
    BY DEF ItemsLoaded
  <1>3. Structure'
    BY <1>1, <1>2, FoldersType DEF Structure, history
  <1>4. Kept' /\ InHand'
    BY <1>1, <1>2, SameKept
  <1>5. Listed'
    BY <1>1, <1>2 DEF Listed, Covered, OtherToCome
  <1> QED BY <1>3, <1>4, <1>5 DEF Invariant

\* A disturbed rename keeps what it has read.
LEMMA DisturbFacts ==
  ASSUME Structure, Disturb
  PROVE  /\ job' \subseteq Job /\ \A i, j \in job' : i = j
         /\ \A i \in job' : /\ i.course = "disturbed"
                            /\ \E j \in job : /\ i.from = j.from /\ i.key = j.key
                                              /\ i.item = j.item /\ i.gone = j.gone
         /\ JobsStay
  <1> DEFINE D(j) == [j EXCEPT !.course = "disturbed"]
  <1>1. ASSUME NEW j \in job
        PROVE  /\ D(j) \in Job /\ D(j).course = "disturbed"
               /\ D(j).from = j.from /\ D(j).key = j.key
               /\ D(j).item = j.item /\ D(j).gone = j.gone
    BY <1>1 DEF Structure, Job
  <1>2. job' = {D(j) : j \in job}
    BY DEF Disturb
  <1> HIDE DEF D
  <1>3. job' \subseteq Job
    BY <1>1, <1>2
  <1>4. \A i, j \in job' : i = j
    BY <1>2 DEF Structure
  <1>5. JobsStay
    BY <1>1, <1>2 DEF JobsStay
  <1>6. ASSUME NEW i \in job'
        PROVE  i.course = "disturbed" /\ \E j \in job : /\ i.from = j.from /\ i.key = j.key
                                                         /\ i.item = j.item /\ i.gone = j.gone
    BY <1>1, <1>2
  <1> QED BY <1>3, <1>4, <1>5, <1>6

\* The signal of another client is on its way, and so a reload is to come.
LEMMA OtherSignalled ==
  ASSUME Structure, Signalled("other", 1)
  PROVE  OtherToCome' /\ signals' \in Seq({"own", "other"})
  <1>1. /\ signals' \in Seq({"own", "other"}) /\ Len(signals') = Len(signals) + 1
        /\ \A k \in Len(signals) + 1 .. Len(signals') : signals'[k] = "other"
    BY SignalledType
  <1>2. Len(signals) \in Nat
    BY DEF Structure
  <1>3. Len(signals) + 1 \in 1 .. Len(signals') /\ signals'[Len(signals) + 1] = "other"
    BY <1>1, <1>2
  <1> QED BY <1>1, <1>3 DEF OtherToCome

\* Another client's change leaves what a rename holds in its hands only.
LEMMA DisturbedInHand ==
  ASSUME Structure, InHand, Disturb, UNCHANGED copied, value' \in Nat, value <= value',
         \A z \in DOMAIN items' : \/ z \in DOMAIN items /\ items'[z] = items[z]
                                  \/ items'[z].value \notin 1 .. value
  PROVE  InHand'
  <1>1. ASSUME NEW i \in job'
        PROVE  /\ i.course = "disturbed" /\ i.item.value \in 1 .. value'
               /\ i.item.value \notin copied' =>
                    \A z \in DOMAIN items' : items'[z].value = i.item.value => z = i.from /\ ~i.gone
    <2>1. i.course = "disturbed"
      BY <1>1, DisturbFacts
    <2>2. PICK j \in job : i.from = j.from /\ i.item = j.item /\ i.gone = j.gone
      BY <1>1, DisturbFacts
    <2>3. /\ j.item.value \in 1 .. value
          /\ j.item.value \notin copied =>
               \A z \in DOMAIN items : items[z].value = j.item.value => z = j.from /\ ~j.gone
      BY <2>2 DEF InHand
    <2>4. i.item.value \in 1 .. value'
      <3>1. value \in Nat
        BY ProxyAssumption DEF Structure
      <3> QED BY <2>2, <2>3, <3>1
    <2>5. ASSUME i.item.value \notin copied', NEW z \in DOMAIN items', items'[z].value = i.item.value
          PROVE  z = i.from /\ ~i.gone
      BY <2>2, <2>3, <2>5
    <2> QED BY <2>1, <2>4, <2>5
  <1> QED BY <1>1 DEF InHand, Straight

LEMMA OtherWritesStep ==
  ASSUME Invariant, NEW s \in Slot, OtherWrites(s)
  PROVE  Invariant'
  <1> DEFINE i == [value |-> value + 1, layers |-> Coded(s.type, 0)]
  <1>1. Structure /\ Kept /\ InHand /\ Listed
    BY DEF Invariant
  <1>2. /\ UseValue /\ items' = With(items, s, i)
        /\ kept' = (kept \ {items[r].value : r \in {s} \cap DOMAIN items}) \cup {value + 1}
        /\ Signalled("other", 1) /\ Disturb
        /\ UNCHANGED <<listed, structure, ownUpdate, due, copied, missed, mishaps>>
    BY DEF OtherWrites
  <1>3. value \in Nat /\ value' = value + 1 /\ Coded(s.type, 0) \in Nat
    BY <1>1, <1>2, CodedType, ProxyAssumption DEF Structure, UseValue
  <1>4. i \in Item /\ i.value = value + 1
    BY <1>3 DEF Item
  <1>5. Kept' /\ value' \in 0 .. MaxValue /\ kept' \cup copied' \subseteq 1 .. value'
    BY <1>1, <1>2, <1>3, StoreKeeps, DisturbFacts
  <1> HIDE DEF i
  <1>6. ASSUME NEW z \in DOMAIN items'
        PROVE  \/ z \in DOMAIN items /\ items'[z] = items[z]
               \/ items'[z].value \notin 1 .. value
    <2>0. /\ DOMAIN items' = DOMAIN items \cup {s} /\ items'[s] = i
          /\ \A r \in DOMAIN items : r # s => items'[r] = items[r]
      BY <1>2 DEF With
    <2>1. value + 1 \notin 1 .. value
      BY <1>3
    <2>2. CASE z = s
      BY <1>4, <2>0, <2>1, <2>2
    <2>3. CASE z # s
      <3>1. z \in DOMAIN items
        BY <1>6, <2>0, <2>3
      <3> QED BY <2>0, <2>3, <3>1
    <2> QED BY <2>2, <2>3
  <1>7. InHand'
    <2>1. value' \in Nat /\ value <= value'
      BY <1>3
    <2> QED BY <1>1, <1>2, <1>6, <2>1, DisturbedInHand
  <1>8. Structure'
    <2>1. IsFiniteSet(DOMAIN items') /\ DOMAIN items' \subseteq Slot /\ items' \in [DOMAIN items' -> Item]
      BY <1>1, <1>2, <1>4, ItemsType
    <2>2. signals' \in Seq({"own", "other"})
      BY <1>1, <1>2, OtherSignalled
    <2>3. job' \subseteq Job /\ (\A a, b \in job' : a = b) /\ \A a \in job' : ~Straight(a)
      BY <1>1, <1>2, DisturbFacts DEF Straight
    <2> QED BY <1>1, <1>2, <1>5, <2>1, <2>2, <2>3 DEF Structure
  <1>9. Listed'
    BY <1>1, <1>2, OtherSignalled DEF Listed, Covered
  <1> QED BY <1>5, <1>7, <1>8, <1>9 DEF Invariant

LEMMA OtherRemovesStep ==
  ASSUME Invariant, NEW s \in Slot, OtherRemoves(s)
  PROVE  Invariant'
  <1>1. Structure /\ Kept /\ InHand /\ Listed
    BY DEF Invariant
  <1>2. /\ s \in DOMAIN items /\ items' = Without(items, {s})
        /\ kept' = kept \ {items[s].value}
        /\ Signalled("other", 1) /\ Disturb
        /\ UNCHANGED <<listed, structure, ownUpdate, due, value, copied, missed, mishaps>>
    BY DEF OtherRemoves
  <1>3. Kept'
    <2>1. kept' = kept \ {items[r].value : r \in {s}} /\ {s} \subseteq DOMAIN items
      BY <1>2
    <2> QED BY <1>1, <1>2, <2>1, RemoveKeeps, DisturbFacts
  <1>4. \A z \in DOMAIN items' : z \in DOMAIN items /\ items'[z] = items[z]
    BY <1>2 DEF Without
  <1>5. InHand'
    <2>1. value' \in Nat /\ value <= value'
      BY <1>1, <1>2, ProxyAssumption DEF Structure
    <2> QED BY <1>1, <1>2, <1>4, <2>1, DisturbedInHand
  <1>6. Structure'
    <2>1. IsFiniteSet(DOMAIN items') /\ DOMAIN items' \subseteq Slot /\ items' \in [DOMAIN items' -> Item]
      BY <1>1, <1>2, FewerItemsType
    <2>2. signals' \in Seq({"own", "other"})
      BY <1>1, <1>2, OtherSignalled
    <2>3. job' \subseteq Job /\ (\A a, b \in job' : a = b) /\ \A a \in job' : ~Straight(a)
      BY <1>1, <1>2, DisturbFacts DEF Straight
    <2>4. kept' \cup copied' \subseteq 1 .. value'
      BY <1>1, <1>2 DEF Structure
    <2> QED BY <1>1, <1>2, <2>1, <2>2, <2>3, <2>4 DEF Structure
  <1>7. Listed'
    BY <1>1, <1>2, OtherSignalled DEF Listed, Covered
  <1> QED BY <1>3, <1>5, <1>6, <1>7 DEF Invariant

LEMMA ServiceChangedStep ==
  ASSUME Invariant, ServiceChanged
  PROVE  Invariant'
  <1>1. Structure /\ Kept /\ InHand /\ Listed
    BY DEF Invariant
  <1>2. /\ job = {} /\ Mishaps(1)
        /\ listed' = FoldersOf(items) /\ structure' = structure \cup FoldersOf(items)
        /\ missed' = {}
        /\ UNCHANGED <<items, ownUpdate, signals, due, job, value, history>>
    BY DEF ServiceChanged
  <1>3. Structure'
    <2>1. mishaps' \in 0 .. MaxMishaps
      BY <1>1, <1>2, MishapsType
    <2> QED BY <1>1, <1>2, <2>1, FoldersType DEF Structure, history
  <1>4. Kept' /\ InHand'
    BY <1>1, <1>2, SameKept
  <1>5. \A z \in DOMAIN items : z.folder \in structure'
    BY <1>2 DEF FoldersOf
  <1>6. Listed'
    BY <1>2, <1>5 DEF Listed, Covered
  <1> QED BY <1>3, <1>4, <1>6 DEF Invariant

LEMMA KWalletDRestartsStep ==
  ASSUME Invariant, KWalletDRestarts
  PROVE  Invariant'
  <1>1. Structure /\ Kept /\ InHand /\ Listed
    BY DEF Invariant
  <1>2. /\ Mishaps(1) /\ kept' = kept \ {j.item.value : j \in {i \in job : i.gone}}
        /\ listed' = FoldersOf(items) /\ structure' = FoldersOf(items)
        /\ ownUpdate' = FALSE /\ signals' = <<>> /\ due' = FALSE
        /\ job' = {} /\ missed' = {}
        /\ UNCHANGED <<items, value, copied>>
    BY DEF KWalletDRestarts
  <1>3. Structure'
    <2>1. mishaps' \in 0 .. MaxMishaps
      BY <1>1, <1>2, MishapsType
    <2>2. signals' \in Seq({"own", "other"}) /\ kept' \cup copied \subseteq 1 .. value
      BY <1>1, <1>2 DEF Structure
    <2> QED BY <1>1, <1>2, <2>1, <2>2, FoldersType DEF Structure
  <1>4. Kept'
    <2>1. ASSUME NEW v \in kept' PROVE \E z \in DOMAIN items : items[z].value = v
      BY <1>1, <1>2, <2>1 DEF Kept
    <2>2. ASSUME NEW z \in DOMAIN items PROVE items[z].value \in kept' \cup copied
      <3>1. \A j \in job : j.gone /\ items[z].value \notin copied => items[z].value # j.item.value
        BY <1>1 DEF InHand
      <3> QED BY <1>1, <1>2, <3>1 DEF Kept
    <2> QED BY <1>1, <1>2, <2>1, <2>2 DEF Kept
  <1>5. Listed'
    BY <1>2 DEF Listed, Covered, FoldersOf
  <1> QED BY <1>2, <1>3, <1>4, <1>5, NoJobs DEF Invariant

LEMMA NextInvariant == Invariant /\ [Next]_vars => Invariant'
  <1> SUFFICES ASSUME Invariant, [Next]_vars PROVE Invariant'
    OBVIOUS
  <1>1. CASE UNCHANGED vars
    BY <1>1 DEF vars, history, Invariant, Structure, Kept, InHand, Straight, Listed, Covered, OtherToCome
  <1>2. CASE Calls
    BY <1>1, <1>2, CreateFolderStep, RemoveFolderStep, RemoveEntryStep, WriteEntryStep,
       RenameEntryStep DEF Calls, Read
  <1>3. CASE Others
    BY <1>3, OtherWritesStep, OtherRemovesStep, ServiceChangedStep, KWalletDRestartsStep DEF Others
  <1>4. CASE RenameDelete \/ RenameWrite
    BY <1>4, RenameDeleteStep, RenameWriteStep
  <1>5. CASE SecretItemChanged \/ CollectionDirty \/ ItemsLoaded
    BY <1>5, SecretItemChangedStep, CollectionDirtyStep, ItemsLoadedStep
  <1> QED BY <1>1, <1>2, <1>3, <1>4, <1>5 DEF Next

-----------------------------------------------------------------------------
(* The theorems *)

LEMMA InvariantHolds == Spec => []Invariant
  <1> QED BY InitInvariant, NextInvariant, PTL DEF Spec

\* The records of kwalletd stay within their types, and a rename onto its own key
\* deletes nothing, but for the cases named at the property (renameEntry()).
THEOREM StructureCorrect == Spec => []Structure
  <1>1. Invariant => Structure
    BY DEF Invariant
  <1> QED BY <1>1, InvariantHolds, PTL

\* With no signal on its way and no reload due, kwalletd lists every folder with an
\* entry, but for the ways named in missed (m_structure, m_updateInProgress).
THEOREM FoldersListedCorrect == Spec => []FoldersListed
  <1>1. Invariant => FoldersListed
    <2> SUFFICES ASSUME Invariant, Quiet, NEW f \in Folder \ missed, EntryList(f) # {}
                 PROVE  HasFolder(f)
      BY DEF FoldersListed
    <2>1. PICK s \in DOMAIN items : s.folder = f
      BY DEF EntryList
    <2>2. Covered(f)
      BY <2>1 DEF Invariant, Listed
    <2>3. ~OtherToCome /\ ~due
      BY DEF Quiet, OtherToCome
    <2> QED BY <2>2, <2>3 DEF Covered, HasFolder
  <1> QED BY <1>1, InvariantHolds, PTL

\* Calls lose no value but the one they replace or remove, and store none twice, but
\* for the ways named at the property (renameEntry(), deleteEntry(), writeEntry()).
THEOREM SecretsSurviveCorrect == Spec => []SecretsSurvive
  <1>1. Invariant => SecretsSurvive
    BY DEF Invariant, Kept, SecretsSurvive, Values
  <1> QED BY <1>1, InvariantHolds, PTL
=============================================================================
