-------------------------- MODULE SecretItemsProofs --------------------------
(* Theorems about SecretItems, for any folders, names, attributes and bounds. *)
EXTENDS SecretItems, FiniteSetTheorems, TLAPS

-----------------------------------------------------------------------------
(* The order of locations, and of object paths *)

LEMMA LocationIsNumbers ==
  ASSUME NEW l \in Location
  PROVE  l.folder \in Nat /\ l.name \in Nat /\ l.copy \in Nat
  <1>1. l.folder \in Folder /\ l.name \in Name /\ l.copy \in 0 .. MaxCopy
    BY DEF Location
  <1>2. l.folder \in Nat /\ l.name \in Nat
    BY <1>1, EntriesAssumption
  <1>3. l.copy \in Nat
    BY <1>1
  <1> QED BY <1>2, <1>3

LEMMA LocationEquality ==
  ASSUME NEW l \in Location, NEW m \in Location,
         l.folder = m.folder, l.name = m.name, l.copy = m.copy
  PROVE  l = m
  BY DEF Location

LEMMA PrecedesIsOrder ==
  ASSUME NEW l \in Location, NEW m \in Location
  PROVE  /\ ~Precedes(l, l)
         /\ l = m \/ Precedes(l, m) \/ Precedes(m, l)
         /\ \A k \in Location : Precedes(l, m) /\ Precedes(m, k) => Precedes(l, k)
  <1>1. ~Precedes(l, l)
    BY LocationIsNumbers DEF Precedes
  <1>2. l = m \/ Precedes(l, m) \/ Precedes(m, l)
    <2>1. /\ l.folder \in Nat /\ l.name \in Nat /\ l.copy \in Nat
          /\ m.folder \in Nat /\ m.name \in Nat /\ m.copy \in Nat
      BY LocationIsNumbers
    <2> QED BY <2>1, LocationEquality DEF Precedes
  <1>3. ASSUME NEW k \in Location, Precedes(l, m), Precedes(m, k) PROVE Precedes(l, k)
    <2>1. /\ l.folder \in Nat /\ l.name \in Nat /\ l.copy \in Nat
          /\ m.folder \in Nat /\ m.name \in Nat /\ m.copy \in Nat
          /\ k.folder \in Nat /\ k.name \in Nat /\ k.copy \in Nat
      BY LocationIsNumbers
    <2> QED BY <2>1, <1>3 DEF Precedes
  <1> QED BY <1>1, <1>2, <1>3

LEMMA RankType ==
  ASSUME NEW L, L \subseteq Location, IsFiniteSet(L), NEW l \in L
  PROVE  Rank(l, L) \in Nat /\ Cardinality(L) \in Nat /\ Rank(l, L) < Cardinality(L)
  <1> DEFINE S == {m \in L : Precedes(m, l)}
  <1>1. S \in SUBSET L /\ l \notin S
    BY PrecedesIsOrder
  <1>2. IsFiniteSet(S) /\ Cardinality(S) <= Cardinality(L) /\ Cardinality(S) # Cardinality(L)
    BY <1>1, FS_Subset
  <1>3. Cardinality(S) \in Nat /\ Cardinality(L) \in Nat
    BY <1>2, FS_CardinalityType
  <1>4. Rank(l, L) = Cardinality(S)
    BY DEF Rank
  <1> QED BY <1>2, <1>3, <1>4

LEMMA RankGrows ==
  ASSUME NEW L, L \subseteq Location, IsFiniteSet(L), NEW l \in L, NEW m \in L, Precedes(l, m)
  PROVE  Rank(l, L) < Rank(m, L)
  <1> DEFINE S == {k \in L : Precedes(k, l)}
             T == {k \in L : Precedes(k, m)}
  <1>1. S \in SUBSET T /\ l \in T /\ l \notin S
    BY PrecedesIsOrder
  <1>2. IsFiniteSet(T)
    BY FS_Subset
  <1>3. IsFiniteSet(S) /\ Cardinality(S) <= Cardinality(T) /\ Cardinality(S) # Cardinality(T)
    BY <1>1, <1>2, FS_Subset
  <1>4. Cardinality(S) \in Nat /\ Cardinality(T) \in Nat
    BY <1>2, <1>3, FS_CardinalityType
  <1>5. Rank(l, L) = Cardinality(S) /\ Rank(m, L) = Cardinality(T)
    BY DEF Rank
  <1> QED BY <1>3, <1>4, <1>5

LEMMA RankIsInjective ==
  ASSUME NEW L, L \subseteq Location, IsFiniteSet(L), NEW l \in L, NEW m \in L,
         Rank(l, L) = Rank(m, L)
  PROVE  l = m
  <1>1. Rank(l, L) \in Nat
    BY RankType
  <1>2. ~Precedes(l, m) /\ ~Precedes(m, l)
    BY <1>1, RankGrows
  <1> QED BY <1>2, PrecedesIsOrder

\* A set of numbers has a smallest one.
LEMMA SmallestNumber ==
  ASSUME NEW S, S \subseteq Nat, S # {}
  PROVE  \E p \in S : \A q \in S : p <= q
  <1> DEFINE T == {0 .. p : p \in S}
  <1>1. T \subseteq FiniteSubsetsOf(Nat) /\ T # {}
    <2>1. \A p \in S : IsFiniteSet(0 .. p) /\ 0 .. p \in SUBSET Nat
      BY FS_Interval
    <2> QED BY <2>1 DEF FiniteSubsetsOf
  <1>2. PICK x \in T : \A y \in T : ~(<<y, x>> \in StrictSubsetOrdering(Nat))
    BY <1>1, FS_StrictSubsetOrderingWellFounded, WFMin
  <1>3. PICK p \in S : x = 0 .. p
    OBVIOUS
  <1>4. ASSUME NEW q \in S, ~(p <= q) PROVE FALSE
    <2>1. 0 .. q \in T /\ 0 .. q \subseteq 0 .. p /\ 0 .. q # 0 .. p
      BY <1>4
    <2>2. <<0 .. q, x>> \in StrictSubsetOrdering(Nat)
      BY <1>3, <2>1 DEF StrictSubsetOrdering
    <2> QED BY <1>2, <2>1, <2>2
  <1> QED BY <1>3, <1>4

LEMMA FindItemFinds ==
  ASSUME NEW its, DOMAIN its \subseteq Nat, NEW l, ItemsAt(its, l) # {}
  PROVE  FindItem(its, l) \in DOMAIN its /\ its[FindItem(its, l)] = l
  <1>1. ItemsAt(its, l) \subseteq Nat
    BY DEF ItemsAt
  <1>2. \E p \in ItemsAt(its, l) : \A q \in ItemsAt(its, l) : p <= q
    BY <1>1, SmallestNumber
  <1>3. FindItem(its, l) \in ItemsAt(its, l)
    BY <1>2 DEF FindItem
  <1> QED BY <1>3 DEF ItemsAt

-----------------------------------------------------------------------------
(* Contents of a wallet, and the operations on them *)

\* Contents with each secret in one place; an entry without a value is NoEntry.
Sound(c) ==
  /\ IsContents(c) /\ IsFiniteSet(DOMAIN c.at)
  /\ \A l \in DOMAIN c.at : c.at[l].value = 0 => c.at[l] = NoEntry
  /\ \A l, m \in DOMAIN c.at : c.at[l].value = c.at[m].value => l = m \/ c.at[l] = NoEntry

LEMMA EntryAtType ==
  ASSUME NEW c, IsContents(c), NEW l
  PROVE  EntryAt(c, l) \in Entry
  <1>1. NoEntry \in Entry
    BY DEF NoEntry, Entry
  <1> QED BY <1>1 DEF EntryAt, HasEntry, IsContents

LEMMA EntryAtValue ==
  ASSUME NEW c, Sound(c), NEW l, EntryAt(c, l).value = 0
  PROVE  EntryAt(c, l) = NoEntry
  BY DEF EntryAt, HasEntry, Sound

LEMMA ValuesAre ==
  ASSUME NEW c, NEW v
  PROVE  v \in Values(c) <=> v # 0 /\ \E l \in DOMAIN c.at : c.at[l].value = v
  BY DEF Values

LEMMA NothingSound == Sound(Nothing) /\ DOMAIN Nothing.at = {} /\ Values(Nothing) = {}
  <1>1. DOMAIN Nothing.at = {}
    BY DEF Nothing
  <1>2. IsContents(Nothing)
    BY DEF IsContents, Nothing
  <1> QED BY <1>1, <1>2, FS_EmptySet DEF Sound, Values

LEMMA WriteEntryFacts ==
  ASSUME NEW c, NEW l, NEW e, NEW d, d = WriteEntry(c, l, e)
  PROVE  /\ DOMAIN d.at = DOMAIN c.at \cup {l} /\ d.at[l] = e
         /\ \A m \in DOMAIN c.at : m # l => d.at[m] = c.at[m]
         /\ HasEntry(d, l) /\ EntryAt(d, l) = e
  <1>1. /\ DOMAIN d.at = DOMAIN c.at \cup {l} /\ d.at[l] = e
        /\ \A m \in DOMAIN c.at : m # l => d.at[m] = c.at[m]
    BY DEF WriteEntry, With
  <1> QED BY <1>1 DEF HasEntry, EntryAt

LEMMA WriteEntryType ==
  ASSUME NEW c, IsContents(c), NEW l \in Location, NEW e \in Entry, NEW d, d = WriteEntry(c, l, e)
  PROVE  IsContents(d)
  <1>1. DOMAIN d = {"folders", "at"} /\ d.folders = c.folders \cup {l.folder}
    BY DEF WriteEntry
  <1>2. d.folders \subseteq Folder
    BY <1>1 DEF IsContents, Location
  <1>3. d.at = With(c.at, l, e)
    BY DEF WriteEntry
  <1>4. DOMAIN d.at \subseteq Location /\ d.at \in [DOMAIN d.at -> Entry]
    BY <1>3 DEF With, IsContents
  <1>5. \A m \in DOMAIN d.at : m.folder \in d.folders
    BY <1>1, <1>3 DEF With, IsContents
  <1> QED BY <1>1, <1>2, <1>4, <1>5 DEF IsContents

LEMMA RemoveEntryFacts ==
  ASSUME NEW c, IsContents(c), NEW l, NEW d, d = RemoveEntry(c, l)
  PROVE  /\ DOMAIN d.at = DOMAIN c.at \ {l}
         /\ \A m \in DOMAIN d.at : d.at[m] = c.at[m]
         /\ IsContents(d)
  <1>1. DOMAIN d = {"folders", "at"} /\ d.folders = c.folders /\ d.at = Without(c.at, {l})
    BY DEF RemoveEntry, IsContents
  <1>2. DOMAIN d.at = DOMAIN c.at \ {l} /\ \A m \in DOMAIN d.at : d.at[m] = c.at[m]
    BY <1>1 DEF Without
  <1>3. d.at \in [DOMAIN d.at -> Entry]
    BY <1>1 DEF Without, IsContents
  <1>4. IsContents(d)
    BY <1>1, <1>2, <1>3 DEF IsContents
  <1> QED BY <1>2, <1>4

\* A secret of its own goes to a location.
LEMMA WriteSound ==
  ASSUME NEW c, Sound(c), NEW l \in Location, NEW e \in Entry, NEW d, d = WriteEntry(c, l, e),
         e.value # 0, \A m \in DOMAIN c.at : c.at[m].value # e.value
  PROVE  Sound(d)
  <1>1. IsContents(d)
    BY WriteEntryType DEF Sound
  <1>2. /\ DOMAIN d.at = DOMAIN c.at \cup {l} /\ d.at[l] = e
        /\ \A m \in DOMAIN c.at : m # l => d.at[m] = c.at[m]
    BY WriteEntryFacts
  <1>3. IsFiniteSet(DOMAIN d.at)
    BY <1>2, FS_AddElement DEF Sound
  <1>4. \A m \in DOMAIN d.at : d.at[m].value = 0 => d.at[m] = NoEntry
    BY <1>2 DEF Sound
  <1>5. \A m, n \in DOMAIN d.at : d.at[m].value = d.at[n].value => m = n \/ d.at[m] = NoEntry
    BY <1>2 DEF Sound
  <1> QED BY <1>1, <1>3, <1>4, <1>5 DEF Sound

LEMMA RemoveSound ==
  ASSUME NEW c, Sound(c), NEW l, NEW d, d = RemoveEntry(c, l)
  PROVE  Sound(d)
  <1>1. /\ DOMAIN d.at = DOMAIN c.at \ {l} /\ IsContents(d)
        /\ \A m \in DOMAIN d.at : d.at[m] = c.at[m]
    BY RemoveEntryFacts DEF Sound
  <1>2. IsFiniteSet(DOMAIN d.at)
    BY <1>1, FS_RemoveElement DEF Sound
  <1> QED BY <1>1, <1>2 DEF Sound

\* What was at l is at n, which was free; all else is where it was.
Carried(c, d, l, n) ==
  /\ IsContents(d)
  /\ DOMAIN d.at \ {n} = DOMAIN c.at \ {l} /\ n \notin DOMAIN c.at
  /\ HasEntry(c, l) => HasEntry(d, n)
  /\ EntryAt(d, n) = EntryAt(c, l)
  /\ \A m \in DOMAIN c.at \ {l} : d.at[m] = c.at[m]

LEMMA CarriedSound ==
  ASSUME NEW c, NEW d, NEW l, NEW n, Sound(c), Carried(c, d, l, n)
  PROVE  /\ Sound(d) /\ Values(d) = Values(c)
         /\ \A m \in DOMAIN d.at : \/ d.at[m] = NoEntry
                                   \/ \E k \in DOMAIN c.at : d.at[m] = c.at[k]
  <1>1. /\ DOMAIN d.at \ {n} = DOMAIN c.at \ {l} /\ n \notin DOMAIN c.at
        /\ \A m \in DOMAIN c.at \ {l} : d.at[m] = c.at[m]
        /\ IsContents(d)
    BY DEF Carried
  <1>2. n \in DOMAIN d.at => d.at[n] = EntryAt(c, l)
    BY DEF Carried, EntryAt, HasEntry
  <1>3. l \in DOMAIN c.at => n \in DOMAIN d.at
    BY DEF Carried, HasEntry
  <1>4. /\ l \in DOMAIN c.at => EntryAt(c, l) = c.at[l]
        /\ l \notin DOMAIN c.at => EntryAt(c, l) = NoEntry
    BY DEF EntryAt, HasEntry
  <1>5. IsFiniteSet(DOMAIN d.at)
    <2>1. IsFiniteSet((DOMAIN c.at \ {l}) \cup {n})
      BY FS_RemoveElement, FS_AddElement DEF Sound
    <2>2. DOMAIN d.at \subseteq (DOMAIN c.at \ {l}) \cup {n}
      BY <1>1
    <2> QED BY <2>1, <2>2, FS_Subset
  <1>6. ASSUME NEW m \in DOMAIN d.at
        PROVE  \/ m # n /\ m \in DOMAIN c.at \ {l} /\ d.at[m] = c.at[m]
               \/ m = n /\ l \in DOMAIN c.at /\ d.at[m] = c.at[l]
               \/ m = n /\ d.at[m] = NoEntry
    BY <1>1, <1>2, <1>4
  <1>7. \A m \in DOMAIN d.at : d.at[m].value = 0 => d.at[m] = NoEntry
    BY <1>6 DEF Sound
  <1>8. NoEntry.value = 0
    BY DEF NoEntry
  <1>9. ASSUME NEW m \in DOMAIN d.at, NEW k \in DOMAIN d.at, d.at[m].value = d.at[k].value
        PROVE  m = k \/ d.at[m] = NoEntry
    <2>1. CASE d.at[k] = NoEntry
      BY <1>7, <1>8, <1>9, <2>1
    <2>2. CASE d.at[k] # NoEntry /\ d.at[m] # NoEntry
      BY <1>6, <1>9, <2>2 DEF Sound
    <2> QED BY <2>1, <2>2
  <1>10. Sound(d)
    BY <1>1, <1>5, <1>7, <1>9 DEF Sound
  <1>11. ASSUME NEW v PROVE v \in Values(d) <=> v \in Values(c)
    <2>1. ASSUME v \in Values(d) PROVE v \in Values(c)
      <3>1. v # 0 /\ \E m \in DOMAIN d.at : d.at[m].value = v
        BY <2>1, ValuesAre
      <3>2. \E k \in DOMAIN c.at : c.at[k].value = v
        BY <1>6, <1>8, <3>1
      <3> QED BY <3>1, <3>2, ValuesAre
    <2>2. ASSUME v \in Values(c) PROVE v \in Values(d)
      <3>1. v # 0 /\ \E k \in DOMAIN c.at : c.at[k].value = v
        BY <2>2, ValuesAre
      <3>2. PICK k \in DOMAIN c.at : c.at[k].value = v
        BY <3>1
      <3>3. CASE k = l
        BY <1>2, <1>3, <1>4, <3>1, <3>2, <3>3, ValuesAre
      <3>4. CASE k # l
        BY <1>1, <3>1, <3>2, <3>4, ValuesAre
      <3> QED BY <3>3, <3>4
    <2> QED BY <2>1, <2>2
  <1>12. \A m \in DOMAIN d.at : d.at[m] = NoEntry \/ \E k \in DOMAIN c.at : d.at[m] = c.at[k]
    BY <1>6
  <1>13. Values(d) = Values(c)
    BY <1>11
  <1> QED BY <1>10, <1>12, <1>13

LEMMA RenameCarries ==
  ASSUME NEW c, IsContents(c), NEW l \in Location, NEW n \in Location, NEW d,
         n \notin DOMAIN c.at, l # n, l.folder = n.folder, d = RenameEntry(c, l, n)
  PROVE  Carried(c, d, l, n)
  <1>1. DOMAIN d = {"folders", "at"} /\ d.folders = c.folders \cup {l.folder}
    BY DEF RenameEntry
  <1>2. d.folders \subseteq Folder
    BY <1>1 DEF IsContents, Location
  <1>3. CASE l \notin DOMAIN c.at
    <2>1. d.at = c.at
      BY <1>3 DEF RenameEntry, HasEntry
    <2>2. IsContents(d)
      BY <1>1, <1>2, <2>1 DEF IsContents
    <2> QED BY <1>3, <2>1, <2>2 DEF Carried, EntryAt, HasEntry
  <1>4. CASE l \in DOMAIN c.at
    <2>1. d.at = With(Without(c.at, {l}), n, c.at[l])
      BY <1>4 DEF RenameEntry, HasEntry
    <2>2. /\ DOMAIN d.at = (DOMAIN c.at \ {l}) \cup {n} /\ d.at[n] = c.at[l]
          /\ \A m \in DOMAIN c.at \ {l} : d.at[m] = c.at[m]
      BY <2>1 DEF With, Without
    <2>3. \A m \in DOMAIN d.at : d.at[m] \in Entry /\ m \in Location /\ m.folder \in d.folders
      BY <1>1, <1>4, <2>2 DEF IsContents
    <2>4. d.at \in [DOMAIN d.at -> Entry]
      <3>1. d.at = [m \in DOMAIN d.at |-> d.at[m]]
        BY <2>1 DEF With
      <3> QED BY <2>3, <3>1
    <2>5. IsContents(d)
      BY <1>1, <1>2, <2>3, <2>4 DEF IsContents
    <2> QED BY <1>4, <2>2, <2>5 DEF Carried, EntryAt, HasEntry
  <1> QED BY <1>3, <1>4

LEMMA MoveCarries ==
  ASSUME NEW c, IsContents(c), NEW l \in Location, NEW n \in Location, NEW d,
         n \notin DOMAIN c.at, l # n, d = RemoveEntry(WriteEntry(c, n, EntryAt(c, l)), l)
  PROVE  Carried(c, d, l, n)
  <1> DEFINE w == WriteEntry(c, n, EntryAt(c, l))
  <1>1. EntryAt(c, l) \in Entry
    BY EntryAtType
  <1>2. IsContents(w)
    BY <1>1, WriteEntryType
  <1>3. /\ DOMAIN w.at = DOMAIN c.at \cup {n} /\ w.at[n] = EntryAt(c, l)
        /\ \A m \in DOMAIN c.at : m # n => w.at[m] = c.at[m]
    BY WriteEntryFacts
  <1> HIDE DEF w
  <1>4. d = RemoveEntry(w, l)
    BY DEF w
  <1>5. /\ DOMAIN d.at = DOMAIN w.at \ {l} /\ IsContents(d)
        /\ \A m \in DOMAIN d.at : d.at[m] = w.at[m]
    BY <1>2, <1>4, RemoveEntryFacts
  <1>6. DOMAIN d.at \ {n} = DOMAIN c.at \ {l} /\ n \in DOMAIN d.at /\ d.at[n] = EntryAt(c, l)
    BY <1>3, <1>5
  <1>7. \A m \in DOMAIN c.at \ {l} : d.at[m] = c.at[m]
    BY <1>3, <1>5
  <1>8. HasEntry(d, n) /\ EntryAt(d, n) = EntryAt(c, l)
    <2>1. HasEntry(d, n)
      BY <1>6 DEF HasEntry
    <2>2. EntryAt(d, n) = d.at[n]
      BY <2>1 DEF EntryAt
    <2> QED BY <1>6, <2>1, <2>2
  <1> QED BY <1>5, <1>6, <1>7, <1>8 DEF Carried

Known(c) == \A l \in DOMAIN c.at : c.at[l].type # "unknown"

LEMMA ReadBackSound ==
  ASSUME NEW c, Sound(c), NEW d, d = ReadBack(c)
  PROVE  /\ Sound(d) /\ DOMAIN d.at \subseteq DOMAIN c.at
         /\ \A l \in DOMAIN d.at : d.at[l] = c.at[l]
         /\ Known(c) => DOMAIN d.at = DOMAIN c.at
  <1> DEFINE unknown == {l \in DOMAIN c.at : c.at[l].type = "unknown"}
             lost == {l \in DOMAIN c.at : \E u \in unknown : l = u \/ Precedes(u, l)}
  <1>1. /\ DOMAIN d = {"folders", "at"}
        /\ d.folders = {f \in c.folders : \A u \in unknown : f <= u.folder}
        /\ d.at = Without(c.at, lost)
    BY DEF ReadBack
  <1>2. DOMAIN d.at = DOMAIN c.at \ lost /\ \A l \in DOMAIN d.at : d.at[l] = c.at[l]
    BY <1>1 DEF Without
  <1>3. ASSUME NEW l \in DOMAIN d.at PROVE l.folder \in d.folders
    <2>1. l \in DOMAIN c.at /\ l \in Location /\ l.folder \in c.folders
      BY <1>2 DEF Sound, IsContents
    <2>2. ASSUME NEW u \in unknown PROVE l.folder <= u.folder
      <3>1. u \in Location /\ l # u /\ ~Precedes(u, l)
        BY <1>2, <2>1 DEF Sound, IsContents
      <3>2. Precedes(l, u)
        BY <2>1, <3>1, PrecedesIsOrder
      <3>3. l.folder \in Nat /\ u.folder \in Nat
        BY <2>1, <3>1, LocationIsNumbers
      <3> QED BY <3>2, <3>3 DEF Precedes
    <2> QED BY <1>1, <2>1, <2>2
  <1>4. d.at \in [DOMAIN d.at -> Entry] /\ DOMAIN d.at \subseteq Location
    <2>1. \A l \in DOMAIN d.at : d.at[l] \in Entry /\ l \in Location
      BY <1>2 DEF Sound, IsContents
    <2>2. d.at = [l \in DOMAIN d.at |-> d.at[l]]
      BY <1>1 DEF Without
    <2> QED BY <2>1, <2>2
  <1>5. IsContents(d)
    <2>1. d.folders \subseteq Folder
      BY <1>1 DEF Sound, IsContents
    <2> QED BY <1>1, <1>3, <1>4, <2>1 DEF IsContents
  <1>6. IsFiniteSet(DOMAIN d.at)
    BY <1>2, FS_Subset DEF Sound
  <1>7. Sound(d)
    BY <1>2, <1>5, <1>6 DEF Sound
  <1>8. ASSUME Known(c) PROVE DOMAIN d.at = DOMAIN c.at
    BY <1>2, <1>8 DEF Known
  <1> QED BY <1>2, <1>7, <1>8

-----------------------------------------------------------------------------
(* The invariant *)

AttrsOK(a) ==
  DOMAIN a \subseteq Location /\ a \in [DOMAIN a -> Description] /\ IsFiniteSet(DOMAIN a)

ItemsOK ==
  /\ DOMAIN items \subseteq Nat /\ items \in [DOMAIN items -> Location]
  /\ paths \in Nat /\ \A p \in DOMAIN items : p < paths

Tables == AttrsOK(attrs) /\ AttrsOK(json) /\ ItemsOK

Flags ==
  /\ unlocked \in BOOLEAN /\ pending \in BOOLEAN /\ estranged \in BOOLEAN
  /\ value \in 0 .. MaxValue /\ mishaps \in 0 .. MaxMishaps
  /\ misread \subseteq 0 .. value
  /\ ~unlocked => wallet = Nothing /\ ~pending

Reached == unlocked => DOMAIN wallet.at \subseteq Locations(items)

Below(c, n) == \A l \in DOMAIN c.at : c.at[l].value <= n
Secrets ==
  /\ Sound(wallet) /\ Sound(kwl) /\ Below(wallet, value) /\ Below(kwl, value)
  /\ kept \subseteq 1 .. value
  /\ kept \ misread \subseteq Values(Current) /\ Values(Current) \subseteq kept

\* As long as nothing has come between them the records agree, locked or not, and no
\* entry has the type that read() stumbles over.
Alone == \A p, q \in DOMAIN items : items[p] = items[q] => p = q
Joined ==
  ~estranged =>
    /\ misread = {} /\ Known(wallet) /\ Known(kwl)
    /\ DOMAIN attrs = Locations(items) /\ Alone
    /\ unlocked => Locations(items) = DOMAIN wallet.at
    /\ ~unlocked => Locations(items) \subseteq DOMAIN kwl.at

Invariant == Flags /\ Tables /\ Reached /\ Secrets /\ Joined

LEMMA InvariantImpliesStructure == Invariant => Structure
  <1> SUFFICES ASSUME Invariant PROVE Structure
    OBVIOUS
  <1>1. IsContents(wallet) /\ IsContents(kwl)
    BY DEF Invariant, Secrets, Sound
  <1>2. kept \subseteq 0 .. value
    BY DEF Invariant, Secrets, Flags
  <1> QED BY <1>1, <1>2 DEF Invariant, Flags, Tables, AttrsOK, ItemsOK, Structure

-----------------------------------------------------------------------------
(* Helpers of the steps *)

LEMMA MishapsType ==
  ASSUME Flags, NEW n \in Nat, Mishaps(n)
  PROVE  mishaps' \in 0 .. MaxMishaps
  BY ItemsAssumption DEF Flags, Mishaps

LEMMA JsonType ==
  ASSUME Tables, NEW fails, AttrsOK(attrs'), WriteJson(fails)
  PROVE  AttrsOK(json')
  BY DEF Tables, WriteJson

LEMMA WithAttrs ==
  ASSUME NEW a, AttrsOK(a), NEW l \in Location, NEW d \in Description, NEW b, b = With(a, l, d)
  PROVE  AttrsOK(b) /\ DOMAIN b = DOMAIN a \cup {l} /\ b[l] = d
  <1>1. DOMAIN b = DOMAIN a \cup {l} /\ b[l] = d
    BY DEF With
  <1>2. b \in [DOMAIN b -> Description]
    BY DEF With, AttrsOK
  <1>3. IsFiniteSet(DOMAIN b)
    BY <1>1, FS_AddElement DEF AttrsOK
  <1> QED BY <1>1, <1>2, <1>3 DEF AttrsOK

LEMMA WithoutAttrs ==
  ASSUME NEW a, AttrsOK(a), NEW l, NEW b, b = Without(a, {l})
  PROVE  AttrsOK(b) /\ DOMAIN b = DOMAIN a \ {l}
  <1>1. DOMAIN b = DOMAIN a \ {l}
    BY DEF Without
  <1>2. b \in [DOMAIN b -> Description]
    BY DEF Without, AttrsOK
  <1>3. IsFiniteSet(DOMAIN b)
    BY <1>1, FS_RemoveElement DEF AttrsOK
  <1> QED BY <1>1, <1>2, <1>3 DEF AttrsOK

LEMMA MovedAttrs ==
  ASSUME NEW a, AttrsOK(a), NEW l \in Location, NEW n \in Location, NEW b, b = Moved(a, l, n)
  PROVE  /\ AttrsOK(b)
         /\ l \in DOMAIN a => DOMAIN b = (DOMAIN a \ {l}) \cup {n} /\ b[n] = a[l]
         /\ l \notin DOMAIN a => b = a
  <1>1. CASE l \in DOMAIN a
    <2> DEFINE w == Without(a, {l})
    <2>1. AttrsOK(w) /\ DOMAIN w = DOMAIN a \ {l}
      BY WithoutAttrs
    <2>2. a[l] \in Description
      BY <1>1 DEF AttrsOK
    <2>3. b = With(w, n, a[l])
      BY <1>1 DEF Moved
    <2> HIDE DEF w
    <2>4. ASSUME NEW x \in Description, x = a[l]
          PROVE  AttrsOK(b) /\ DOMAIN b = DOMAIN w \cup {n} /\ b[n] = x
      <3>1. b = With(w, n, x)
        BY <2>3, <2>4
      <3> QED BY <2>1, <3>1, WithAttrs
    <2> QED BY <1>1, <2>1, <2>2, <2>4
  <1>2. CASE l \notin DOMAIN a
    BY <1>2 DEF Moved
  <1> QED BY <1>1, <1>2

LEMMA UniqueIs ==
  ASSUME NEW f \in Folder, NEW n \in Name, NEW l \in UniqueLocation(f, n)
  PROVE  l \in Location /\ l.folder = f /\ (unlocked => l \notin DOMAIN wallet.at)
  <1>1. PICK k \in 0 .. MaxCopy :
          /\ l = [folder |-> f, name |-> n, copy |-> k]
          /\ ~unlocked \/ ~HasEntry(wallet, [folder |-> f, name |-> n, copy |-> k])
    BY DEF UniqueLocation
  <1> QED BY <1>1 DEF Location, HasEntry

LEMMA ReplacedIs ==
  ASSUME ItemsOK, NEW query, NEW replace, NEW l \in Replaced(query, replace)
  PROVE  l \in Location /\ FindItem(items, l) \in DOMAIN items /\ items[FindItem(items, l)] = l
  <1>1. ItemsAt(items, l) # {}
    BY DEF Replaced
  <1>2. FindItem(items, l) \in DOMAIN items /\ items[FindItem(items, l)] = l
    BY <1>1, FindItemFinds DEF ItemsOK
  <1> QED BY <1>2 DEF ItemsOK

LEMMA RegisterFacts ==
  ASSUME Tables, NEW l \in Location, NEW p, NEW query \in Description, Register(l, p, query),
         p = paths \/ (p \in DOMAIN items /\ items[p] = l)
  PROVE  /\ AttrsOK(attrs') /\ DOMAIN attrs' = DOMAIN attrs \cup {l}
         /\ ItemsOK' /\ Locations(items') = Locations(items) \cup {l}
         /\ \A q \in DOMAIN items : q \in DOMAIN items' /\ items'[q] = items[q]
         /\ Alone /\ l \notin Locations(items) => Alone'
         /\ Alone /\ p # paths => Alone'
         /\ p # paths => paths' = paths
  <1>1. /\ attrs' = With(attrs, l, query) /\ items' = With(items, p, l)
        /\ paths' = IF p = paths THEN paths + 1 ELSE paths
    BY DEF Register
  <1>2. AttrsOK(attrs') /\ DOMAIN attrs' = DOMAIN attrs \cup {l}
    BY <1>1, WithAttrs DEF Tables
  <1>3. /\ DOMAIN items' = DOMAIN items \cup {p} /\ items'[p] = l
        /\ \A q \in DOMAIN items : q # p => items'[q] = items[q]
    BY <1>1 DEF With
  <1>4. p \in DOMAIN items => p # paths /\ p < paths
    BY DEF Tables, ItemsOK
  <1>5. \A q \in DOMAIN items : q \in DOMAIN items' /\ items'[q] = items[q]
    BY <1>3, <1>4
  <1>6. ItemsOK'
    <2>1. paths' \in Nat /\ p < paths' /\ p \in Nat /\ paths <= paths'
      BY <1>1, <1>4 DEF Tables, ItemsOK
    <2>2. \A q \in DOMAIN items' : q \in Nat /\ q < paths' /\ items'[q] \in Location
      BY <1>3, <1>5, <2>1 DEF Tables, ItemsOK
    <2>3. items' = [q \in DOMAIN items' |-> items'[q]]
      BY <1>1 DEF With
    <2> QED BY <2>1, <2>2, <2>3 DEF ItemsOK
  <1>7. Locations(items') = Locations(items) \cup {l}
    BY <1>3, <1>5 DEF Locations
  <1>8. ASSUME Alone, l \notin Locations(items) PROVE Alone'
    BY <1>3, <1>5, <1>8 DEF Alone, Locations
  <1>9. ASSUME Alone, p # paths PROVE Alone'
    BY <1>3, <1>5, <1>9 DEF Alone
  <1>10. p # paths => paths' = paths
    BY <1>1
  <1> QED BY <1>2, <1>5, <1>6, <1>7, <1>8, <1>9, <1>10

-----------------------------------------------------------------------------
(* What the steps do to the secrets *)

LEMMA CurrentIs ==
  /\ unlocked => Current = wallet
  /\ ~unlocked => Current = kwl
  BY DEF Current

LEMMA ValuesBelow ==
  ASSUME NEW c, Sound(c), NEW v \in Nat, Below(c, v)
  PROVE  Values(c) \subseteq 1 .. v
  <1>1. \A l \in DOMAIN c.at : c.at[l].value \in Nat /\ c.at[l].value <= v
    BY DEF Sound, IsContents, Entry, Below
  <1>2. \A x \in Values(c) : x # 0 /\ \E l \in DOMAIN c.at : c.at[l].value = x
    BY ValuesAre
  <1>3. \A x \in Values(c) : x \in Nat /\ x <= v /\ x # 0
    BY <1>1, <1>2
  <1> QED BY <1>3

LEMMA SameSecrets ==
  ASSUME Secrets, UNCHANGED <<unlocked, wallet, kwl, value, kept, misread>>
  PROVE  Secrets' /\ (Known(wallet) => Known(wallet')) /\ (Known(kwl) => Known(kwl'))
  BY DEF Secrets, Below, Current

\* The parts of Secrets, for a step of an unlocked wallet that leaves the file alone.
LEMMA UnlockedSecrets ==
  ASSUME Secrets, unlocked', UNCHANGED kwl, value' \in Nat, value <= value', Flags,
         Sound(wallet'), Below(wallet', value'), kept' \subseteq 1 .. value',
         kept' \ misread' \subseteq Values(wallet'), Values(wallet') \subseteq kept'
  PROVE  Secrets'
  <1>1. Current' = wallet'
    BY DEF Current
  <1>2. Below(kwl', value')
    <2>1. \A l \in DOMAIN kwl.at : kwl.at[l].value \in Nat /\ kwl.at[l].value <= value
      BY DEF Secrets, Sound, IsContents, Entry, Below
    <2>2. value \in Nat
      BY DEF Flags
    <2> QED BY <2>1, <2>2 DEF Below
  <1>3. Sound(kwl')
    BY DEF Secrets
  <1> QED BY <1>1, <1>2, <1>3 DEF Secrets

\* A new secret takes the place of the one at its location.
LEMMA StoreSecrets ==
  ASSUME Flags, Secrets, unlocked, unlocked', NEW l \in Location, NEW t \in KnownType,
         UseValue, Wrote(WriteEntry(wallet, l, [type |-> t, value |-> value + 1])),
         kept' = (kept \ {EntryAt(wallet, l).value}) \cup {value + 1},
         UNCHANGED <<kwl, misread>>
  PROVE  /\ Secrets' /\ value' \in 0 .. MaxValue /\ misread' \subseteq 0 .. value'
         /\ DOMAIN wallet'.at = DOMAIN wallet.at \cup {l}
         /\ \A m \in DOMAIN wallet.at : m # l => wallet'.at[m] = wallet.at[m]
         /\ Known(wallet) => Known(wallet')
         /\ pending' = TRUE
  <1> DEFINE e == [type |-> t, value |-> value + 1]
  <1>1. value \in Nat /\ value' = value + 1 /\ value' \in 0 .. MaxValue /\ MaxValue \in Nat
    BY ItemsAssumption DEF Flags, UseValue
  <1>2. e \in Entry /\ e.value = value + 1 /\ e.type = t /\ t # "unknown"
    BY <1>1, EntriesAssumption DEF Entry
  <1>3. wallet' = WriteEntry(wallet, l, e) /\ pending' = TRUE
    BY DEF Wrote
  <1> HIDE DEF e
  <1>4. /\ DOMAIN wallet'.at = DOMAIN wallet.at \cup {l} /\ wallet'.at[l] = e
        /\ \A m \in DOMAIN wallet.at : m # l => wallet'.at[m] = wallet.at[m]
    BY <1>3, WriteEntryFacts
  <1>5. \A m \in DOMAIN wallet.at : wallet.at[m].value \in Nat /\ wallet.at[m].value <= value
    BY DEF Secrets, Sound, IsContents, Entry, Below
  <1>6. Sound(wallet')
    <2>1. e.value # 0 /\ \A m \in DOMAIN wallet.at : wallet.at[m].value # e.value
      BY <1>1, <1>2, <1>5
    <2> QED BY <1>2, <1>3, <2>1, WriteSound DEF Secrets
  <1>7. Below(wallet', value')
    <2>1. \A m \in DOMAIN wallet.at : wallet.at[m].value <= value'
      BY <1>1, <1>5
    <2>2. e.value <= value'
      BY <1>1, <1>2
    <2> QED BY <1>4, <2>1, <2>2 DEF Below
  <1>8. kept' \subseteq 1 .. value' /\ misread' \subseteq 0 .. value'
    <2>1. 1 .. value \subseteq 1 .. value' /\ 0 .. value \subseteq 0 .. value'
          /\ value + 1 \in 1 .. value'
      BY <1>1
    <2>2. kept \subseteq 1 .. value /\ misread \subseteq 0 .. value
      BY DEF Secrets, Flags
    <2> QED BY <1>1, <2>1, <2>2
  <1>9. ASSUME NEW v \in kept', v \notin misread' PROVE v \in Values(wallet')
    <2>1. CASE v = value + 1
      <3>1. v # 0 /\ wallet'.at[l].value = v /\ l \in DOMAIN wallet'.at
        BY <1>1, <1>2, <1>4, <2>1
      <3> QED BY <3>1, ValuesAre
    <2>2. CASE v \in kept /\ v # EntryAt(wallet, l).value
      <3>1. v \in Values(wallet)
        BY <1>9, <2>2 DEF Secrets, Current
      <3>2. v # 0 /\ \E m \in DOMAIN wallet.at : wallet.at[m].value = v
        BY <3>1, ValuesAre
      <3>3. PICK m \in DOMAIN wallet.at : wallet.at[m].value = v
        BY <3>2
      <3>4. m # l
        BY <2>2, <3>3 DEF EntryAt, HasEntry
      <3>5. m \in DOMAIN wallet'.at /\ wallet'.at[m].value = v
        BY <1>4, <3>3, <3>4
      <3> QED BY <3>2, <3>5, ValuesAre
    <2> QED BY <2>1, <2>2
  <1>10. ASSUME NEW v \in Values(wallet') PROVE v \in kept'
    <2>1. v # 0 /\ \E m \in DOMAIN wallet'.at : wallet'.at[m].value = v
      BY ValuesAre
    <2>2. PICK m \in DOMAIN wallet'.at : wallet'.at[m].value = v
      BY <2>1
    <2>3. CASE m = l
      BY <1>2, <1>4, <2>2, <2>3
    <2>4. CASE m # l
      <3>1. m \in DOMAIN wallet.at /\ wallet.at[m].value = v
        BY <1>4, <2>2, <2>4
      <3>2. v \in Values(wallet)
        BY <2>1, <3>1, ValuesAre
      <3>3. v \in kept
        BY <3>2 DEF Secrets, Current
      <3>4. NoEntry.value = 0
        BY DEF NoEntry
      <3>5. v # EntryAt(wallet, l).value
        <4>1. CASE l \in DOMAIN wallet.at
          <5>1. EntryAt(wallet, l) = wallet.at[l]
            BY <4>1 DEF EntryAt, HasEntry
          <5> QED BY <2>1, <2>4, <3>1, <3>4, <4>1, <5>1 DEF Secrets, Sound
        <4>2. CASE l \notin DOMAIN wallet.at
          BY <2>1, <3>4, <4>2 DEF EntryAt, HasEntry
        <4> QED BY <4>1, <4>2
      <3> QED BY <3>3, <3>5
    <2> QED BY <2>3, <2>4
  <1>11. Secrets'
    <2>1. value' \in Nat /\ value <= value'
      BY <1>1
    <2>2. kept' \ misread' \subseteq Values(wallet') /\ Values(wallet') \subseteq kept'
      BY <1>9, <1>10
    <2> QED BY <1>6, <1>7, <1>8, <2>1, <2>2, UnlockedSecrets
  <1>12. Known(wallet) => Known(wallet')
    BY <1>2, <1>4 DEF Known
  <1> QED BY <1>1, <1>3, <1>4, <1>8, <1>11, <1>12

LEMMA DropSecrets ==
  ASSUME Flags, Secrets, unlocked, unlocked', NEW l, Wrote(RemoveEntry(wallet, l)),
         kept' = kept \ {EntryAt(wallet, l).value}, UNCHANGED <<kwl, misread, value>>
  PROVE  /\ Secrets' /\ DOMAIN wallet'.at = DOMAIN wallet.at \ {l}
         /\ Known(wallet) => Known(wallet')
         /\ pending' = TRUE
  <1>1. wallet' = RemoveEntry(wallet, l) /\ pending' = TRUE
    BY DEF Wrote
  <1>2. /\ DOMAIN wallet'.at = DOMAIN wallet.at \ {l}
        /\ \A m \in DOMAIN wallet'.at : wallet'.at[m] = wallet.at[m]
    BY <1>1, RemoveEntryFacts DEF Secrets, Sound
  <1>3. Sound(wallet')
    BY <1>1, RemoveSound DEF Secrets
  <1>4. Below(wallet', value')
    BY <1>2 DEF Secrets, Below
  <1>5. ASSUME NEW v \in kept', v \notin misread' PROVE v \in Values(wallet')
    <2>1. v \in kept /\ v # EntryAt(wallet, l).value
      OBVIOUS
    <2>2. v \in Values(wallet)
      BY <1>5, <2>1 DEF Secrets, Current
    <2>3. v # 0 /\ \E m \in DOMAIN wallet.at : wallet.at[m].value = v
      BY <2>2, ValuesAre
    <2>4. PICK m \in DOMAIN wallet.at : wallet.at[m].value = v
      BY <2>3
    <2>5. m # l
      BY <2>1, <2>4 DEF EntryAt, HasEntry
    <2>6. m \in DOMAIN wallet'.at /\ wallet'.at[m].value = v
      BY <1>2, <2>4, <2>5
    <2> QED BY <2>3, <2>6, ValuesAre
  <1>6. ASSUME NEW v \in Values(wallet') PROVE v \in kept'
    <2>1. v # 0 /\ \E m \in DOMAIN wallet'.at : wallet'.at[m].value = v
      BY ValuesAre
    <2>2. PICK m \in DOMAIN wallet'.at : wallet'.at[m].value = v
      BY <2>1
    <2>3. m \in DOMAIN wallet.at /\ wallet.at[m].value = v /\ m # l
      BY <1>2, <2>2
    <2>4. v \in Values(wallet)
      BY <2>1, <2>3, ValuesAre
    <2>5. v \in kept
      BY <2>4 DEF Secrets, Current
    <2>6. NoEntry.value = 0
      BY DEF NoEntry
    <2>7. v # EntryAt(wallet, l).value
      <3>1. CASE l \in DOMAIN wallet.at
        <4>1. EntryAt(wallet, l) = wallet.at[l]
          BY <3>1 DEF EntryAt, HasEntry
        <4> QED BY <2>1, <2>3, <2>6, <3>1, <4>1 DEF Secrets, Sound
      <3>2. CASE l \notin DOMAIN wallet.at
        BY <2>1, <2>6, <3>2 DEF EntryAt, HasEntry
      <3> QED BY <3>1, <3>2
    <2> QED BY <2>5, <2>7
  <1>7. Secrets'
    <2>1. value' \in Nat /\ value <= value'
      BY DEF Flags
    <2>3. kept' \subseteq 1 .. value'
      <3>1. kept \subseteq 1 .. value /\ value' = value
        BY DEF Secrets
      <3> QED BY <3>1
    <2>2. kept' \ misread' \subseteq Values(wallet') /\ Values(wallet') \subseteq kept'
      BY <1>5, <1>6
    <2> QED BY <1>3, <1>4, <2>1, <2>2, <2>3, UnlockedSecrets
  <1>8. Known(wallet) => Known(wallet')
    BY <1>2 DEF Known
  <1> QED BY <1>1, <1>2, <1>7, <1>8

LEMMA CarrySecrets ==
  ASSUME Flags, Secrets, unlocked, unlocked', NEW l, NEW n, Carried(wallet, wallet', l, n),
         UNCHANGED <<kwl, misread, value, kept>>
  PROVE  /\ Secrets'
         /\ Known(wallet) /\ l \in DOMAIN wallet.at => Known(wallet')
  <1>1. Sound(wallet)
    BY DEF Secrets
  <1>2. /\ Sound(wallet') /\ Values(wallet') = Values(wallet)
        /\ \A m \in DOMAIN wallet'.at : \/ wallet'.at[m] = NoEntry
                                        \/ \E k \in DOMAIN wallet.at : wallet'.at[m] = wallet.at[k]
    BY <1>1, CarriedSound
  <1>3. Below(wallet', value')
    <2>1. value \in Nat /\ NoEntry.value = 0
      BY DEF Flags, NoEntry
    <2> QED BY <1>2, <2>1 DEF Secrets, Below
  <1>4. Secrets'
    <2>1. value' \in Nat /\ value <= value' /\ kept' \subseteq 1 .. value'
      BY DEF Flags, Secrets
    <2>2. kept' \ misread' \subseteq Values(wallet') /\ Values(wallet') \subseteq kept'
      BY <1>2 DEF Secrets, Current
    <2> QED BY <1>2, <1>3, <2>1, <2>2, UnlockedSecrets
  <1>5. ASSUME Known(wallet), l \in DOMAIN wallet.at PROVE Known(wallet')
    <2>1. /\ DOMAIN wallet'.at \ {n} = DOMAIN wallet.at \ {l}
          /\ \A m \in DOMAIN wallet.at \ {l} : wallet'.at[m] = wallet.at[m]
          /\ EntryAt(wallet', n) = EntryAt(wallet, l)
      BY DEF Carried
    <2>2. EntryAt(wallet, l) = wallet.at[l] /\ wallet.at[l].type # "unknown"
      BY <1>5 DEF EntryAt, HasEntry, Known
    <2>3. n \in DOMAIN wallet'.at => wallet'.at[n] = EntryAt(wallet', n)
      BY DEF EntryAt, HasEntry
    <2>4. ASSUME NEW m \in DOMAIN wallet'.at PROVE wallet'.at[m].type # "unknown"
      <3>1. CASE m = n
        BY <2>1, <2>2, <2>3, <2>4, <3>1
      <3>2. CASE m # n
        BY <1>5, <2>1, <2>4, <3>2 DEF Known
      <3> QED BY <3>1, <3>2
    <2> QED BY <2>4 DEF Known
  <1> QED BY <1>4, <1>5

-----------------------------------------------------------------------------
(* What the steps do to the items *)

LEMMA ToldIs ==
  ASSUME NEW its, DOMAIN its \subseteq Nat, NEW l
  PROVE  Told(its, l) \subseteq ItemsAt(its, l)
  <1>1. CASE ItemsAt(its, l) = {}
    BY <1>1 DEF Told
  <1>2. CASE ItemsAt(its, l) # {}
    BY <1>2, FindItemFinds DEF Told, ItemsAt
  <1> QED BY <1>1, <1>2

\* The item p gets another label; another item of its old location, if there is one,
\* is dropped or comes along.
Labelled(p, new) == [items EXCEPT ![p] = new]
Relabel(p, new, out) ==
  LET its == Labelled(p, new)
      other == Told(its, items[p])
  IN
  \/ out = its
  \/ out = Without(its, other)
  \/ out = [q \in DOMAIN its |-> IF q \in other THEN new ELSE its[q]]

LEMMA Relabelled ==
  ASSUME ItemsOK, NEW p \in DOMAIN items, NEW new \in Location, new # items[p],
         NEW out, Relabel(p, new, out)
  PROVE  /\ DOMAIN out \subseteq DOMAIN items /\ out \in [DOMAIN out -> Location]
         /\ (Locations(items) \ {items[p]}) \cup {new} \subseteq Locations(out)
         /\ \A q \in DOMAIN out : out[q] # items[q] => items[q] = items[p] /\ out[q] = new
         /\ Alone => /\ Told(Labelled(p, new), items[p]) = {}
                     /\ DOMAIN out = DOMAIN items /\ out[p] = new
                     /\ \A q \in DOMAIN items : q # p => out[q] = items[q]
  <1> DEFINE l == items[p]
             its == Labelled(p, new)
  <1>0. /\ its = [items EXCEPT ![p] = new] /\ l = items[p] /\ l # new
        /\ \/ out = its
           \/ out = Without(its, Told(its, l))
           \/ out = [q \in DOMAIN its |-> IF q \in Told(its, l) THEN new ELSE its[q]]
    BY DEF Relabel, Labelled
  <1> HIDE DEF l, its
  <1>1. /\ DOMAIN its = DOMAIN items /\ its[p] = new
        /\ \A q \in DOMAIN items : q # p => its[q] = items[q]
        /\ its \in [DOMAIN its -> Location] /\ DOMAIN its \subseteq Nat
    BY <1>0 DEF ItemsOK
  <1>2. Told(its, l) \subseteq ItemsAt(its, l)
    BY <1>1, ToldIs
  <1>3. \A q \in Told(its, l) : q \in DOMAIN items /\ q # p /\ items[q] = l
    BY <1>0, <1>1, <1>2 DEF ItemsAt
  <1> DEFINE T == Told(its, l)
  <1> HIDE DEF T
  <1>4. /\ T \subseteq DOMAIN items /\ p \notin T /\ \A q \in T : items[q] = l
    BY <1>3 DEF T
  <1>5. \/ out = its
        \/ out = Without(its, T)
        \/ out = [q \in DOMAIN its |-> IF q \in T THEN new ELSE its[q]]
    BY <1>0 DEF T
  <1>6. /\ DOMAIN out \subseteq DOMAIN items /\ DOMAIN items \ T \subseteq DOMAIN out
        /\ out \in [DOMAIN out -> Location]
        /\ \A q \in DOMAIN out \ T : out[q] = its[q]
        /\ \A q \in DOMAIN out \cap T : out[q] \in {new, its[q]}
    <2>1. CASE out = its
      BY <1>1, <2>1
    <2>2. CASE out = Without(its, T)
      BY <1>1, <2>2 DEF Without
    <2>3. CASE out = [q \in DOMAIN its |-> IF q \in T THEN new ELSE its[q]]
      BY <1>1, <2>3
    <2> QED BY <1>5, <2>1, <2>2, <2>3
  <1>7. (Locations(items) \ {l}) \cup {new} \subseteq Locations(out)
    <2>1. p \in DOMAIN out /\ out[p] = new
      BY <1>1, <1>4, <1>6
    <2>2. ASSUME NEW m \in Locations(items), m # l PROVE m \in Locations(out)
      <3>1. PICK q \in DOMAIN items : items[q] = m
        BY DEF Locations
      <3>2. q \notin T /\ q # p
        BY <1>0, <1>4, <2>2, <3>1
      <3>3. q \in DOMAIN out /\ out[q] = m
        BY <1>1, <1>6, <3>1, <3>2
      <3> QED BY <3>3 DEF Locations
    <2> QED BY <2>1, <2>2 DEF Locations
  <1>8. ASSUME NEW q \in DOMAIN out, out[q] # items[q] PROVE items[q] = l /\ out[q] = new
    <2>1. CASE q = p
      BY <1>0, <1>1, <1>4, <1>6, <2>1
    <2>2. CASE q # p
      BY <1>1, <1>4, <1>6, <1>8, <2>2
    <2> QED BY <2>1, <2>2
  <1>9. ASSUME Alone
        PROVE  /\ T = {} /\ DOMAIN out = DOMAIN items /\ out[p] = new
               /\ \A q \in DOMAIN items : q # p => out[q] = items[q]
    <2>1. T = {}
      BY <1>0, <1>4, <1>9 DEF Alone
    <2> QED BY <1>1, <1>6, <2>1
  <1> QED BY <1>6, <1>7, <1>8, <1>9 DEF T, l, its

\* Items made for the locations of L, in their order, from the path b on.
LEMMA MadeItems ==
  ASSUME NEW L, L \subseteq Location, IsFiniteSet(L), NEW b \in Nat, NEW l \in L
  PROVE  /\ b + Rank(l, L) \in Nat /\ b <= b + Rank(l, L)
         /\ b + Rank(l, L) < b + Cardinality(L) /\ b + Cardinality(L) \in Nat
         /\ (CHOOSE m \in L : b + Rank(l, L) = b + Rank(m, L)) = l
  <1>1. \A m \in L : Rank(m, L) \in Nat /\ Cardinality(L) \in Nat /\ Rank(m, L) < Cardinality(L)
    BY RankType
  <1>2. \A m \in L : b + Rank(l, L) = b + Rank(m, L) => m = l
    <2>1. ASSUME NEW m \in L, b + Rank(l, L) = b + Rank(m, L) PROVE m = l
      <3>1. Rank(l, L) \in Nat /\ Rank(m, L) \in Nat
        BY <1>1
      <3>2. Rank(l, L) = Rank(m, L)
        BY <2>1, <3>1
      <3> QED BY <3>2, RankIsInjective
    <2> QED BY <2>1
  <1>3. (CHOOSE m \in L : b + Rank(l, L) = b + Rank(m, L)) = l
    BY <1>2
  <1> QED BY <1>1, <1>3

-----------------------------------------------------------------------------
(* The invariant holds at first, and every step preserves it *)

LEMMA FileAtFirst ==
  ASSUME Init
  PROVE  /\ Sound(kwl) /\ Below(kwl, 1) /\ Known(kwl) /\ Values(kwl) \subseteq {1}
  <1>1. CASE kwl = Nothing
    <2>1. Sound(kwl) /\ DOMAIN kwl.at = {} /\ Values(kwl) = {}
      BY <1>1, NothingSound
    <2> QED BY <2>1 DEF Below, Known
  <1>2. CASE kwl # Nothing
    <2>1. PICK l \in Location, t \in KnownType :
            kwl = WriteEntry(Nothing, l, [type |-> t, value |-> 1])
      BY <1>2 DEF Init
    <2> DEFINE e == [type |-> t, value |-> 1]
    <2>2. e \in Entry /\ e.value = 1 /\ e.type = t /\ t # "unknown"
      BY EntriesAssumption DEF Entry
    <2>3. kwl = WriteEntry(Nothing, l, e)
      BY <2>1
    <2> HIDE DEF e
    <2>4. DOMAIN kwl.at = {l} /\ kwl.at[l] = e
      BY <2>3, NothingSound, WriteEntryFacts
    <2>5. Sound(kwl)
      BY <2>2, <2>3, NothingSound, WriteSound
    <2> QED BY <2>2, <2>4, <2>5 DEF Below, Known, Values
  <1> QED BY <1>1, <1>2

LEMMA InitInvariant == Init => Invariant
  <1> SUFFICES ASSUME Init PROVE Invariant
    OBVIOUS
  <1>1. /\ unlocked = FALSE /\ wallet = Nothing /\ pending = FALSE
        /\ items = [p \in {} |-> 0] /\ paths = 0
        /\ attrs = [l \in {} |-> {}] /\ json = attrs
        /\ value = 1 /\ kept = Values(kwl) /\ misread = {} /\ estranged = FALSE
        /\ mishaps = 0
    BY DEF Init
  <1>2. Sound(kwl) /\ Below(kwl, 1) /\ Known(kwl) /\ Values(kwl) \subseteq {1}
    BY FileAtFirst
  <1>3. Flags
    <2>1. value \in 0 .. MaxValue /\ mishaps \in 0 .. MaxMishaps
      BY <1>1, ItemsAssumption
    <2> QED BY <1>1, <2>1 DEF Flags
  <1>4. Tables
    <2>1. AttrsOK(attrs)
      BY <1>1, FS_EmptySet DEF AttrsOK
    <2>2. ItemsOK
      BY <1>1 DEF ItemsOK
    <2> QED BY <1>1, <2>1, <2>2 DEF Tables
  <1>5. Reached
    BY <1>1 DEF Reached
  <1>6. Secrets
    <2>1. Current = kwl
      BY <1>1 DEF Current
    <2>2. Sound(wallet) /\ Below(wallet, value)
      BY <1>1, NothingSound DEF Below
    <2>3. kept \subseteq 1 .. value
      BY <1>1, <1>2
    <2> QED BY <1>1, <1>2, <2>1, <2>2, <2>3 DEF Secrets
  <1>7. Joined
    <2>1. Known(wallet)
      BY <1>1, NothingSound DEF Known
    <2>2. DOMAIN attrs = {} /\ Locations(items) = {} /\ Alone
      BY <1>1 DEF Locations, Alone
    <2> QED BY <1>1, <1>2, <2>1, <2>2 DEF Joined
  <1> QED BY <1>3, <1>4, <1>5, <1>6, <1>7 DEF Invariant

\* A new item lies at a location that is free; replace keeps the item and its path.
LEMMA CreateItemInvariant ==
  ASSUME Invariant, NEW f \in Folder, NEW n \in Name, NEW query \in SUBSET Attribute,
         NEW t \in KnownType, NEW replace \in BOOLEAN, CreateItem(f, n, query, t, replace)
  PROVE  Invariant'
  <1> USE DEF Invariant
  <1>1. unlocked /\ unlocked' /\ UNCHANGED <<unlocked, kwl, misread>>
    BY DEF CreateItem
  <1> DEFINE R == Replaced(query, replace)
  <1>2. PICK l \in IF R # {} THEN R ELSE UniqueLocation(f, n), fails \in {0, 1} :
          LET p == IF R # {} THEN FindItem(items, l) ELSE paths IN
          /\ Register(l, p, query) /\ WriteJson(fails)
          /\ \/ /\ UseValue
                /\ Wrote(WriteEntry(wallet, l, [type |-> t, value |-> value + 1]))
                /\ kept' = (kept \ {EntryAt(wallet, l).value}) \cup {value + 1}
                /\ Mishaps(fails) /\ UNCHANGED estranged
             \/ /\ Mishaps(fails + 1) /\ Estrange(~HasEntry(wallet, l))
                /\ UNCHANGED <<wallet, pending, value, kept>>
    BY DEF CreateItem
  <1> DEFINE p == IF R # {} THEN FindItem(items, l) ELSE paths
  <1>3. Register(l, p, query) /\ WriteJson(fails)
    BY <1>2
  <1>4. /\ l \in Location
        /\ \/ p = paths /\ l \notin DOMAIN wallet.at
           \/ p \in DOMAIN items /\ items[p] = l /\ p # paths
    <2>1. CASE R # {}
      <3>1. l \in Replaced(query, replace) /\ p = FindItem(items, l)
        BY <2>1
      <3>2. l \in Location /\ p \in DOMAIN items /\ items[p] = l
        BY <3>1, ReplacedIs DEF Tables
      <3>3. p # paths
        BY <3>2 DEF Tables, ItemsOK
      <3> QED BY <3>2, <3>3
    <2>2. CASE R = {}
      <3>1. l \in UniqueLocation(f, n) /\ p = paths
        BY <2>2
      <3> QED BY <1>1, <3>1, UniqueIs
    <2> QED BY <2>1, <2>2
  <1> HIDE DEF p, R
  <1>5. query \in Description
    BY DEF Description
  <1>6. /\ AttrsOK(attrs') /\ DOMAIN attrs' = DOMAIN attrs \cup {l}
        /\ ItemsOK' /\ Locations(items') = Locations(items) \cup {l}
        /\ Alone /\ l \notin Locations(items) => Alone'
        /\ Alone /\ p # paths => Alone'
    <2>1. p = paths \/ (p \in DOMAIN items /\ items[p] = l)
      BY <1>4
    <2>2. Tables /\ l \in Location
      BY <1>4
    <2> QED BY <1>3, <1>5, <2>1, <2>2, RegisterFacts
  <1>7. Tables'
    <2>1. AttrsOK(json')
      BY <1>3, <1>6, JsonType
    <2> QED BY <1>6, <2>1 DEF Tables
  <1>8. p # paths => l \in Locations(items)
    BY <1>4 DEF Locations
  <1>9. CASE /\ UseValue
             /\ Wrote(WriteEntry(wallet, l, [type |-> t, value |-> value + 1]))
             /\ kept' = (kept \ {EntryAt(wallet, l).value}) \cup {value + 1}
             /\ Mishaps(fails) /\ UNCHANGED estranged
    <2>1. /\ Secrets' /\ value' \in 0 .. MaxValue /\ misread' \subseteq 0 .. value'
          /\ DOMAIN wallet'.at = DOMAIN wallet.at \cup {l}
          /\ Known(wallet) => Known(wallet')
          /\ pending' = TRUE
      BY <1>1, <1>4, <1>9, StoreSecrets
    <2>2. mishaps' \in 0 .. MaxMishaps
      BY <1>9, MishapsType
    <2>3. Flags'
      BY <1>1, <1>9, <2>1, <2>2 DEF Flags
    <2>4. Reached'
      BY <1>1, <1>6, <2>1 DEF Reached
    <2>5. Joined'
      BY <1>1, <1>4, <1>6, <1>8, <1>9, <2>1 DEF Joined
    <2> QED BY <1>7, <2>1, <2>3, <2>4, <2>5
  <1>10. CASE /\ Mishaps(fails + 1) /\ Estrange(~HasEntry(wallet, l))
              /\ UNCHANGED <<wallet, pending, value, kept>>
    <2>1. Secrets'
      BY <1>1, <1>10, SameSecrets
    <2>2. mishaps' \in 0 .. MaxMishaps
      BY <1>10, MishapsType
    <2>3. Flags'
      <3>1. estranged' \in BOOLEAN
        BY <1>10 DEF Estrange
      <3> QED BY <1>1, <1>10, <2>2, <3>1 DEF Flags
    <2>4. Reached'
      BY <1>1, <1>6, <1>10 DEF Reached
    <2>5. Joined'
      <3>1. ~estranged' => ~estranged /\ l \in DOMAIN wallet.at /\ p # paths
        BY <1>4, <1>10 DEF Estrange, HasEntry
      <3>2. ~estranged => Known(wallet') /\ Known(kwl')
        BY <1>1, <1>10, SameSecrets DEF Joined
      <3> QED BY <1>1, <1>6, <1>8, <1>10, <3>1, <3>2 DEF Joined
    <2> QED BY <1>7, <2>1, <2>3, <2>4, <2>5
  <1> QED BY <1>2, <1>9, <1>10 DEF p

LEMMA SetSecretInvariant ==
  ASSUME Invariant, NEW p \in DOMAIN items, NEW t \in KnownType, SetSecret(p, t)
  PROVE  Invariant'
  <1> USE DEF Invariant
  <1>1. UNCHANGED <<attrs, unlocked, kwl, items, paths, misread, estranged>>
    BY DEF SetSecret
  <1> DEFINE l == items[p]
  <1>2. l \in Location /\ l \in Locations(items)
    BY DEF Tables, ItemsOK, Locations
  <1>3. PICK fails \in {0, 1} :
          /\ WriteJson(fails) \/ UNCHANGED json
          /\ \/ /\ unlocked /\ UseValue
                /\ Wrote(WriteEntry(wallet, l, [type |-> t, value |-> value + 1]))
                /\ kept' = (kept \ {EntryAt(wallet, l).value}) \cup {value + 1}
                /\ Mishaps(fails)
             \/ Mishaps(fails + 1) /\ UNCHANGED <<wallet, pending, value, kept>>
    BY DEF SetSecret
  <1> HIDE DEF l
  <1>4. Tables'
    <2>1. AttrsOK(attrs')
      BY <1>1 DEF Tables
    <2>2. AttrsOK(json')
      <3>1. CASE WriteJson(fails)
        BY <2>1, <3>1, JsonType
      <3>2. CASE UNCHANGED json
        BY <3>2 DEF Tables
      <3> QED BY <1>3, <3>1, <3>2
    <2>3. ItemsOK'
      BY <1>1 DEF Tables, ItemsOK
    <2> QED BY <2>1, <2>2, <2>3 DEF Tables
  <1>5. Alone' <=> Alone
    BY <1>1 DEF Alone
  <1>6. CASE /\ unlocked /\ UseValue
             /\ Wrote(WriteEntry(wallet, l, [type |-> t, value |-> value + 1]))
             /\ kept' = (kept \ {EntryAt(wallet, l).value}) \cup {value + 1}
             /\ Mishaps(fails)
    <2>1. /\ Secrets' /\ value' \in 0 .. MaxValue /\ misread' \subseteq 0 .. value'
          /\ DOMAIN wallet'.at = DOMAIN wallet.at \cup {l}
          /\ Known(wallet) => Known(wallet')
          /\ pending' = TRUE
      BY <1>1, <1>2, <1>6, StoreSecrets
    <2>2. mishaps' \in 0 .. MaxMishaps
      BY <1>6, MishapsType
    <2>3. Flags'
      BY <1>1, <1>6, <2>1, <2>2 DEF Flags
    <2>4. Reached'
      BY <1>1, <1>2, <2>1 DEF Reached
    <2>5. Joined'
      BY <1>1, <1>2, <1>5, <1>6, <2>1 DEF Joined
    <2> QED BY <1>4, <2>1, <2>3, <2>4, <2>5
  <1>7. CASE Mishaps(fails + 1) /\ UNCHANGED <<wallet, pending, value, kept>>
    <2>1. Secrets' /\ (Known(wallet) => Known(wallet')) /\ (Known(kwl) => Known(kwl'))
      BY <1>1, <1>7, SameSecrets
    <2>2. mishaps' \in 0 .. MaxMishaps
      BY <1>7, MishapsType
    <2>3. Flags'
      BY <1>1, <1>7, <2>2 DEF Flags
    <2>4. Reached'
      BY <1>1, <1>7 DEF Reached
    <2>5. Joined'
      BY <1>1, <1>5, <1>7, <2>1 DEF Joined
    <2> QED BY <1>4, <2>1, <2>3, <2>4, <2>5
  <1> QED BY <1>3, <1>6, <1>7

LEMMA SetAttributesInvariant ==
  ASSUME Invariant, NEW p \in DOMAIN items, NEW query \in SUBSET Attribute, SetAttributes(p, query)
  PROVE  Invariant'
  <1> USE DEF Invariant
  <1>1. /\ items[p] \in DOMAIN attrs /\ attrs' = With(attrs, items[p], query)
        /\ UNCHANGED <<unlocked, wallet, kwl, pending, items, paths, value,
                       kept, misread, estranged>>
    BY DEF SetAttributes
  <1>2. PICK fails \in {0, 1} : WriteJson(fails) /\ Mishaps(fails)
    BY DEF SetAttributes
  <1>3. query \in Description /\ items[p] \in Location
    BY DEF Description, Tables, ItemsOK
  <1>4. AttrsOK(attrs') /\ DOMAIN attrs' = DOMAIN attrs
    <2>1. ASSUME NEW l \in Location, l = items[p]
          PROVE  AttrsOK(attrs') /\ DOMAIN attrs' = DOMAIN attrs \cup {l}
      <3>1. attrs' = With(attrs, l, query) /\ AttrsOK(attrs)
        BY <1>1, <2>1 DEF Tables
      <3> QED BY <1>3, <3>1, WithAttrs
    <2> QED BY <1>1, <1>3, <2>1
  <1>5. Tables'
    <2>1. AttrsOK(json')
      BY <1>2, <1>4, JsonType
    <2>2. ItemsOK'
      BY <1>1 DEF Tables, ItemsOK
    <2> QED BY <1>4, <2>1, <2>2 DEF Tables
  <1>6. Flags'
    BY <1>1, <1>2, MishapsType DEF Flags
  <1>7. Secrets' /\ (Known(wallet) => Known(wallet')) /\ (Known(kwl) => Known(kwl'))
    BY <1>1, SameSecrets
  <1>8. Reached'
    BY <1>1 DEF Reached
  <1>9. Joined'
    <2>1. Alone' <=> Alone
      BY <1>1 DEF Alone
    <2> QED BY <1>1, <1>4, <1>7, <2>1 DEF Joined
  <1> QED BY <1>5, <1>6, <1>7, <1>8, <1>9

\* Whoever is told drops items of that location only.
LEMMA DeleteInvariant ==
  ASSUME Invariant, NEW p \in DOMAIN items, Delete(p)
  PROVE  Invariant'
  <1> USE DEF Invariant
  <1> DEFINE l == items[p]
             told == unlocked /\ HasFolder(wallet, l.folder)
             dropped == {p} \cup (IF told THEN Told(items, l) ELSE {})
  <1>1. /\ items' = Without(items, dropped) /\ attrs' = Without(attrs, {l})
        /\ IF told THEN /\ Wrote(RemoveEntry(wallet, l))
                        /\ kept' = kept \ {EntryAt(wallet, l).value}
           ELSE UNCHANGED <<wallet, pending, kept>>
        /\ UNCHANGED <<unlocked, kwl, paths, value, misread>>
        /\ estranged' = (estranged \/ ~unlocked)
    BY DEF Delete, Forget, Estrange
  <1>2. PICK fails \in {0, 1} : WriteJson(fails) /\ Mishaps(fails + IF unlocked THEN 0 ELSE 1)
    BY DEF Delete
  <1>3. /\ DOMAIN items \subseteq Nat /\ items \in [DOMAIN items -> Location]
        /\ l \in Location /\ l \in Locations(items)
    BY DEF Tables, ItemsOK, Locations
  <1>4. dropped \subseteq ItemsAt(items, l) /\ p \in dropped
    <2>1. Told(items, l) \subseteq ItemsAt(items, l)
      BY <1>3, ToldIs
    <2>2. p \in ItemsAt(items, l)
      BY DEF ItemsAt
    <2> QED BY <2>1, <2>2
  <1>5. told => unlocked
    OBVIOUS
  <1>6. ~told /\ unlocked => l \notin DOMAIN wallet.at
    BY DEF HasFolder, Secrets, Sound, IsContents
  <1>7. /\ DOMAIN items' = DOMAIN items \ dropped /\ items' \in [DOMAIN items' -> Location]
        /\ \A q \in DOMAIN items' : items'[q] = items[q]
        /\ Locations(items) \ {l} \subseteq Locations(items')
    <2>1. items' = Without(items, dropped) /\ dropped \subseteq ItemsAt(items, l)
      BY <1>1, <1>4
    <2>2. DOMAIN items \subseteq Nat /\ items \in [DOMAIN items -> Location]
      BY <1>3
    <2> HIDE DEF l, told, dropped, Invariant
    <2>3. /\ DOMAIN items' = DOMAIN items \ dropped
          /\ \A q \in DOMAIN items' : items'[q] = items[q]
      BY <2>1 DEF Without
    <2>4. items' \in [DOMAIN items' -> Location]
      BY <2>1, <2>2 DEF Without
    <2>5. Locations(items) \ {l} \subseteq Locations(items')
      BY <2>1, <2>3 DEF Locations, ItemsAt
    <2> QED BY <2>3, <2>4, <2>5
  <1> HIDE DEF told, dropped
  <1>8. Alone => dropped = {p}
    BY <1>4 DEF Alone, ItemsAt
  <1> HIDE DEF l
  <1>9. AttrsOK(attrs') /\ DOMAIN attrs' = DOMAIN attrs \ {l}
    BY <1>1, WithoutAttrs DEF Tables
  <1>10. Tables'
    <2>1. AttrsOK(json')
      BY <1>2, <1>9, JsonType
    <2>2. ItemsOK'
      BY <1>1, <1>7 DEF Tables, ItemsOK
    <2> QED BY <1>9, <2>1, <2>2 DEF Tables
  <1>11. /\ Secrets' /\ (unlocked => DOMAIN wallet'.at = DOMAIN wallet.at \ {l})
         /\ (Known(wallet) => Known(wallet')) /\ (Known(kwl) => Known(kwl'))
         /\ ~unlocked => wallet' = wallet /\ pending' = pending
         /\ pending' \in BOOLEAN
    <2>1. CASE told
      <3>1. /\ Secrets' /\ DOMAIN wallet'.at = DOMAIN wallet.at \ {l}
            /\ (Known(wallet) => Known(wallet')) /\ pending' = TRUE
        BY <1>1, <1>5, <2>1, DropSecrets
      <3> QED BY <1>1, <1>5, <2>1, <3>1
    <2>2. CASE ~told
      <3>1. Secrets' /\ (Known(wallet) => Known(wallet')) /\ (Known(kwl) => Known(kwl'))
        BY <1>1, <2>2, SameSecrets
      <3>2. unlocked => DOMAIN wallet'.at = DOMAIN wallet.at \ {l}
        BY <1>1, <1>6, <2>2
      <3> QED BY <1>1, <2>2, <3>1, <3>2 DEF Flags
    <2> QED BY <2>1, <2>2
  <1>12. Flags'
    <2>1. mishaps' \in 0 .. MaxMishaps
      <3>1. fails + (IF unlocked THEN 0 ELSE 1) \in Nat
        OBVIOUS
      <3> QED BY <1>2, <3>1, MishapsType
    <2> QED BY <1>1, <1>11, <2>1 DEF Flags
  <1>13. Reached'
    BY <1>1, <1>7, <1>11 DEF Reached
  <1>14. Joined'
    <2> SUFFICES ASSUME ~estranged' PROVE
            /\ misread' = {} /\ Known(wallet)' /\ Known(kwl)'
            /\ DOMAIN attrs' = Locations(items') /\ Alone'
            /\ unlocked /\ Locations(items') = DOMAIN wallet'.at
      BY <1>1 DEF Joined
    <2>1. ~estranged /\ unlocked
      BY <1>1
    <2>2. Alone /\ Locations(items) = DOMAIN wallet.at /\ DOMAIN attrs = Locations(items)
          /\ misread = {} /\ Known(wallet) /\ Known(kwl)
      BY <2>1 DEF Joined
    <2>3. dropped = {p}
      BY <1>8, <2>2
    <2>4. Alone'
      BY <1>7, <2>2 DEF Alone
    <2>5. Locations(items') = Locations(items) \ {l}
      <3>1. \A q \in DOMAIN items' : items'[q] # l
        BY <1>7, <2>2, <2>3 DEF Alone, l
      <3> QED BY <1>7, <3>1 DEF Locations
    <2> QED BY <1>1, <1>9, <1>11, <2>1, <2>2, <2>4, <2>5
  <1> QED BY <1>10, <1>11, <1>12, <1>13, <1>14

\* What a new label does, in each of its cases.
LEMMA SetLabelCases ==
  ASSUME Invariant, NEW p \in DOMAIN items, NEW f \in Folder, NEW n \in Name,
         SetLabel(p, f, n), NEW l, l = items[p]
  PROVE  /\ UNCHANGED <<unlocked, kwl, paths, value, kept, misread>>
         /\ \E new \in Location, fails \in {0, 1} :
              /\ WriteJson(fails) \/ UNCHANGED json
              /\ mishaps' \in 0 .. MaxMishaps
              /\ unlocked => new \notin DOMAIN wallet.at
              /\ Estrange(~unlocked /\ l # new)
              /\ ~unlocked \/ l = new => UNCHANGED <<wallet, pending>>
              /\ unlocked /\ l # new => Carried(wallet, wallet', l, new) /\ pending' = TRUE
              /\ l = new => items' = items
              /\ l # new => Relabel(p, new, items')
              /\ \/ attrs' = Moved(attrs, l, new)
                 \/ /\ attrs' = Without(attrs, {l}) /\ l # new /\ unlocked
                    /\ Told(Labelled(p, new), l) # {}
  <1> USE DEF Invariant
  <1>1. UNCHANGED <<unlocked, kwl, paths, value, kept, misread>>
    BY DEF SetLabel
  <1> DEFINE Its(new) == Labelled(p, new)
             Away(new) == unlocked /\ l.folder # new.folder
             Heard(new) == unlocked /\ l # new /\ (Away(new) => HasFolder(wallet, l.folder))
  <1>2. PICK new \in UniqueLocation(f, n), fails \in {0, 1} :
          /\ IF ~unlocked \/ l = new THEN UNCHANGED <<wallet, pending>>
             ELSE Wrote(IF Away(new) THEN MoveEntry(l, new) ELSE RenameEntry(wallet, l, new))
          /\ items' = IF ~Heard(new) THEN Its(new)
                      ELSE IF Away(new) THEN Without(Its(new), Told(Its(new), l))
                      ELSE [q \in DOMAIN Its(new) |->
                              IF q \in Told(Its(new), l) THEN new ELSE Its(new)[q]]
          /\ attrs' = IF Heard(new) /\ Away(new) /\ Told(Its(new), l) # {}
                      THEN Without(attrs, {l}) ELSE Moved(attrs, l, new)
          /\ IF l \in DOMAIN attrs THEN WriteJson(fails) ELSE fails = 0 /\ UNCHANGED json
          /\ Mishaps(fails + IF ~unlocked /\ l # new THEN 1 ELSE 0)
          /\ Estrange(~unlocked /\ l # new)
    <2> HIDE DEF Invariant
    <2> QED BY ZenonT(60) DEF SetLabel, Labelled
  <1>3. new \in Location /\ (unlocked => new \notin DOMAIN wallet.at)
    BY UniqueIs
  <1>4. l \in Location /\ items \in [DOMAIN items -> Location]
    BY DEF Tables, ItemsOK
  <1>5. mishaps' \in 0 .. MaxMishaps
    <2>1. fails + (IF ~unlocked /\ l # new THEN 1 ELSE 0) \in Nat
      OBVIOUS
    <2> QED BY <1>2, <2>1, MishapsType
  <1>6. ASSUME unlocked, l # new PROVE Carried(wallet, wallet', l, new) /\ pending' = TRUE
    <2>1. IsContents(wallet) /\ new \notin DOMAIN wallet.at
      BY <1>3, <1>6 DEF Secrets, Sound
    <2>2. CASE Away(new)
      <3>1. wallet' = RemoveEntry(WriteEntry(wallet, new, EntryAt(wallet, l)), l) /\ pending' = TRUE
        BY <1>2, <1>6, <2>2 DEF Wrote, MoveEntry
      <3> QED BY <1>3, <1>4, <1>6, <2>1, <3>1, MoveCarries
    <2>3. CASE ~Away(new)
      <3>1. wallet' = RenameEntry(wallet, l, new) /\ pending' = TRUE /\ l.folder = new.folder
        BY <1>2, <1>6, <2>3 DEF Wrote
      <3> QED BY <1>3, <1>4, <1>6, <2>1, <3>1, RenameCarries
    <2> QED BY <2>2, <2>3
  <1>7. l = new => items' = items
    <2>1. l = new => Its(new) = items
      BY <1>4 DEF Labelled
    <2> QED BY <1>2, <2>1
  <1>9. Relabel(p, new, items')
    BY <1>2 DEF Relabel
  <1>10. \/ attrs' = Moved(attrs, l, new)
         \/ attrs' = Without(attrs, {l}) /\ l # new /\ unlocked /\ Told(Its(new), l) # {}
    BY <1>2
  <1>11. WriteJson(fails) \/ UNCHANGED json
    BY <1>2
  <1>12. /\ Estrange(~unlocked /\ l # new)
         /\ ~unlocked \/ l = new => UNCHANGED <<wallet, pending>>
    BY <1>2
  <1> QED BY <1>1, <1>3, <1>5, <1>6, <1>7, <1>9, <1>10, <1>11, <1>12

LEMMA SetLabelInvariant ==
  ASSUME Invariant, NEW p \in DOMAIN items, NEW f \in Folder, NEW n \in Name, SetLabel(p, f, n)
  PROVE  Invariant'
  <1> USE DEF Invariant
  <1> DEFINE l == items[p]
  <1>1. UNCHANGED <<unlocked, kwl, paths, value, kept, misread>>
    BY SetLabelCases
  <1>2. PICK new \in Location, fails \in {0, 1} :
          /\ WriteJson(fails) \/ UNCHANGED json
          /\ mishaps' \in 0 .. MaxMishaps
          /\ unlocked => new \notin DOMAIN wallet.at
          /\ Estrange(~unlocked /\ l # new)
          /\ ~unlocked \/ l = new => UNCHANGED <<wallet, pending>>
          /\ unlocked /\ l # new => Carried(wallet, wallet', l, new) /\ pending' = TRUE
          /\ l = new => items' = items
          /\ l # new => Relabel(p, new, items')
          /\ \/ attrs' = Moved(attrs, l, new)
             \/ /\ attrs' = Without(attrs, {l}) /\ l # new /\ unlocked
                /\ Told(Labelled(p, new), l) # {}
    BY SetLabelCases
  <1>3. l \in Location /\ l \in Locations(items) /\ DOMAIN items \subseteq Nat
    BY DEF Tables, ItemsOK, Locations
  <1>4. ASSUME l # new
        PROVE  /\ DOMAIN items' \subseteq DOMAIN items /\ items' \in [DOMAIN items' -> Location]
               /\ (Locations(items) \ {l}) \cup {new} \subseteq Locations(items')
               /\ Alone => /\ Told(Labelled(p, new), l) = {} /\ DOMAIN items' = DOMAIN items /\ items'[p] = new
                           /\ \A q \in DOMAIN items : q # p => items'[q] = items[q]
    <2>1. Relabel(p, new, items') /\ new # items[p] /\ ItemsOK
      BY <1>2, <1>4 DEF Tables
    <2> HIDE DEF Invariant
    <2> QED BY <2>1, Relabelled
  <1>5. /\ AttrsOK(attrs')
        /\ attrs' = Moved(attrs, l, new) /\ l \in DOMAIN attrs =>
             DOMAIN attrs' = (DOMAIN attrs \ {l}) \cup {new}
    <2>1. AttrsOK(attrs) /\ l \in Location
      BY <1>3 DEF Tables
    <2> HIDE DEF l, Invariant
    <2>2. CASE attrs' = Moved(attrs, l, new)
      BY <2>1, <2>2, MovedAttrs
    <2>3. CASE attrs' = Without(attrs, {l})
      <3>1. AttrsOK(attrs') /\ DOMAIN attrs' = DOMAIN attrs \ {l}
        BY <2>1, <2>3, WithoutAttrs
      <3>2. attrs' = Moved(attrs, l, new) /\ l \in DOMAIN attrs =>
             DOMAIN attrs' = (DOMAIN attrs \ {l}) \cup {new}
        BY <2>1, MovedAttrs
      <3> QED BY <3>1, <3>2
    <2> QED BY <1>2, <2>2, <2>3
  <1>6. Tables'
    <2>1. AttrsOK(json')
      BY <1>2, <1>5, JsonType DEF Tables
    <2>2. ItemsOK'
      BY <1>1, <1>2, <1>4 DEF Tables, ItemsOK
    <2> QED BY <1>5, <2>1, <2>2 DEF Tables
  <1>7. CASE ~unlocked \/ l = new
    <2>1. Secrets' /\ (Known(wallet) => Known(wallet')) /\ (Known(kwl) => Known(kwl'))
      BY <1>1, <1>2, <1>7, SameSecrets
    <2>2. Flags'
      BY <1>1, <1>2, <1>7 DEF Flags, Estrange
    <2>3. Reached'
      BY <1>1, <1>2, <1>7 DEF Reached
    <2>4. Joined'
      <3> SUFFICES ASSUME ~estranged' PROVE Joined'
        BY DEF Joined
      <3>1. l = new /\ ~estranged
        BY <1>2, <1>7 DEF Estrange
      <3>2. attrs' = Moved(attrs, l, new) /\ items' = items /\ wallet' = wallet
        BY <1>2, <3>1
      <3>3. DOMAIN attrs = Locations(items) /\ Alone
        BY <3>1 DEF Joined
      <3>4. DOMAIN attrs' = DOMAIN attrs /\ Alone'
        BY <1>3, <1>5, <3>1, <3>2, <3>3 DEF Alone
      <3> QED BY <1>1, <2>1, <3>1, <3>2, <3>3, <3>4 DEF Joined
    <2> QED BY <1>6, <2>1, <2>2, <2>3, <2>4
  <1>8. CASE unlocked /\ l # new
    <2>1. Carried(wallet, wallet', l, new) /\ pending' = TRUE
      BY <1>2, <1>8
    <2>2. Secrets' /\ (Known(wallet) /\ l \in DOMAIN wallet.at => Known(wallet'))
      BY <1>1, <1>8, <2>1, CarrySecrets
    <2>3. Flags'
      BY <1>1, <1>2, <1>8, <2>1 DEF Flags, Estrange
    <2>4. /\ DOMAIN wallet'.at \ {new} = DOMAIN wallet.at \ {l} /\ new \notin DOMAIN wallet.at
          /\ l \in DOMAIN wallet.at => new \in DOMAIN wallet'.at
      BY <2>1 DEF Carried, HasEntry
    <2>5. Reached'
      BY <1>1, <1>4, <1>8, <2>4 DEF Reached
    <2>6. Joined'
      <3> SUFFICES ASSUME ~estranged' PROVE
              /\ misread' = {} /\ Known(wallet)' /\ Known(kwl)'
              /\ DOMAIN attrs' = Locations(items') /\ Alone'
              /\ Locations(items') = DOMAIN wallet'.at
        BY <1>1, <1>8 DEF Joined
      <3>1. ~estranged
        BY <1>2 DEF Estrange
      <3>2. /\ Alone /\ Locations(items) = DOMAIN wallet.at /\ DOMAIN attrs = Locations(items)
            /\ misread = {} /\ Known(wallet) /\ Known(kwl)
        BY <1>8, <3>1 DEF Joined
      <3>3. /\ Told(Labelled(p, new), l) = {} /\ DOMAIN items' = DOMAIN items /\ items'[p] = new
            /\ \A q \in DOMAIN items : q # p => items'[q] = items[q]
        BY <1>4, <1>8, <3>2
      <3>4. \A q \in DOMAIN items : q # p => items[q] # l /\ items[q] # new
        BY <2>4, <3>2 DEF Alone, Locations
      <3>5. Alone'
        BY <3>2, <3>3, <3>4 DEF Alone
      <3>6. Locations(items') = (Locations(items) \ {l}) \cup {new}
        BY <3>3, <3>4 DEF Locations
      <3>7. attrs' = Moved(attrs, l, new)
        BY <1>2, <3>3
      <3>8. l \in DOMAIN wallet.at /\ DOMAIN attrs' = (DOMAIN attrs \ {l}) \cup {new}
        BY <1>3, <1>5, <3>2, <3>7
      <3>9. DOMAIN wallet'.at = (DOMAIN wallet.at \ {l}) \cup {new}
        BY <2>4, <3>8
      <3> QED BY <1>1, <2>2, <3>2, <3>5, <3>6, <3>8, <3>9 DEF Known
    <2> QED BY <1>6, <2>2, <2>3, <2>5, <2>6
  <1> QED BY <1>7, <1>8

LEMMA SyncInvariant ==
  ASSUME Invariant, TimedOutSync
  PROVE  Invariant'
  <1> USE DEF Invariant
  <1>1. /\ pending /\ pending' = FALSE
        /\ UNCHANGED <<unlocked, wallet, items, paths, attrs, json, value, kept,
                       misread, estranged>>
        /\ kwl' = wallet \/ kwl' = kwl
        /\ Mishaps(0) \/ Mishaps(1)
    BY DEF TimedOutSync
  <1>2. unlocked
    BY <1>1 DEF Flags
  <1>3. Flags'
    <2>1. mishaps' \in 0 .. MaxMishaps
      BY <1>1, MishapsType
    <2> QED BY <1>1, <2>1 DEF Flags
  <1>4. Secrets'
    BY <1>1, <1>2 DEF Secrets, Current, Below
  <1>5. Tables' /\ Reached' /\ (Alone' <=> Alone)
    BY <1>1 DEF Tables, ItemsOK, Reached, Alone
  <1>6. Joined'
    <2>1. Known(wallet) /\ Known(kwl) => Known(kwl')
      BY <1>1
    <2> QED BY <1>1, <1>2, <1>5, <2>1 DEF Joined
  <1> QED BY <1>3, <1>4, <1>5, <1>6

LEMMA LockInvariant ==
  ASSUME Invariant, Lock
  PROVE  Invariant'
  <1> USE DEF Invariant
  <1>1. /\ unlocked /\ unlocked' = FALSE /\ wallet' = Nothing /\ pending' = FALSE
        /\ UNCHANGED <<items, paths, attrs, json, value, misread>>
    BY DEF Lock
  <1>2. \/ kwl' = wallet /\ Mishaps(0) /\ UNCHANGED <<kept, estranged>>
        \/ /\ UNCHANGED kwl /\ Mishaps(1)
           /\ kept' = Values(kwl) /\ Estrange(~(DOMAIN attrs \subseteq DOMAIN kwl.at))
    BY DEF Lock
  <1>3. Tables' /\ Reached' /\ (Alone' <=> Alone)
    BY <1>1 DEF Tables, ItemsOK, Reached, Alone
  <1>4. Flags'
    <2>1. mishaps' \in 0 .. MaxMishaps
      BY <1>2, MishapsType
    <2>2. estranged' \in BOOLEAN
      BY <1>2 DEF Flags, Estrange
    <2> QED BY <1>1, <2>1, <2>2 DEF Flags
  <1>5. Current' = kwl'
    BY <1>1 DEF Current
  <1>6. Current = wallet
    BY <1>1 DEF Current
  <1>7. Sound(wallet') /\ Below(wallet', value') /\ Known(wallet')
    BY <1>1, NothingSound DEF Below, Known
  <1>8. CASE kwl' = wallet /\ UNCHANGED <<kept, estranged>>
    <2>1. Secrets'
      BY <1>1, <1>5, <1>6, <1>7, <1>8 DEF Secrets, Below
    <2>2. Joined'
      BY <1>1, <1>3, <1>7, <1>8 DEF Joined
    <2> QED BY <1>3, <1>4, <2>1, <2>2
  <1>9. CASE /\ UNCHANGED kwl
             /\ kept' = Values(kwl) /\ Estrange(~(DOMAIN attrs \subseteq DOMAIN kwl.at))
    <2>1. Values(kwl) \subseteq 1 .. value
      BY ValuesBelow DEF Secrets, Flags
    <2>2. Secrets'
      BY <1>1, <1>5, <1>7, <1>9, <2>1 DEF Secrets, Below
    <2>3. ~estranged' => ~estranged /\ DOMAIN attrs \subseteq DOMAIN kwl.at
      BY <1>9 DEF Estrange
    <2>4. Joined'
      BY <1>1, <1>3, <1>7, <1>9, <2>3 DEF Joined
    <2> QED BY <1>3, <1>4, <2>2, <2>4
  <1> QED BY <1>2, <1>8, <1>9

\* Each entry that has no item gets one, after the paths that were given out before.
LEMMA UnlockItems ==
  ASSUME Invariant, Unlock, NEW new, new = Discovered(ReadBack(kwl))
  PROVE  /\ new \subseteq Location /\ IsFiniteSet(new)
         /\ ItemsOK' /\ AttrsOK(attrs') /\ DOMAIN attrs' = DOMAIN attrs \cup new
         /\ Locations(items') = Locations(items) \cup new
         /\ Alone => Alone'
  <1> USE DEF Invariant
  <1> DEFINE c == ReadBack(kwl)
             made == {paths + Rank(l, new) : l \in new}
  <1>1. /\ items' = [p \in DOMAIN items \cup made |->
                       IF p \in DOMAIN items THEN items[p]
                       ELSE CHOOSE l \in new : p = paths + Rank(l, new)]
        /\ paths' = paths + Cardinality(new)
        /\ attrs' = [l \in DOMAIN attrs \cup new |-> IF l \in new THEN {Imported} ELSE attrs[l]]
    BY DEF Unlock
  <1>2. new \subseteq DOMAIN c.at /\ \A l \in new : ItemsAt(items, l) = {}
    BY DEF Discovered
  <1>3. new \subseteq Location /\ IsFiniteSet(new)
    <2>1. Sound(c)
      BY ReadBackSound DEF Secrets
    <2>2. IsFiniteSet(new)
      BY <1>2, <2>1, FS_Subset DEF Sound
    <2> QED BY <1>2, <2>1, <2>2 DEF Sound, IsContents
  <1>4. paths \in Nat /\ \A p \in DOMAIN items : p \in Nat /\ p < paths /\ items[p] \in Location
    BY DEF Tables, ItemsOK
  <1>5. \A l \in new : /\ paths + Rank(l, new) \in Nat /\ paths <= paths + Rank(l, new)
                       /\ paths + Rank(l, new) < paths + Cardinality(new)
                       /\ (CHOOSE m \in new : paths + Rank(l, new) = paths + Rank(m, new)) = l
    BY <1>3, <1>4, MadeItems
  <1>6. ASSUME NEW l \in new
        PROVE  /\ paths + Rank(l, new) \in DOMAIN items' \ DOMAIN items
               /\ items'[paths + Rank(l, new)] = l
               /\ paths + Rank(l, new) \in Nat /\ paths + Rank(l, new) < paths'
    <2>1. paths + Rank(l, new) \in made
      OBVIOUS
    <2>2. paths + Rank(l, new) \notin DOMAIN items
      BY <1>4, <1>5
    <2> HIDE DEF made
    <2> QED BY <1>1, <1>5, <2>1, <2>2
  <1>7. \A p \in DOMAIN items : p \in DOMAIN items' /\ items'[p] = items[p]
    <2> HIDE DEF made
    <2> QED BY <1>1
  <1>8. ASSUME NEW p \in DOMAIN items'
        PROVE  \/ p \in DOMAIN items /\ items'[p] = items[p]
               \/ \E l \in new : p = paths + Rank(l, new) /\ items'[p] = l
    <2>1. p \in DOMAIN items \/ p \in made
      BY <1>1
    <2>2. CASE p \in made
      <3>1. PICK l \in new : p = paths + Rank(l, new)
        BY <2>2
      <3> QED BY <1>6, <3>1
    <2> QED BY <1>7, <2>1, <2>2
  <1>9. paths' \in Nat /\ paths <= paths'
    <2>1. Cardinality(new) \in Nat
      BY <1>3, FS_CardinalityType
    <2> QED BY <1>1, <1>4, <2>1
  <1>10. ItemsOK'
    <2>1. \A p \in DOMAIN items' : p \in Nat /\ p < paths' /\ items'[p] \in Location
      <3>1. \A p \in DOMAIN items : p \in Nat /\ p < paths' /\ items'[p] \in Location
        BY <1>4, <1>7, <1>9
      <3> QED BY <1>3, <1>6, <1>8, <3>1
    <2>2. items' = [p \in DOMAIN items' |-> items'[p]]
      <3> HIDE DEF made
      <3> QED BY <1>1
    <2> QED BY <1>9, <2>1, <2>2 DEF ItemsOK
  <1>11. Locations(items') = Locations(items) \cup new
    <2>1. \A l \in new : l \in Locations(items')
      BY <1>6 DEF Locations
    <2>2. \A l \in Locations(items) : l \in Locations(items')
      BY <1>7 DEF Locations
    <2>3. \A l \in Locations(items') : l \in Locations(items) \cup new
      BY <1>8 DEF Locations
    <2> QED BY <2>1, <2>2, <2>3
  <1>12. ASSUME Alone PROVE Alone'
    <2>1. ASSUME NEW p \in DOMAIN items', NEW q \in DOMAIN items', items'[p] = items'[q]
          PROVE  p = q
      <3>1. \A k \in DOMAIN items : items[k] \notin new
        BY <1>2 DEF ItemsAt
      <3>2. CASE items'[p] \in new
        BY <1>8, <2>1, <3>1, <3>2
      <3>3. CASE items'[p] \notin new
        BY <1>8, <1>12, <2>1, <3>3 DEF Alone
      <3> QED BY <3>2, <3>3
    <2> QED BY <2>1 DEF Alone
  <1>13. AttrsOK(attrs') /\ DOMAIN attrs' = DOMAIN attrs \cup new
    <2>1. DOMAIN attrs' = DOMAIN attrs \cup new
      BY <1>1
    <2>2. IsFiniteSet(DOMAIN attrs')
      <3> HIDE DEF made
      <3>1. IsFiniteSet(DOMAIN attrs) /\ IsFiniteSet(new)
        BY <1>3 DEF Tables, AttrsOK
      <3>2. IsFiniteSet(DOMAIN attrs \cup new)
        BY <3>1, FS_Union
      <3> QED BY <2>1, <3>2
    <2>3. {Imported} \in Description
      BY DEF Description
    <2>4. attrs' \in [DOMAIN attrs' -> Description]
      BY <1>1, <2>3 DEF Tables, AttrsOK
    <2> QED BY <1>3, <2>1, <2>2, <2>4 DEF Tables, AttrsOK
  <1> QED BY <1>3, <1>10, <1>11, <1>12, <1>13

LEMMA UnlockInvariant ==
  ASSUME Invariant, Unlock
  PROVE  Invariant'
  <1> USE DEF Invariant
  <1> DEFINE c == ReadBack(kwl)
             new == Discovered(c)
  <1>1. /\ ~unlocked /\ unlocked' = TRUE /\ wallet' = c
        /\ UNCHANGED <<kwl, pending, value, kept, estranged>>
        /\ misread' = misread \cup (Values(kwl) \ Values(c))
        /\ \E fails \in {0, 1} : Mishaps(fails) /\ (WriteJson(fails) \/ UNCHANGED json)
    BY DEF Unlock
  <1>2. PICK fails \in {0, 1} : Mishaps(fails) /\ (WriteJson(fails) \/ UNCHANGED json)
    BY <1>1
  <1>3. /\ ItemsOK' /\ AttrsOK(attrs') /\ DOMAIN attrs' = DOMAIN attrs \cup new
        /\ Locations(items') = Locations(items) \cup new
        /\ Alone => Alone'
    BY UnlockItems
  <1>4. /\ Sound(c) /\ DOMAIN c.at \subseteq DOMAIN kwl.at
        /\ \A l \in DOMAIN c.at : c.at[l] = kwl.at[l]
        /\ Known(kwl) => DOMAIN c.at = DOMAIN kwl.at
    BY ReadBackSound DEF Secrets
  <1>5. new \subseteq DOMAIN c.at /\ DOMAIN c.at \ new \subseteq Locations(items)
    BY DEF Discovered, ItemsAt, Locations
  <1> HIDE DEF c, new
  <1>6. Tables'
    <2>1. AttrsOK(json')
      BY <1>2, <1>3, JsonType DEF Tables
    <2> QED BY <1>3, <2>1 DEF Tables
  <1>7. Current = kwl /\ Current' = c
    BY <1>1 DEF Current
  <1>8. Values(c) \subseteq Values(kwl) /\ (Known(kwl) => Values(c) = Values(kwl))
    BY <1>4 DEF Values
  <1>9. Secrets'
    <2>1. Below(wallet', value')
      BY <1>1, <1>4 DEF Secrets, Below
    <2>2. Sound(kwl') /\ Below(kwl', value') /\ kept' \subseteq 1 .. value'
      BY <1>1 DEF Secrets, Below
    <2>3. kept' \ misread' \subseteq Values(c) /\ Values(c) \subseteq kept'
      BY <1>1, <1>7, <1>8 DEF Secrets
    <2> QED BY <1>1, <1>4, <1>7, <2>1, <2>2, <2>3 DEF Secrets
  <1>10. Flags'
    <2>1. mishaps' \in 0 .. MaxMishaps
      BY <1>2, MishapsType
    <2>2. misread' \subseteq 0 .. value
      <3>1. Values(kwl) \subseteq 1 .. value
        BY ValuesBelow DEF Secrets, Flags
      <3>2. misread \subseteq 0 .. value
        BY DEF Flags
      <3>3. 1 .. value \subseteq 0 .. value
        BY DEF Flags
      <3> QED BY <1>1, <3>1, <3>2, <3>3
    <2> QED BY <1>1, <2>1, <2>2 DEF Flags
  <1>11. Reached'
    BY <1>1, <1>3, <1>5 DEF Reached
  <1>12. Joined'
    <2> SUFFICES ASSUME ~estranged' PROVE
            /\ misread' = {} /\ Known(wallet)' /\ Known(kwl)'
            /\ DOMAIN attrs' = Locations(items') /\ Alone'
            /\ Locations(items') = DOMAIN wallet'.at
      BY <1>1 DEF Joined
    <2>1. /\ misread = {} /\ Known(kwl)
          /\ DOMAIN attrs = Locations(items) /\ Alone
          /\ Locations(items) \subseteq DOMAIN kwl.at
      BY <1>1 DEF Joined
    <2>2. misread' = {}
      BY <1>1, <1>8, <2>1
    <2>3. Known(wallet') /\ Known(kwl')
      BY <1>1, <1>4, <2>1 DEF Known
    <2>4. Locations(items') = DOMAIN c.at
      BY <1>3, <1>4, <1>5, <2>1
    <2> QED BY <1>1, <1>3, <2>1, <2>2, <2>3, <2>4
  <1> QED BY <1>6, <1>9, <1>10, <1>11, <1>12

\* One item for each description in the file.
LEMMA RestartItems ==
  ASSUME Invariant, Restart
  PROVE  ItemsOK' /\ Locations(items') = DOMAIN json /\ Alone'
  <1> DEFINE L == DOMAIN json
  <1>1. /\ items' = [p \in {Rank(l, L) : l \in L} |-> CHOOSE l \in L : p = Rank(l, L)]
        /\ paths' = Cardinality(L)
    BY DEF Restart
  <1>2. L \subseteq Location /\ IsFiniteSet(L)
    BY DEF Invariant, Tables, AttrsOK
  <1> HIDE DEF L
  <1>3. \A l \in L : Rank(l, L) \in Nat /\ Rank(l, L) < Cardinality(L)
    BY <1>2, RankType
  <1>4. ASSUME NEW l \in L
        PROVE  Rank(l, L) \in DOMAIN items' /\ items'[Rank(l, L)] = l
    <2>1. \A m \in L : Rank(l, L) = Rank(m, L) => m = l
      BY <1>2, RankIsInjective
    <2>2. (CHOOSE m \in L : Rank(l, L) = Rank(m, L)) = l
      BY <2>1
    <2> QED BY <1>1, <2>2
  <1>5. \A p \in DOMAIN items' : \E l \in L : p = Rank(l, L) /\ items'[p] = l
    <2>1. \A p \in DOMAIN items' : \E l \in L : p = Rank(l, L)
      BY <1>1
    <2> QED BY <1>4, <2>1
  <1>6. ItemsOK'
    <2>1. paths' \in Nat
      BY <1>1, <1>2, FS_CardinalityType
    <2>2. \A p \in DOMAIN items' : p \in Nat /\ p < paths' /\ items'[p] \in Location
      BY <1>1, <1>2, <1>3, <1>5
    <2>3. items' = [p \in DOMAIN items' |-> items'[p]]
      BY <1>1
    <2> QED BY <2>1, <2>2, <2>3 DEF ItemsOK
  <1>7. Locations(items') = L
    BY <1>4, <1>5 DEF Locations
  <1>8. Alone'
    BY <1>5 DEF Alone
  <1> QED BY <1>6, <1>7, <1>8 DEF L

LEMMA RestartInvariant ==
  ASSUME Invariant, Restart
  PROVE  Invariant'
  <1> USE DEF Invariant
  <1>1. /\ unlocked' = FALSE /\ wallet' = Nothing /\ pending' = FALSE
        /\ attrs' = json /\ UNCHANGED <<kwl, json, value, misread>> /\ Mishaps(1)
        /\ kept' = Values(kwl)
        /\ estranged' = (estranged \/ ~(DOMAIN json \subseteq DOMAIN kwl.at))
    BY DEF Restart, Estrange
  <1>2. ItemsOK' /\ Locations(items') = DOMAIN json /\ Alone'
    BY RestartItems
  <1>3. Tables'
    BY <1>1, <1>2 DEF Tables
  <1>4. Flags'
    <2>1. mishaps' \in 0 .. MaxMishaps
      BY <1>1, MishapsType
    <2> QED BY <1>1, <2>1 DEF Flags
  <1>5. Sound(wallet') /\ Below(wallet', value') /\ Known(wallet')
    BY <1>1, NothingSound DEF Below, Known
  <1>6. Secrets'
    <2>1. Current' = kwl
      BY <1>1 DEF Current
    <2>2. Values(kwl) \subseteq 1 .. value
      BY ValuesBelow DEF Secrets, Flags
    <2> QED BY <1>1, <1>5, <2>1, <2>2 DEF Secrets, Below
  <1>7. Reached'
    BY <1>1 DEF Reached
  <1>8. Joined'
    BY <1>1, <1>2, <1>5 DEF Joined
  <1> QED BY <1>3, <1>4, <1>6, <1>7, <1>8

LEMMA NextInvariant == Invariant /\ [Next]_vars => Invariant'
  <1> SUFFICES ASSUME Invariant, [Next]_vars PROVE Invariant'
    OBVIOUS
  <1>1. CASE \E f \in Folder, n \in Name, query \in SUBSET Attribute, t \in KnownType,
                replace \in BOOLEAN : CreateItem(f, n, query, t, replace)
    BY <1>1, CreateItemInvariant
  <1>2. CASE \E p \in DOMAIN items, t \in KnownType : SetSecret(p, t)
    BY <1>2, SetSecretInvariant
  <1>3. CASE \E p \in DOMAIN items, query \in SUBSET Attribute : SetAttributes(p, query)
    BY <1>3, SetAttributesInvariant
  <1>4. CASE \E p \in DOMAIN items : Delete(p)
    BY <1>4, DeleteInvariant
  <1>5. CASE \E p \in DOMAIN items, f \in Folder, n \in Name : SetLabel(p, f, n)
    BY <1>5, SetLabelInvariant
  <1>6. CASE TimedOutSync
    BY <1>6, SyncInvariant
  <1>7. CASE Unlock
    BY <1>7, UnlockInvariant
  <1>8. CASE Lock
    BY <1>8, LockInvariant
  <1>9. CASE Restart
    BY <1>9, RestartInvariant
  <1>10. CASE UNCHANGED vars
    <2>1. UNCHANGED <<unlocked, wallet, kwl, pending, items, paths, attrs, json,
                      value, kept, misread, estranged, mishaps>>
      BY <1>10 DEF vars
    <2>2. Flags' /\ Tables' /\ Reached'
      BY <2>1 DEF Invariant, Flags, Tables, ItemsOK, Reached
    <2>3. Secrets' /\ (Known(wallet) => Known(wallet')) /\ (Known(kwl) => Known(kwl'))
      BY <2>1, SameSecrets DEF Invariant
    <2>4. Joined'
      <3>1. Alone' <=> Alone
        BY <2>1 DEF Alone
      <3> QED BY <2>1, <2>3, <3>1 DEF Invariant, Joined
    <2> QED BY <2>2, <2>3, <2>4 DEF Invariant
  <1> QED
    BY <1>1, <1>2, <1>3, <1>4, <1>5, <1>6, <1>7, <1>8, <1>9, <1>10 DEF Next, Read

\* The flags, the tables, the secrets and what joins them, in every reachable state.
THEOREM InvariantHolds == Spec => []Invariant
  <1> QED BY InitInvariant, NextInvariant, PTL DEF Spec

-----------------------------------------------------------------------------
(* Theorems *)

\* The records stay within their types, no item has a path that is still to be given
\* out, and a locked collection has neither contents nor a timer.
THEOREM StructureHolds == Spec => []Structure
  <1> QED BY InvariantHolds, InvariantImpliesStructure, PTL

\* Each entry of an unlocked wallet has an item on the bus, whatever was renamed,
\* deleted or described while the collection was locked.
THEOREM EntriesAreReached == Spec => []EveryEntryHasItem
  <1>1. Invariant => EveryEntryHasItem
    BY DEF Invariant, Reached, EveryEntryHasItem, Locations, ItemsAt
  <1> QED BY <1>1, InvariantHolds, PTL

\* As long as nothing has come between them, items, descriptions and entries name the
\* same locations, and no two items share one.
THEOREM ItemsMatch == Spec => []ItemsMatchEntries
  <1>1. Invariant => ItemsMatchEntries
    BY DEF Invariant, Joined, Alone, ItemsMatchEntries
  <1> QED BY <1>1, InvariantHolds, PTL

\* The wallet holds the secrets that were stored and not deleted or replaced since,
\* each in one place, through every label, lock, crash and failed save.
THEOREM SecretsKept == Spec => []SecretsAreKept
  <1>1. Invariant => SecretsAreKept
    <2>1. ASSUME Invariant PROVE Sound(Current)
      BY <2>1 DEF Invariant, Secrets, Current
    <2> QED BY <2>1 DEF Invariant, Secrets, Sound, SecretsAreKept
  <1> QED BY <1>1, InvariantHolds, PTL

\* Reading a file back leaves a secret out only after an item had lost its entry.
THEOREM MisreadEstranged == Spec => []MisreadOnlyEstranged
  <1>1. Invariant => MisreadOnlyEstranged
    BY DEF Invariant, Joined, MisreadOnlyEstranged
  <1> QED BY <1>1, InvariantHolds, PTL

\* A new item: the fields of its step that the entries and the items depend on.
LEMMA CreateItemFacts ==
  ASSUME Invariant, NEW f \in Folder, NEW n \in Name, NEW query \in SUBSET Attribute,
         NEW t \in KnownType, NEW replace \in BOOLEAN, CreateItem(f, n, query, t, replace)
  PROVE  /\ \A q \in DOMAIN items : q \in DOMAIN items' /\ items'[q] = items[q]
         /\ paths' # paths =>
              \A m \in DOMAIN wallet.at : HasEntry(wallet', m) /\ wallet'.at[m] = wallet.at[m]
  <1> USE DEF Invariant
  <1> DEFINE R == Replaced(query, replace)
  <1>1. PICK l \in IF R # {} THEN R ELSE UniqueLocation(f, n) :
          LET p == IF R # {} THEN FindItem(items, l) ELSE paths IN
          /\ Register(l, p, query)
          /\ \/ Wrote(WriteEntry(wallet, l, [type |-> t, value |-> value + 1]))
             \/ UNCHANGED wallet
    BY DEF CreateItem
  <1>2. unlocked
    BY DEF CreateItem
  <1> DEFINE p == IF R # {} THEN FindItem(items, l) ELSE paths
  <1>3. Register(l, p, query)
    BY <1>1
  <1>4. CASE R # {}
    <2>1. p \in DOMAIN items /\ items[p] = l
      BY <1>4, ReplacedIs DEF Tables
    <2>2. paths' = paths /\ items' = With(items, p, l)
      BY <1>3, <2>1 DEF Register, Tables, ItemsOK
    <2>3. \A q \in DOMAIN items : q \in DOMAIN items' /\ items'[q] = items[q]
      <3> HIDE DEF p
      <3> QED BY <2>1, <2>2 DEF With
    <2> QED BY <2>2, <2>3
  <1>5. CASE R = {}
    <2>1. l \notin DOMAIN wallet.at
      BY <1>2, <1>5, UniqueIs
    <2>2. \A q \in DOMAIN items : q \in DOMAIN items' /\ items'[q] = items[q]
      <3>1. items' = With(items, paths, l)
        BY <1>3, <1>5 DEF Register
      <3>2. paths \notin DOMAIN items
        BY DEF Tables, ItemsOK
      <3> QED BY <3>1, <3>2 DEF With
    <2>3. ASSUME NEW m \in DOMAIN wallet.at
          PROVE  HasEntry(wallet', m) /\ wallet'.at[m] = wallet.at[m]
      <3>1. CASE UNCHANGED wallet
        BY <3>1 DEF HasEntry
      <3>2. CASE Wrote(WriteEntry(wallet, l, [type |-> t, value |-> value + 1]))
        <4> DEFINE e == [type |-> t, value |-> value + 1]
        <4>1. wallet' = WriteEntry(wallet, l, e) /\ m # l
          BY <2>1, <3>2 DEF Wrote
        <4> HIDE DEF e
        <4> QED BY <4>1, WriteEntryFacts DEF HasEntry
      <3> QED BY <1>1, <3>1, <3>2
    <2> QED BY <2>2, <2>3
  <1> QED BY <1>4, <1>5

\* No other call gives out a path, and none but a new label moves an item.
LEMMA OtherSteps ==
  ASSUME Invariant, [Next]_vars, unlocked, unlocked',
         ~\E f \in Folder, n \in Name, query \in SUBSET Attribute, t \in KnownType,
             replace \in BOOLEAN : CreateItem(f, n, query, t, replace),
         ~\E p \in DOMAIN items, f \in Folder, n \in Name : SetLabel(p, f, n)
  PROVE  paths' = paths /\ \A q \in DOMAIN items \cap DOMAIN items' : items'[q] = items[q]
  <1>1. CASE \E p \in DOMAIN items, t \in KnownType : SetSecret(p, t)
    BY <1>1 DEF SetSecret
  <1>2. CASE \E p \in DOMAIN items, query \in SUBSET Attribute : SetAttributes(p, query)
    BY <1>2 DEF SetAttributes
  <1>3. CASE \E p \in DOMAIN items : Delete(p)
    <2>1. PICK p \in DOMAIN items : Delete(p)
      BY <1>3
    <2>2. paths' = paths /\ \E S : items' = Without(items, S)
      BY <2>1 DEF Delete
    <2> QED BY <2>2 DEF Without
  <1>4. CASE TimedOutSync
    BY <1>4 DEF TimedOutSync
  <1>5. ~Unlock /\ ~Lock /\ ~Restart
    BY DEF Unlock, Lock, Restart
  <1>6. CASE UNCHANGED vars
    BY <1>6 DEF vars
  <1> QED BY <1>1, <1>2, <1>3, <1>4, <1>5, <1>6 DEF Next, Read

\* A call that makes a new item leaves every entry of the wallet as it was.
THEOREM NewItemsKeepEntries == Spec => CreateKeepsEntries
  <1>1. ASSUME Invariant, [Next]_vars, unlocked, unlocked', paths' > paths
        PROVE  \A l \in DOMAIN wallet.at : HasEntry(wallet', l) /\ wallet'.at[l] = wallet.at[l]
    <2>1. paths' # paths
      BY <1>1 DEF Invariant, Tables, ItemsOK
    <2>2. CASE \E f \in Folder, n \in Name, query \in SUBSET Attribute, t \in KnownType,
                  replace \in BOOLEAN : CreateItem(f, n, query, t, replace)
      BY <1>1, <2>1, <2>2, CreateItemFacts
    <2>3. CASE \E p \in DOMAIN items, f \in Folder, n \in Name : SetLabel(p, f, n)
      BY <2>1, <2>3 DEF SetLabel
    <2> QED BY <1>1, <2>1, <2>2, <2>3, OtherSteps
  <1> QED BY <1>1, InvariantHolds, PTL DEF Spec, CreateKeepsEntries

\* An item that gets another label takes its secret and its attributes along, and so
\* does an item that shares its entry.
THEOREM LabelsTakeAll == Spec => LabelTakesAll
  <1>1. ASSUME Invariant, [Next]_vars, unlocked, unlocked',
               NEW q \in DOMAIN items \cap DOMAIN items', items'[q] # items[q]
        PROVE  /\ EntryAt(wallet', items'[q]) = EntryAt(wallet, items[q])
               /\ ~estranged => attrs'[items'[q]] = attrs[items[q]]
    <2>1. ~\E f \in Folder, n \in Name, query \in SUBSET Attribute, t \in KnownType,
              replace \in BOOLEAN : CreateItem(f, n, query, t, replace)
      BY <1>1, CreateItemFacts
    <2>2. \E p \in DOMAIN items, f \in Folder, n \in Name : SetLabel(p, f, n)
      BY <1>1, <2>1, OtherSteps
    <2>3. PICK p \in DOMAIN items, f \in Folder, n \in Name : SetLabel(p, f, n)
      BY <2>2
    <2> DEFINE l == items[p]
    <2>4. PICK new \in Location :
            /\ unlocked /\ l # new => Carried(wallet, wallet', l, new)
            /\ l = new => items' = items
            /\ l # new => Relabel(p, new, items')
            /\ \/ attrs' = Moved(attrs, l, new)
               \/ Told(Labelled(p, new), l) # {}
      BY <1>1, <2>3, SetLabelCases
    <2>5. l # new /\ Relabel(p, new, items') /\ ItemsOK
      BY <1>1, <2>4 DEF Invariant, Tables
    <2>6. /\ items[q] = l /\ items'[q] = new
          /\ Alone => Told(Labelled(p, new), l) = {}
      BY <1>1, <2>5, Relabelled
    <2>7. EntryAt(wallet', new) = EntryAt(wallet, l)
      BY <1>1, <2>4, <2>5 DEF Carried
    <2>8. ASSUME ~estranged PROVE attrs'[new] = attrs[l]
      <3>1. Alone /\ l \in DOMAIN attrs
        BY <1>1, <2>8 DEF Invariant, Joined, Locations
      <3>2. attrs' = Moved(attrs, l, new)
        BY <2>4, <2>6, <3>1
      <3> HIDE DEF l
      <3> QED BY <3>1, <3>2 DEF Moved, With
    <2> QED BY <2>6, <2>7, <2>8
  <1>2. Invariant /\ [Next]_vars =>
          [unlocked =>
             \A p \in DOMAIN items \cap DOMAIN items' :
               items'[p] # items[p] /\ unlocked' =>
                 /\ EntryAt(wallet', items'[p]) = EntryAt(wallet, items[p])
                 /\ ~estranged => attrs'[items'[p]] = attrs[items[p]]]_vars
    BY <1>1
  <1> QED BY <1>2, InvariantHolds, PTL DEF Spec, LabelTakesAll

\* A crash while nothing waits to be saved brings back the same items.
THEOREM QuietRestarts == Spec => QuietRestart
  <1>1. ASSUME Invariant, Restart, ~estranged, json = attrs, unlocked => kwl = wallet
        PROVE  Locations(items') = Locations(items) /\ attrs' = attrs /\ ~estranged'
    <2>1. Locations(items') = DOMAIN json /\ attrs' = attrs
      BY <1>1, RestartItems DEF Restart
    <2>2. DOMAIN json = Locations(items) /\ Locations(items) \subseteq DOMAIN kwl.at
      BY <1>1 DEF Invariant, Joined
    <2>3. ~estranged'
      BY <1>1, <2>2 DEF Restart, Estrange
    <2> QED BY <2>1, <2>2, <2>3
  <1> QED BY <1>1, InvariantHolds, PTL DEF Spec, QuietRestart
=============================================================================
