------------------------ MODULE SecretServiceProofs ------------------------
(* Theorems about SecretService, for any wallets, clients and prompts. *)
EXTENDS SecretService, FiniteSetTheorems, WellFoundedInduction, TLAPS

-----------------------------------------------------------------------------
(* The first collection of a wallet, and the first free path *)

LEMMA Least ==
  ASSUME NEW T, T \subseteq Nat, T # {}
  PROVE  \E x \in T : \A y \in T : x =< y
  <1>1. PICK x \in T : \A y \in T : ~(<<y, x>> \in OpToRel(<, Nat))
    BY NatLessThanWellFounded, WFMin
  <1>2. \A y \in T : ~(y < x)
    BY <1>1 DEF OpToRel
  <1> QED BY <1>2

LEMMA FirstIsOf ==
  ASSUME NEW C, DOMAIN C \subseteq Path, NEW n, Of(C, n) # {}
  PROVE  First(C, n) \in Of(C, n)
  <1> DEFINE ranks == {Rank[p[1]] : p \in Of(C, n)}
  <1>1. \A p \in Of(C, n) : p \in Name \X Nat /\ p[1] \in Name /\ p[2] \in Nat /\ p = <<p[1], p[2]>>
    BY DEF Of, Path
  <1>2. ranks \subseteq Nat /\ ranks # {}
    BY <1>1, ConstantsAssumption
  <1>3. PICK r \in ranks : \A x \in ranks : r =< x
    <2> HIDE DEF ranks
    <2> QED BY <1>2, Least
  <1> DEFINE numbers == {p[2] : p \in {q \in Of(C, n) : Rank[q[1]] = r}}
  <1>4. numbers \subseteq Nat /\ numbers # {}
    BY <1>1
  <1>5. PICK k \in numbers : \A x \in numbers : k =< x
    <2> HIDE DEF numbers
    <2> QED BY <1>4, Least
  <1>6. PICK p \in Of(C, n) : Rank[p[1]] = r /\ p[2] = k
    OBVIOUS
  <1>7. \A q \in Of(C, n) : Before(p, q)
    <2> SUFFICES ASSUME NEW q \in Of(C, n) PROVE Before(p, q)
      OBVIOUS
    <2>1. Rank[q[1]] \in Nat /\ Rank[p[1]] \in Nat /\ Rank[p[1]] =< Rank[q[1]]
      BY <1>1, <1>2, <1>3, <1>6
    <2>2. CASE Rank[q[1]] = r
      <3>1. p[2] =< q[2]
        BY <1>5, <1>6, <2>2
      <3>2. p[1] = q[1]
        BY <1>1, <1>6, <2>2, ConstantsAssumption
      <3> QED BY <3>1, <3>2 DEF Before
    <2>3. CASE Rank[q[1]] # r
      <3>1. Rank[p[1]] < Rank[q[1]]
        BY <1>6, <2>1, <2>3
      <3> QED BY <3>1 DEF Before
    <2> QED BY <2>2, <2>3
  <1> QED BY <1>7 DEF First

LEMMA FreePathIsFree ==
  ASSUME NEW C, DOMAIN C \subseteq Path, IsFiniteSet(DOMAIN C), NEW n \in Name
  PROVE  FreePath(C, n) \in Path \ DOMAIN C
  <1> DEFINE c == Cardinality(DOMAIN C)
             free == {k \in 0 .. c : <<n, k>> \notin DOMAIN C}
             Q(p) == p \notin DOMAIN C /\ \A k \in 0 .. p[2] : k < p[2] => <<n, k>> \in DOMAIN C
  <1>1. c \in Nat
    BY FS_CardinalityType
  <1>2. free # {}
    <2> SUFFICES ASSUME free = {} PROVE FALSE
      OBVIOUS
    <2> DEFINE f == [k \in 0 .. c |-> <<n, k>>]
    <2>1. f \in [0 .. c -> DOMAIN C]
      OBVIOUS
    <2>2. IsFiniteSet(0 .. c) /\ Cardinality(0 .. c) = c + 1
      BY <1>1, FS_Interval
    <2>3. Cardinality(DOMAIN C) < Cardinality(0 .. c)
      BY <1>1, <2>2
    <2> DEFINE S == 0 .. c
               T == DOMAIN C
    <2> HIDE DEF c, f, S, T
    <2>4. \E x, y \in 0 .. c : x # y /\ f[x] = f[y]
      <3>1. f \in [S -> T] /\ IsFiniteSet(S) /\ IsFiniteSet(T) /\ Cardinality(T) < Cardinality(S)
        BY <2>1, <2>2, <2>3 DEF S, T
      <3>2. \E x, y \in S : x # y /\ f[x] = f[y]
        BY <3>1, FS_PigeonHole
      <3> QED BY <3>2 DEF S
    <2> QED BY <2>4 DEF f
  <1>3. free \subseteq Nat
    BY <1>1
  <1>4. PICK k \in free : \A x \in free : k =< x
    <2> HIDE DEF free
    <2> QED BY <1>2, <1>3, Least
  <1>5. \A x \in 0 .. k : x < k => <<n, x>> \in DOMAIN C
    BY <1>1, <1>4
  <1>6. <<n, k>> \in {n} \X (0 .. c) /\ Q(<<n, k>>)
    BY <1>4, <1>5
  <1>7. FreePath(C, n) \in {n} \X (0 .. c) /\ Q(FreePath(C, n))
    <2> HIDE DEF Q
    <2>1. FreePath(C, n) = CHOOSE p \in {n} \X (0 .. c) : Q(p)
      BY DEF FreePath, Q
    <2> QED BY <1>6, <2>1
  <1> QED BY <1>1, <1>7 DEF Path

-----------------------------------------------------------------------------
(* Tables of collections *)

CollectionsType(C) ==
  /\ DOMAIN C \subseteq Path /\ C \in [DOMAIN C -> Collection]
  /\ IsFiniteSet(DOMAIN C)

LEMMA WithFacts ==
  ASSUME NEW f, NEW x, NEW y
  PROVE  /\ DOMAIN With(f, x, y) = DOMAIN f \cup {x}
         /\ With(f, x, y)[x] = y
         /\ \A z \in DOMAIN f \ {x} : With(f, x, y)[z] = f[z]
  BY DEF With

LEMMA WithoutFacts ==
  ASSUME NEW f, NEW S
  PROVE  /\ DOMAIN Without(f, S) = DOMAIN f \ S
         /\ \A z \in DOMAIN f \ S : Without(f, S)[z] = f[z]
  BY DEF Without

LEMMA EmptyFacts == DOMAIN Empty = {} /\ \A S : Empty \in [{} -> S]
  BY DEF Empty

\* A collection that is made is the only change, on a path of its own.
Added(C, D, n, h) ==
  /\ \E p \in Path \ DOMAIN C :
       /\ DOMAIN D = DOMAIN C \cup {p}
       /\ D[p].wallet = n /\ D[p].handle = h
       /\ Of(D, n) = Of(C, n) \cup {p}
  /\ \A p \in DOMAIN C : D[p] = C[p]
  /\ \A m \in Name \ {n} : Of(D, m) = Of(C, m)

LEMMA AddFacts ==
  ASSUME NEW C, CollectionsType(C), NEW n \in Name, NEW h \in Handle \cup {None},
         NEW D, D = Add(C, n, h)
  PROVE  CollectionsType(D) /\ Added(C, D, n, h)
  <1>0. PICK c : c = [wallet |-> n, handle |-> h]
    OBVIOUS
  <1>1. PICK p \in Path \ DOMAIN C : p = FreePath(C, n)
    BY FreePathIsFree DEF CollectionsType
  <1>3. /\ DOMAIN D = DOMAIN C \cup {p} /\ D[p] = c
        /\ \A z \in DOMAIN C : D[z] = C[z]
    <2>1. D = With(C, p, c)
      BY <1>0, <1>1 DEF Add
    <2> QED BY <1>1, <2>1 DEF With
  <1>4. c \in Collection /\ c.wallet = n /\ c.handle = h
    BY <1>0 DEF Collection
  <1>5. IsFiniteSet(DOMAIN D)
    BY <1>3, FS_AddElement DEF CollectionsType
  <1>6. D = With(C, p, c)
    BY <1>0, <1>1 DEF Add
  <1>7. D = [z \in DOMAIN D |-> D[z]]
    BY <1>6 DEF With
  <1>8. \A z \in DOMAIN D : D[z] \in Collection
    BY <1>3, <1>4 DEF CollectionsType
  <1>9. D \in [DOMAIN D -> Collection]
    BY <1>7, <1>8
  <1>10. CollectionsType(D)
    BY <1>3, <1>5, <1>9 DEF CollectionsType
  <1>11. Of(D, n) = Of(C, n) \cup {p} /\ \A m \in Name \ {n} : Of(D, m) = Of(C, m)
    BY <1>3, <1>4 DEF Of
  <1> QED BY <1>3, <1>4, <1>10, <1>11 DEF Added

\* lockCollection() touches handles only.
Locks(C, D, N) ==
  /\ DOMAIN D = DOMAIN C
  /\ \A p \in DOMAIN C :
       /\ D[p].wallet = C[p].wallet
       /\ D[p].handle \in {None, C[p].handle}
       /\ C[p].wallet \notin N => D[p] = C[p]
       /\ C[p].wallet \in N /\ p = First(C, C[p].wallet) => D[p].handle = None
  /\ \A m : Of(D, m) = Of(C, m)

LEMMA LockFacts ==
  ASSUME NEW C, CollectionsType(C), NEW N, NEW D, D = Lock(C, N)
  PROVE  CollectionsType(D) /\ Locks(C, D, N)
  <1>2. DOMAIN D = DOMAIN C /\ D = [p \in DOMAIN D |-> D[p]]
    BY DEF Lock
  <1>3. ASSUME NEW p \in DOMAIN C
        PROVE  /\ D[p] \in Collection /\ D[p].wallet = C[p].wallet
               /\ D[p].handle \in {None, C[p].handle}
               /\ C[p].wallet \notin N => D[p] = C[p]
               /\ C[p].wallet \in N /\ p = First(C, C[p].wallet) => D[p].handle = None
    <2>1. C[p] \in Collection
      BY DEF CollectionsType
    <2>2. [C[p] EXCEPT !.handle = None] \in Collection
          /\ [C[p] EXCEPT !.handle = None].wallet = C[p].wallet
          /\ [C[p] EXCEPT !.handle = None].handle = None
      BY <2>1 DEF Collection
    <2>3. D[p] = IF C[p].wallet \in N /\ p = First(C, C[p].wallet)
                 THEN [C[p] EXCEPT !.handle = None] ELSE C[p]
      BY DEF Lock
    <2> QED BY <2>1, <2>2, <2>3
  <1>4. CollectionsType(D)
    BY <1>2, <1>3 DEF CollectionsType
  <1>5. \A m : Of(D, m) = Of(C, m)
    BY <1>2, <1>3 DEF Of
  <1> QED BY <1>2, <1>3, <1>4, <1>5 DEF Locks

\* promptUnlockCollection() touches one handle, or makes one collection.
Unlocks(C, D, n, h) ==
  /\ DOMAIN C \subseteq DOMAIN D
  /\ D[First(D, n)].handle = h
  /\ \A p \in DOMAIN C :
       /\ D[p].wallet = C[p].wallet
       /\ C[p].wallet # n => D[p] = C[p]
       /\ D[p].handle \in {h, C[p].handle}
  /\ \A p \in DOMAIN D \ DOMAIN C : D[p].wallet = n /\ D[p].handle = h
  /\ Of(D, n) # {}
  /\ IF Of(C, n) = {} THEN \E p : Of(D, n) = {p} ELSE Of(D, n) = Of(C, n)
  /\ \A m \in Name \ {n} : Of(D, m) = Of(C, m)

LEMMA UnlockFacts ==
  ASSUME NEW C, CollectionsType(C), NEW n \in Name, NEW h \in Handle,
         NEW D, D = Unlock(C, n, h)
  PROVE  CollectionsType(D) /\ Unlocks(C, D, n, h)
  <1>2. CASE Of(C, n) = {}
    <2>1. D = Add(C, n, h)
      BY <1>2 DEF Unlock
    <2>2. CollectionsType(D) /\ Added(C, D, n, h)
      <3>1. h \in Handle \cup {None}
        OBVIOUS
      <3> QED BY <2>1, <3>1, AddFacts
    <2>3. PICK p \in Path \ DOMAIN C : /\ DOMAIN D = DOMAIN C \cup {p}
                                       /\ D[p].wallet = n /\ D[p].handle = h
                                       /\ Of(D, n) = Of(C, n) \cup {p}
      BY <2>2 DEF Added
    <2>6. /\ \A q \in DOMAIN C : D[q] = C[q]
          /\ \A m \in Name \ {n} : Of(D, m) = Of(C, m)
      BY <2>2 DEF Added
    <2>4. Of(D, n) = {p}
      BY <1>2, <2>3
    <2>5. First(D, n) = p
      BY <2>2, <2>4, FirstIsOf DEF CollectionsType
    <2> QED BY <1>2, <2>2, <2>3, <2>4, <2>5, <2>6 DEF Unlocks
  <1>3. CASE Of(C, n) # {}
    <2>1. PICK f : f = First(C, n)
      OBVIOUS
    <2>2. f \in DOMAIN C /\ C[f].wallet = n /\ C[f] \in Collection
      BY <1>3, <2>1, FirstIsOf DEF CollectionsType, Of
    <2>3. PICK c : c = [C[f] EXCEPT !.handle = h]
      OBVIOUS
    <2>4. c \in Collection /\ c.wallet = n /\ c.handle = h
      BY <2>2, <2>3 DEF Collection
    <2>5. D = [C EXCEPT ![f] = c]
      BY <1>3, <2>1, <2>3 DEF Unlock
    <2>6. DOMAIN D = DOMAIN C /\ D[f] = c /\ \A p \in DOMAIN C \ {f} : D[p] = C[p]
      BY <2>2, <2>5
    <2>7. CollectionsType(D)
      BY <2>2, <2>4, <2>5 DEF CollectionsType
    <2>8. \A p \in DOMAIN C : D[p].wallet = C[p].wallet
      BY <2>2, <2>4, <2>6
    <2>9. \A m : Of(D, m) = Of(C, m)
      BY <2>6, <2>8 DEF Of
    <2>10. First(D, n) = f
      <3>1. First(D, n) = First(C, n)
        BY <2>9 DEF First
      <3> QED BY <2>1, <3>1
    <2>11. \A p \in DOMAIN C : /\ C[p].wallet # n => D[p] = C[p]
                               /\ D[p].handle \in {h, C[p].handle}
      BY <2>2, <2>4, <2>6
    <2> QED BY <1>3, <2>4, <2>6, <2>7, <2>8, <2>9, <2>10, <2>11 DEF Unlocks
  <1> QED BY <1>2, <1>3

-----------------------------------------------------------------------------
(* The inductive invariant *)

\* TypeOK, but for the number of ids a prompt waits for: that it never is below
\* zero takes counting the transactions.
PromptRecord ==
  [type : {"Open", "Create"}, objects : Seq(Object), alias : Alias \cup {None},
   called : BOOLEAN, registered : BOOLEAN, dismissed : BOOLEAN,
   left : Int, result : Seq(Path), completed : Seq(BOOLEAN)]

Types ==
  /\ up \in BOOLEAN
  /\ files \subseteq Name /\ junk \subseteq Name \ files
  /\ Opened \subseteq Handle /\ wallets \in [Opened -> Name]
  /\ CollectionsType(collections)
  /\ aliases \in [Alias -> Name \cup {None}]
  /\ served \in [Alias -> Path \cup {None}]
  /\ doubtful \subseteq Name
  /\ firstUse \in BOOLEAN /\ overtaken \in Path \cup {None}
PromptTypes ==
  /\ DOMAIN prompts \subseteq Prompt /\ prompts \in [DOMAIN prompts -> PromptRecord]
  /\ \A q \in DOMAIN prompts : prompts[q].type = "Create" => Len(prompts[q].objects) = 1
QueueTypes ==
  /\ queue \in Seq(Transaction) /\ current \in Transaction \cup {None}
  /\ brandNew \in BOOLEAN /\ processing \in BOOLEAN

Down == ~up => Opened = {} /\ DOMAIN collections = {} /\ current = None

\* The one-to-one link of a name: its file, its collection, its open wallet and
\* the handle they share; while its first dialog is shown it is not open, and is
\* new exactly if it has no file yet.
Linked(n) ==
  /\ Of(collections, n) = {} <=> n \notin OnDisk
  /\ \A p, q \in Of(collections, n) : p = q
  /\ \A h, k \in FindWallet(n) : h = k
  /\ FindWallet(n) # {} => n \in files
  /\ \A p \in Of(collections, n) : collections[p].handle \in FindWallet(n) \cup {None}
  /\ current # None /\ current.wallet = n =>
       FindWallet(n) = {} /\ (brandNew <=> n \notin OnDisk)
Links == up => junk \subseteq doubtful /\ \A n \in Name \ doubtful : Linked(n)

\* A collection on the bus under an alias exists and is of the wallet the alias
\* names, or of a doubtful one, or was overtaken by an open on first use.
OnAlias ==
  \A a \in Alias : served[a] # None =>
    /\ served[a] \in DOMAIN collections
    /\ \/ collections[served[a]].wallet \in {aliases[a]} \cup doubtful
       \/ a = Default /\ served[a] = overtaken

IInv == Types /\ PromptTypes /\ QueueTypes /\ Down /\ Links /\ OnAlias

-----------------------------------------------------------------------------
(* What a step that spares a name, or all collections, leaves true *)

\* The step leaves the link of n alone, but for handles that collections drop.
Spares(n) ==
  /\ Of(collections', n) = Of(collections, n)
  /\ \A p \in Of(collections, n) : collections'[p].handle \in {None, collections[p].handle}
  /\ n \in OnDisk' <=> n \in OnDisk
  /\ n \in files => n \in files'
  /\ FindWallet(n)' = FindWallet(n)
  /\ current' # None /\ current'.wallet = n => current' = current /\ brandNew' = brandNew

LEMMA SparedStaysLinked ==
  ASSUME NEW n \in Name, Linked(n), Spares(n)
  PROVE  Linked(n)'
  <1>1. PICK C, D, F, f, g, o, p : /\ C = collections /\ D = collections'
                                   /\ F = FindWallet(n)
                                   /\ f = files /\ g = files'
                                   /\ o = OnDisk /\ p = OnDisk'
    OBVIOUS
  <1>2. FindWallet(n)' = F
    BY <1>1 DEF Spares
  <1>3. /\ (Of(D, n) = {} <=> n \notin p)
        /\ \A x, y \in Of(D, n) : x = y
        /\ \A h, k \in F : h = k
        /\ F # {} => n \in g
        /\ \A x \in Of(D, n) : D[x].handle \in F \cup {None}
    BY <1>1 DEF Spares, Linked
  <1>4. ASSUME current' # None, current'.wallet = n
        PROVE  F = {} /\ (brandNew' <=> n \notin p)
    BY <1>1, <1>4 DEF Spares, Linked
  <1> QED BY <1>1, <1>2, <1>3, <1>4 DEF Linked

\* Steps of prompts and of the queue that leave wallets and collections alone.
LEMMA LinksSpared ==
  ASSUME Links, UNCHANGED <<up, files, junk, wallets, collections, doubtful>>,
         current' # None => current' = current /\ brandNew' = brandNew
  PROVE  Links'
  <1> SUFFICES ASSUME up, NEW n \in Name \ doubtful PROVE Linked(n)'
    BY DEF Links
  <1>1. Linked(n)
    BY DEF Links
  <1>2. OnDisk' = OnDisk /\ FindWallet(n)' = FindWallet(n) /\ Of(collections', n) = Of(collections, n)
    BY DEF OnDisk, FindWallet, Opened, Of
  <1>3. Spares(n)
    BY <1>2 DEF Spares
  <1> QED BY <1>1, <1>3, SparedStaysLinked

LEMMA StoreSpared ==
  ASSUME IInv, UNCHANGED <<up, files, junk, wallets, collections, aliases, served, doubtful, setup>>,
         current' # None => current' = current /\ brandNew' = brandNew
  PROVE  Types' /\ Down' /\ Links' /\ OnAlias'
  <1>1. Types'
    BY DEF IInv, Types, CollectionsType, Opened, setup
  <1>2. Down'
    BY DEF IInv, Down, Opened
  <1>3. Links'
    BY LinksSpared DEF IInv
  <1>4. OnAlias'
    BY DEF IInv, OnAlias, setup
  <1> QED BY <1>1, <1>2, <1>3, <1>4

LEMMA SequenceOf ==
  ASSUME NEW S, NEW k \in Nat, NEW f \in [1 .. k -> S]
  PROVE  f \in Seq(S) /\ Len(f) = k
  OBVIOUS

LEMMA PromptsWith ==
  ASSUME PromptTypes, NEW q \in Prompt, NEW r \in PromptRecord,
         r.type = "Create" => Len(r.objects) = 1, prompts' = With(prompts, q, r)
  PROVE  PromptTypes'
  <1>1. prompts' = [z \in DOMAIN prompts \cup {q} |-> IF z = q THEN r ELSE prompts[z]]
    BY DEF With
  <1>2. DOMAIN prompts' = DOMAIN prompts \cup {q}
    BY <1>1
  <1>3. \A z \in DOMAIN prompts' : prompts'[z] = IF z = q THEN r ELSE prompts[z]
    BY <1>1
  <1>4. \A z \in DOMAIN prompts' : prompts'[z] \in PromptRecord
    BY <1>2, <1>3 DEF PromptTypes
  <1>5. prompts' \in [DOMAIN prompts' -> PromptRecord]
    BY <1>1, <1>2, <1>4
  <1>6. DOMAIN prompts' \subseteq Prompt
    BY <1>2 DEF PromptTypes
  <1>7. \A z \in DOMAIN prompts' : prompts'[z].type = "Create" => Len(prompts'[z].objects) = 1
    BY <1>2, <1>3 DEF PromptTypes
  <1> QED BY <1>5, <1>6, <1>7 DEF PromptTypes

LEMMA PromptsExcept ==
  ASSUME PromptTypes, NEW q \in DOMAIN prompts, NEW r \in PromptRecord,
         r.type = prompts[q].type, r.objects = prompts[q].objects,
         prompts' = [prompts EXCEPT ![q] = r]
  PROVE  PromptTypes'
  <1>1. DOMAIN prompts' = DOMAIN prompts
    BY DEF PromptTypes
  <1>2. \A z \in DOMAIN prompts : prompts'[z] = IF z = q THEN r ELSE prompts[z]
    BY DEF PromptTypes
  <1>3. \A z \in DOMAIN prompts' :
          prompts'[z] \in PromptRecord
          /\ prompts'[z].type = prompts[z].type /\ prompts'[z].objects = prompts[z].objects
    BY <1>1, <1>2 DEF PromptTypes
  <1>4. prompts' = [z \in DOMAIN prompts' |-> prompts'[z]]
    BY <1>1 DEF PromptTypes
  <1>5. prompts' \in [DOMAIN prompts' -> PromptRecord]
    BY <1>3, <1>4
  <1>6. \A z \in DOMAIN prompts' : prompts'[z].type = "Create" => Len(prompts'[z].objects) = 1
    BY <1>1, <1>3 DEF PromptTypes
  <1> QED BY <1>1, <1>5, <1>6 DEF PromptTypes

LEMMA CallUnlockPrompts ==
  ASSUME Types, NEW q, NEW k \in Nat, NEW objects \in [1 .. k -> DOMAIN collections],
         CallUnlock(q, objects)
  PROVE  \E s \in Seq(Object) : prompts' = With(prompts, q, NewPrompt("Open", s, None))
  <1>1. PICK s : s = [i \in DOMAIN objects |->
                        [wallet |-> collections[objects[i]].wallet, path |-> objects[i]]]
    OBVIOUS
  <1>2. DOMAIN objects = 1 .. k
    OBVIOUS
  <1>3. ASSUME NEW i \in 1 .. k
        PROVE  [wallet |-> collections[objects[i]].wallet, path |-> objects[i]] \in Object
    <2>1. objects[i] \in DOMAIN collections
      OBVIOUS
    <2>2. collections[objects[i]] \in Collection /\ objects[i] \in Path
      BY <2>1 DEF Types, CollectionsType
    <2> QED BY <2>2 DEF Object, Collection
  <1>4. s \in [1 .. k -> Object]
    BY <1>1, <1>2, <1>3
  <1>5. s \in Seq(Object)
    BY <1>4, SequenceOf
  <1> QED BY <1>1, <1>5 DEF CallUnlock

LEMMA CallUnlockInv ==
  ASSUME IInv, NEW q \in Prompt, NEW k \in Nat, NEW objects \in [1 .. k -> DOMAIN collections],
         CallUnlock(q, objects)
  PROVE  IInv'
  <1>1. PICK s \in Seq(Object) : prompts' = With(prompts, q, NewPrompt("Open", s, None))
    BY CallUnlockPrompts DEF IInv
  <1>2. PICK r : r = NewPrompt("Open", s, None)
    OBVIOUS
  <1>3. r \in PromptRecord /\ r.type = "Open"
    BY <1>2 DEF NewPrompt, PromptRecord
  <1>4. PromptTypes'
    BY <1>1, <1>2, <1>3, PromptsWith DEF IInv
  <1>5. UNCHANGED <<up, files, junk, wallets, collections, aliases, served, doubtful, setup>>
        /\ UNCHANGED <<queue, current, brandNew, processing>>
    BY DEF CallUnlock, disk, transactions
  <1>6. QueueTypes'
    BY <1>5 DEF IInv, QueueTypes
  <1> QED BY <1>4, <1>5, <1>6, StoreSpared DEF IInv

LEMMA CallCreateCollectionInv ==
  ASSUME IInv, NEW q \in Prompt, NEW label \in Name, NEW a \in Alias \cup {None},
         CallCreateCollection(q, label, a)
  PROVE  IInv'
  <1>1. PICK s : s = <<[wallet |-> label, path |-> None]>>
    OBVIOUS
  <1>2. s \in Seq(Object) /\ Len(s) = 1
    BY <1>1 DEF Object
  <1>3. PICK r : r = NewPrompt("Create", s, a)
    OBVIOUS
  <1>4. r \in PromptRecord /\ Len(r.objects) = 1
    BY <1>2, <1>3 DEF NewPrompt, PromptRecord
  <1>5. prompts' = With(prompts, q, r)
    BY <1>1, <1>3 DEF CallCreateCollection
  <1>6. PromptTypes'
    BY <1>4, <1>5, PromptsWith DEF IInv
  <1>7. UNCHANGED <<up, files, junk, wallets, collections, aliases, served, doubtful, setup>>
        /\ UNCHANGED <<queue, current, brandNew, processing>>
    BY DEF CallCreateCollection, disk, transactions
  <1>8. QueueTypes'
    BY <1>7 DEF IInv, QueueTypes
  <1> QED BY <1>6, <1>7, <1>8, StoreSpared DEF IInv

LEMMA CallDismissInv ==
  ASSUME IInv, NEW q \in Prompt, CallDismiss(q)
  PROVE  IInv'
  <1>1. q \in DOMAIN prompts /\ prompts[q] \in PromptRecord
    BY DEF IInv, PromptTypes, CallDismiss
  <1>2. PICK r : r = [prompts[q] EXCEPT !.registered = FALSE, !.dismissed = TRUE,
                                        !.completed = Append(@, TRUE)]
    OBVIOUS
  <1>3. Append(prompts[q].completed, TRUE) \in Seq(BOOLEAN)
    BY <1>1 DEF PromptRecord
  <1>4. r \in PromptRecord /\ r.type = prompts[q].type /\ r.objects = prompts[q].objects
    BY <1>1, <1>2, <1>3 DEF PromptRecord
  <1>5. prompts' = [prompts EXCEPT ![q] = r]
    BY <1>1, <1>2 DEF CallDismiss
  <1>6. PromptTypes'
    BY <1>1, <1>4, <1>5, PromptsExcept DEF IInv
  <1>7. UNCHANGED <<up, files, junk, wallets, collections, aliases, served, doubtful, setup>>
        /\ UNCHANGED <<queue, current, brandNew, processing>>
    BY DEF CallDismiss, disk, transactions
  <1>8. QueueTypes'
    BY <1>7 DEF IInv, QueueTypes
  <1> QED BY <1>6, <1>7, <1>8, StoreSpared DEF IInv

LEMMA OtherOpenInv ==
  ASSUME IInv, NEW n \in Others, NEW w \in WId, OtherOpen(n, w)
  PROVE  IInv'
  <1>1. PICK t : t = [wallet |-> n, wId |-> w, prompt |-> None, path |-> None]
    OBVIOUS
  <1>2. t \in Transaction /\ queue' = Append(queue, t)
    BY <1>1, ConstantsAssumption DEF Transaction, OtherOpen
  <1>3. UNCHANGED <<up, files, junk, wallets, collections, aliases, served, prompts, doubtful, setup>>
        /\ UNCHANGED <<current, brandNew, processing>>
    BY DEF OtherOpen, disk, service
  <1>4. QueueTypes'
    BY <1>2, <1>3 DEF IInv, QueueTypes
  <1>5. PromptTypes'
    BY <1>3 DEF IInv, PromptTypes
  <1> QED BY <1>3, <1>4, <1>5, StoreSpared DEF IInv

\* An alias that moves leaves the bus clear of its former collection.
LEMMA RealiasFacts ==
  ASSUME Types, OnAlias, NEW a \in Alias, NEW n \in Name, Realias(a, n),
         collections' = collections, doubtful' = doubtful
  PROVE  /\ aliases' \in [Alias -> Name \cup {None}]
         /\ served' \in [Alias -> Path \cup {None}]
         /\ overtaken' \in Path \cup {None}
         /\ OnAlias'
  <1>1. PICK left : left = IF aliases[a] # None /\ Of(collections, aliases[a]) # {}
                           THEN None ELSE served[a]
    OBVIOUS
  <1>2. PICK new : new = IF left = None /\ Of(collections, n) # {}
                         THEN First(collections, n) ELSE left
    OBVIOUS
  <1>3. /\ aliases' = [aliases EXCEPT ![a] = n] /\ served' = [served EXCEPT ![a] = new]
        /\ overtaken' = IF a = Default /\ left = None THEN None ELSE overtaken
    BY <1>1, <1>2 DEF Realias, Types
  <1>4. Of(collections, n) # {} => First(collections, n) \in Of(collections, n)
    BY FirstIsOf DEF Types, CollectionsType
  <1>5. ASSUME left # None
        PROVE  /\ left \in DOMAIN collections
               /\ collections[left].wallet \in doubtful \/ (a = Default /\ left = overtaken)
    <2>1. left = served[a] /\ ~(aliases[a] # None /\ Of(collections, aliases[a]) # {})
      BY <1>1, <1>5
    <2>2. /\ left \in DOMAIN collections
          /\ \/ collections[left].wallet \in {aliases[a]} \cup doubtful
             \/ a = Default /\ left = overtaken
      BY <1>5, <2>1 DEF OnAlias
    <2>3. collections[left].wallet # None
      BY <2>2, ConstantsAssumption DEF Types, CollectionsType, Collection
    <2>4. collections[left].wallet = aliases[a] => left \in Of(collections, aliases[a])
      BY <2>2 DEF Of
    <2> QED BY <2>1, <2>2, <2>3, <2>4
  <1>6. ASSUME new # None
        PROVE  /\ new \in DOMAIN collections
               /\ \/ collections[new].wallet \in {n} \cup doubtful
                  \/ a = Default /\ new = overtaken'
    <2>1. First(collections, n) \in Of(collections, n) =>
            First(collections, n) \in DOMAIN collections
            /\ collections[First(collections, n)].wallet = n
      BY DEF Of
    <2> QED BY <1>2, <1>3, <1>4, <1>5, <1>6, <2>1
  <1>7. new \in Path \cup {None}
    BY <1>6 DEF Types, CollectionsType
  <1>8. /\ aliases' \in [Alias -> Name \cup {None}] /\ served' \in [Alias -> Path \cup {None}]
        /\ overtaken' \in Path \cup {None}
    BY <1>3, <1>7 DEF Types
  <1>9. ASSUME NEW b \in Alias, served'[b] # None
        PROVE  /\ served'[b] \in DOMAIN collections
               /\ \/ collections[served'[b]].wallet \in {aliases'[b]} \cup doubtful
                  \/ b = Default /\ served'[b] = overtaken'
    <2>1. CASE b = a
      <3>1. served'[b] = new /\ aliases'[b] = n
        BY <1>3, <2>1 DEF Types
      <3> QED BY <1>6, <1>9, <2>1, <3>1
    <2>2. CASE b # a
      <3>1. served'[b] = served[b] /\ aliases'[b] = aliases[b]
        BY <1>3, <2>2 DEF Types
      <3>2. b = Default => overtaken' = overtaken
        BY <1>3, <2>2
      <3> QED BY <1>9, <3>1, <3>2 DEF OnAlias
    <2> QED BY <2>1, <2>2
  <1> QED BY <1>8, <1>9 DEF OnAlias

LEMMA OpensType ==
  ASSUME NEW objects \in Seq(Object), NEW q \in Prompt, NEW w \in WId, NEW name,
         \A i \in DOMAIN objects : name[i] \in Name,
         NEW s, s = [i \in DOMAIN objects |->
                       [wallet |-> name[i], wId |-> w, prompt |-> q, path |-> objects[i].path]]
  PROVE  /\ s \in Seq(Transaction) /\ Len(s) = Len(objects)
         /\ \A i \in DOMAIN s : s[i].prompt = q
  <1>1. PICK k \in Nat : k = Len(objects) /\ DOMAIN objects = 1 .. k
    OBVIOUS
  <1>2. ASSUME NEW i \in 1 .. k
        PROVE  [wallet |-> name[i], wId |-> w, prompt |-> q, path |-> objects[i].path] \in Transaction
    <2>1. objects[i] \in Object
      BY <1>1
    <2>2. objects[i].path \in Path \cup {None}
      BY <2>1 DEF Object
    <2> QED BY <1>1, <2>2 DEF Transaction
  <1>3. s \in [1 .. k -> Transaction]
    BY <1>1, <1>2
  <1> QED BY <1>1, <1>3, SequenceOf

LEMMA CallPromptFacts ==
  ASSUME PromptTypes, NEW q \in Prompt, NEW w \in WId, CallPrompt(q, w)
  PROVE  \E s \in Seq(Transaction) :
           /\ queue' = queue \o s
           /\ Len(s) = Len(prompts[q].objects) /\ \A i \in DOMAIN s : s[i].prompt = q
           /\ UNCHANGED <<aliases, served, overtaken>>
              \/ \E n \in Name, a \in Alias : Realias(a, n)
  <1>1. q \in DOMAIN prompts /\ prompts[q] \in PromptRecord
    BY DEF PromptTypes, CallPrompt
  <1>2. PICK objects \in Seq(Object) : objects = prompts[q].objects
    BY <1>1 DEF PromptRecord
  <1>3. CASE /\ prompts[q].type = "Open"
             /\ queue' = queue \o [i \in DOMAIN objects |->
                  [wallet |-> [j \in DOMAIN objects |-> objects[j].wallet][i],
                   wId |-> w, prompt |-> q, path |-> objects[i].path]]
             /\ UNCHANGED <<aliases, served, overtaken>>
    <2>1. PICK name : name = [j \in DOMAIN objects |-> objects[j].wallet]
      OBVIOUS
    <2>2. ASSUME NEW i \in DOMAIN objects PROVE name[i] \in Name
      <3>1. objects[i] \in Object
        OBVIOUS
      <3> QED BY <2>1, <3>1 DEF Object
    <2>3. PICK s : s = [i \in DOMAIN objects |->
                     [wallet |-> name[i], wId |-> w, prompt |-> q, path |-> objects[i].path]]
      OBVIOUS
    <2>4. s \in Seq(Transaction) /\ Len(s) = Len(objects) /\ \A i \in DOMAIN s : s[i].prompt = q
      BY <2>2, <2>3, OpensType
    <2> QED BY <1>2, <1>3, <2>1, <2>3, <2>4
  <1>4. CASE /\ prompts[q].type = "Create"
             /\ \E n \in UniqueNames(objects[1].wallet) :
                  /\ queue' = queue \o [i \in DOMAIN objects |->
                       [wallet |-> <<n>>[i], wId |-> w, prompt |-> q, path |-> objects[i].path]]
                  /\ IF prompts[q].alias = None
                     THEN UNCHANGED <<aliases, served, overtaken>>
                     ELSE Realias(prompts[q].alias, n)
    <2>1. PICK n :
                  /\ n \in UniqueNames(objects[1].wallet)
                  /\ queue' = queue \o [i \in DOMAIN objects |->
                       [wallet |-> <<n>>[i], wId |-> w, prompt |-> q, path |-> objects[i].path]]
                  /\ IF prompts[q].alias = None
                     THEN UNCHANGED <<aliases, served, overtaken>>
                     ELSE Realias(prompts[q].alias, n)
      BY <1>4
    <2>2. Len(objects) = 1 /\ DOMAIN objects = {1} /\ objects[1] \in Object
      BY <1>1, <1>2, <1>4 DEF PromptTypes
    <2>3. n \in Name
      BY <2>1, <2>2 DEF UniqueNames, Object
    <2>4. PICK name : name = <<n>>
      OBVIOUS
    <2>5. ASSUME NEW i \in DOMAIN objects PROVE name[i] \in Name
      BY <2>2, <2>3, <2>4
    <2>6. PICK s : s = [i \in DOMAIN objects |->
                     [wallet |-> name[i], wId |-> w, prompt |-> q, path |-> objects[i].path]]
      OBVIOUS
    <2>7. s \in Seq(Transaction) /\ Len(s) = Len(objects) /\ \A i \in DOMAIN s : s[i].prompt = q
      BY <2>5, <2>6, OpensType
    <2>8. prompts[q].alias # None => prompts[q].alias \in Alias
      BY <1>1 DEF PromptRecord
    <2> QED BY <1>2, <2>1, <2>3, <2>4, <2>6, <2>7, <2>8
  <1> QED BY <1>2, <1>3, <1>4 DEF CallPrompt

LEMMA CallPromptInv ==
  ASSUME IInv, NEW q \in Prompt, NEW w \in WId, CallPrompt(q, w)
  PROVE  IInv'
  <1>1. q \in DOMAIN prompts /\ prompts[q] \in PromptRecord
    BY DEF IInv, PromptTypes, CallPrompt
  <1>2. PICK objects \in Seq(Object) : objects = prompts[q].objects
    BY <1>1 DEF PromptRecord
  <1>3. PICK r : r = [prompts[q] EXCEPT !.called = TRUE, !.left = Len(objects)]
    OBVIOUS
  <1>4. Len(objects) \in Int
    BY <1>2
  <1>5. r \in PromptRecord /\ r.type = prompts[q].type /\ r.objects = prompts[q].objects
    BY <1>1, <1>3, <1>4 DEF PromptRecord
  <1>6. prompts' = [prompts EXCEPT ![q] = r]
    BY <1>1, <1>2, <1>3 DEF CallPrompt
  <1>7. PromptTypes'
    BY <1>1, <1>5, <1>6, PromptsExcept DEF IInv
  <1>8. UNCHANGED <<up, files, junk, wallets, collections, doubtful, firstUse>>
        /\ UNCHANGED <<current, brandNew, processing>>
    BY DEF CallPrompt, disk
  <1>9. PICK s \in Seq(Transaction) :
          /\ queue' = queue \o s
          /\ UNCHANGED <<aliases, served, overtaken>>
             \/ \E n \in Name, a \in Alias : Realias(a, n)
    BY CallPromptFacts DEF IInv
  <1>10. QueueTypes'
    BY <1>8, <1>9 DEF IInv, QueueTypes
  <1>11. Links' /\ Down'
    BY <1>8, LinksSpared DEF IInv, Down, Opened
  <1>12. Types' /\ OnAlias'
    <2>1. CASE UNCHANGED <<aliases, served, overtaken>>
      BY <1>8, <2>1 DEF IInv, Types, OnAlias, CollectionsType, Opened
    <2>2. ASSUME NEW n \in Name, NEW a \in Alias, Realias(a, n)
          PROVE  Types' /\ OnAlias'
      <3>1. /\ aliases' \in [Alias -> Name \cup {None}]
            /\ served' \in [Alias -> Path \cup {None}]
            /\ overtaken' \in Path \cup {None}
            /\ OnAlias'
        BY <1>8, <2>2, RealiasFacts DEF IInv
      <3> QED BY <1>8, <3>1 DEF IInv, Types, CollectionsType, Opened
    <2> QED BY <1>9, <2>1, <2>2
  <1> QED BY <1>7, <1>10, <1>11, <1>12 DEF IInv

LEMMA ImageFacts ==
  ASSUME NEW S, IsFiniteSet(S), NEW f, DOMAIN f = S, f = [x \in S |-> f[x]],
         NEW T, T = {f[x] : x \in S}
  PROVE  /\ IsFiniteSet(T)
         /\ (\A x, y \in S : f[x] = f[y] => x = y) => Cardinality(T) = Cardinality(S)
  <1>1. f \in [S -> T]
    OBVIOUS
  <1>2. f \in Surjection(S, T)
    BY <1>1 DEF Surjection
  <1>3. (\A x, y \in S : f[x] = f[y] => x = y) => f \in Injection(S, T)
    BY <1>1 DEF Injection, IsInjective
  <1> QED BY <1>2, <1>3, FS_Surjection

LEMMA FailuresType ==
  ASSUME NEW q, NEW S, IsFiniteSet(S)
  PROVE  Failures(q, S) \in Nat
  <1>1. IsFiniteSet({x \in S : x[2].prompt = q})
    BY FS_Subset
  <1> QED BY <1>1, FS_CardinalityType DEF Failures

LEMMA FailedForType ==
  ASSUME PromptTypes, NEW S, IsFiniteSet(S), prompts' = FailedFor(S)
  PROVE  PromptTypes'
  <1>1. DOMAIN prompts' = DOMAIN prompts
    BY DEF FailedFor
  <1>2. ASSUME NEW q \in DOMAIN prompts
        PROVE  /\ prompts'[q] \in PromptRecord /\ prompts'[q].type = prompts[q].type
               /\ prompts'[q].objects = prompts[q].objects
    <2>1. prompts[q] \in PromptRecord
      BY DEF PromptTypes
    <2>2. PICK k \in Nat : k = Failures(q, S)
      BY FailuresType
    <2>3. PICK s : s = [i \in 1 .. k |-> TRUE]
      OBVIOUS
    <2>4. s \in [1 .. k -> BOOLEAN]
      BY <2>3
    <2>5. s \in Seq(BOOLEAN)
      BY <2>4, SequenceOf
    <2>6. prompts[q].completed \o s \in Seq(BOOLEAN)
      BY <2>1, <2>5 DEF PromptRecord
    <2>7. PICK r : r = [prompts[q] EXCEPT !.registered = FALSE, !.completed = @ \o s]
      OBVIOUS
    <2>8. r \in PromptRecord /\ r.type = prompts[q].type /\ r.objects = prompts[q].objects
      BY <2>1, <2>6, <2>7 DEF PromptRecord
    <2>9. prompts'[q] = IF k = 0 THEN prompts[q] ELSE r
      BY <2>2, <2>3, <2>7 DEF FailedFor
    <2> QED BY <2>1, <2>8, <2>9
  <1>3. prompts' = [q \in DOMAIN prompts' |-> prompts'[q]]
    BY <1>1 DEF FailedFor
  <1>4. prompts' \in [DOMAIN prompts' -> PromptRecord]
    BY <1>1, <1>2, <1>3
  <1>5. \A q \in DOMAIN prompts' : prompts'[q].type = "Create" => Len(prompts'[q].objects) = 1
    BY <1>1, <1>2 DEF PromptTypes
  <1> QED BY <1>1, <1>4, <1>5 DEF PromptTypes

\* The opens of the same client for the wallet of the failed dialog.
Same == {i \in DOMAIN queue : queue[i].wallet = current.wallet /\ queue[i].wId = current.wId}

LEMMA FailedIsFinite ==
  ASSUME QueueTypes
  PROVE  IsFiniteSet({<<i, queue[i]>> : i \in Same} \cup {<<0, current>>})
  <1>1. IsFiniteSet(1 .. Len(queue))
    BY FS_Interval DEF QueueTypes
  <1>2. Same \subseteq 1 .. Len(queue)
    BY DEF Same, QueueTypes
  <1>3. IsFiniteSet(Same)
    BY <1>1, <1>2, FS_Subset
  <1>4. PICK f : f = [i \in Same |-> <<i, queue[i]>>]
    OBVIOUS
  <1>5. IsFiniteSet({f[i] : i \in Same})
    BY <1>3, <1>4, ImageFacts
  <1>6. {<<i, queue[i]>> : i \in Same} = {f[i] : i \in Same}
    BY <1>4
  <1> QED BY <1>5, <1>6, FS_AddElement

LEMMA CancelInv ==
  ASSUME IInv, Cancel
  PROVE  IInv'
  <1>1. /\ prompts' = FailedFor({<<i, queue[i]>> : i \in Same} \cup {<<0, current>>})
        /\ queue' = [i \in DOMAIN queue |->
                       IF i \in Same THEN [queue[i] EXCEPT !.prompt = None] ELSE queue[i]]
        /\ current' = None /\ brandNew' = FALSE /\ processing' = (queue # <<>>)
    BY DEF Cancel, Same
  <1>2. PromptTypes'
    <2>1. PICK S : S = {<<i, queue[i]>> : i \in Same} \cup {<<0, current>>}
      OBVIOUS
    <2>2. IsFiniteSet(S)
      BY <2>1, FailedIsFinite DEF IInv
    <2>3. prompts' = FailedFor(S)
      BY <1>1, <2>1
    <2> QED BY <2>2, <2>3, FailedForType DEF IInv
  <1>3. UNCHANGED <<up, files, junk, wallets, collections, aliases, served, doubtful, setup>>
    BY DEF Cancel, disk
  <1>4. queue' \in Seq(Transaction)
    <2>1. PICK k \in Nat : k = Len(queue) /\ DOMAIN queue = 1 .. k
      BY DEF IInv, QueueTypes
    <2>2. ASSUME NEW i \in 1 .. k
          PROVE  (IF i \in Same THEN [queue[i] EXCEPT !.prompt = None] ELSE queue[i]) \in Transaction
      <3>1. queue[i] \in Transaction
        BY <2>1 DEF IInv, QueueTypes
      <3>2. [queue[i] EXCEPT !.prompt = None] \in Transaction
        BY <3>1 DEF Transaction
      <3> QED BY <3>1, <3>2
    <2>3. queue' \in [1 .. k -> Transaction]
      BY <1>1, <2>1, <2>2
    <2> QED BY <2>3, SequenceOf
  <1>5. QueueTypes'
    BY <1>1, <1>4 DEF QueueTypes
  <1> QED BY <1>1, <1>2, <1>3, <1>5, StoreSpared DEF IInv

-----------------------------------------------------------------------------
(* Wallets that open *)

LEMMA RegisterFacts ==
  ASSUME served \in [Alias -> Path \cup {None}], DOMAIN collections' \subseteq Path, Register,
         \A a \in Alias : served[a] # None /\ served[a] \in DOMAIN collections' =>
           \/ collections'[served[a]].wallet \in {aliases'[a]} \cup doubtful'
           \/ a = Default /\ served[a] = overtaken'
  PROVE  served' \in [Alias -> Path \cup {None}] /\ OnAlias'
  <1> DEFINE new(a) == {p \in DOMAIN collections' \ DOMAIN collections :
                          collections'[p].wallet = aliases'[a]}
  <1>1. served' = [a \in Alias |->
                     IF served[a] = None /\ new(a) # {} THEN CHOOSE p \in new(a) : TRUE
                     ELSE IF served[a] \in DOMAIN collections' THEN served[a] ELSE None]
    BY DEF Register
  <1>2. ASSUME NEW a \in Alias
        PROVE  served'[a] # None =>
                 /\ served'[a] \in DOMAIN collections'
                 /\ \/ collections'[served'[a]].wallet \in {aliases'[a]} \cup doubtful'
                    \/ a = Default /\ served'[a] = overtaken'
    <2>1. PICK N : N = new(a)
      OBVIOUS
    <2>2. N # {} => (CHOOSE p \in N : TRUE) \in N
      OBVIOUS
    <2>3. \A p \in N : p \in DOMAIN collections' /\ collections'[p].wallet = aliases'[a]
      BY <2>1
    <2>4. served'[a] = IF served[a] = None /\ N # {} THEN CHOOSE p \in N : TRUE
                       ELSE IF served[a] \in DOMAIN collections' THEN served[a] ELSE None
      BY <1>1, <2>1
    <2> QED BY <2>2, <2>3, <2>4
  <1>3. \A a \in Alias : served'[a] \in Path \cup {None}
    BY <1>2
  <1>4. served' \in [Alias -> Path \cup {None}]
    BY <1>1, <1>3
  <1> QED BY <1>2, <1>4 DEF OnAlias

\* What Succeed() does to collections C, that become D, when n has handle h.
Opens(C, D, n, h) ==
  /\ DOMAIN C \subseteq DOMAIN D
  /\ \A p \in DOMAIN C :
       /\ D[p].wallet = C[p].wallet
       /\ C[p].wallet # n => D[p] = C[p]
       /\ D[p].handle \in {h, C[p].handle}
  /\ Of(C, n) # {} => Of(D, n) = Of(C, n)
  /\ \A m \in Name \ {n} : Of(D, m) = Of(C, m)

LEMMA OpenedForType ==
  ASSUME PromptTypes, NEW t \in Transaction, NEW path \in Path, prompts' = OpenedFor(t, path)
  PROVE  PromptTypes'
  <1>1. CASE t.prompt \in DOMAIN prompts
    <2>1. PICK q \in DOMAIN prompts : q = t.prompt /\ prompts[q] \in PromptRecord
      BY <1>1 DEF PromptTypes
    <2>2. PICK l, g, s, c : /\ l = prompts[q].left - 1
                            /\ g = (prompts[q].registered /\ prompts[q].left > 1)
                            /\ s = Append(prompts[q].result, path)
                            /\ c = IF prompts[q].left = 1 THEN Append(prompts[q].completed, FALSE)
                                   ELSE prompts[q].completed
      OBVIOUS
    <2>3. /\ prompts[q].left \in Int /\ prompts[q].registered \in BOOLEAN
          /\ prompts[q].result \in Seq(Path) /\ prompts[q].completed \in Seq(BOOLEAN)
      BY <2>1 DEF PromptRecord
    <2>4. l \in Int /\ g \in BOOLEAN /\ s \in Seq(Path) /\ c \in Seq(BOOLEAN)
      <3>1. g \in BOOLEAN
        BY <2>2, Zenon
      <3>2. l \in Int /\ s \in Seq(Path)
        BY <2>2, <2>3
      <3>3. c \in Seq(BOOLEAN)
        <4>1. Append(prompts[q].completed, FALSE) \in Seq(BOOLEAN)
          BY <2>3
        <4> QED BY <2>2, <2>3, <4>1, Zenon
      <3> QED BY <3>1, <3>2, <3>3
    <2>5. PICK r : r = [prompts[q] EXCEPT !.left = l, !.registered = g, !.result = s, !.completed = c]
      OBVIOUS
    <2>6. r \in PromptRecord /\ r.type = prompts[q].type /\ r.objects = prompts[q].objects
      BY <2>1, <2>4, <2>5 DEF PromptRecord
    <2>7. r = [prompts[q] EXCEPT !.left = @ - 1,
                 !.registered = @ /\ prompts[q].left > 1,
                 !.result = Append(@, path),
                 !.completed = IF prompts[q].left = 1 THEN Append(@, FALSE) ELSE @]
      BY <2>1, <2>2, <2>5 DEF PromptRecord
    <2>8. prompts' = [prompts EXCEPT ![q] = r]
      BY <2>1, <2>7, Zenon DEF OpenedFor
    <2> QED BY <2>1, <2>6, <2>8, PromptsExcept
  <1>2. CASE t.prompt \notin DOMAIN prompts
    <2>1. prompts' = prompts
      BY <1>2 DEF OpenedFor, PromptTypes
    <2> QED BY <2>1 DEF PromptTypes
  <1> QED BY <1>1, <1>2

LEMMA SucceedFacts ==
  ASSUME PromptTypes, NEW C, CollectionsType(C), NEW t \in Transaction, NEW h \in Handle,
         NEW rest \in Seq(Transaction), Succeed(t, h, C, rest)
  PROVE  /\ CollectionsType(collections') /\ Opens(C, collections', t.wallet, h)
         /\ PromptTypes' /\ QueueTypes'
         /\ current' = None /\ Register
         /\ t.prompt = None => prompts' = prompts
         /\ t.prompt # None => \E path \in Path : prompts' = OpenedFor(t, path)
  <1>1. PICK n \in Name : n = t.wallet
    BY DEF Transaction
  <1>2. QueueTypes' /\ current' = None /\ Register
    <2>1. current' = None /\ brandNew' = FALSE /\ queue' = rest /\ processing' = (rest # <<>>)
          /\ Register
      BY DEF Succeed
    <2> QED BY <2>1 DEF QueueTypes
  <1>3. CASE t.prompt = None
    <2>1. collections' = C /\ prompts' = prompts
      BY <1>3 DEF Succeed
    <2>2. Opens(C, collections', n, h)
      BY <2>1 DEF Opens
    <2>3. PromptTypes'
      BY <2>1 DEF PromptTypes
    <2> QED BY <1>1, <1>2, <1>3, <2>1, <2>2, <2>3
  <1>4. CASE t.prompt # None
    <2>1. PICK D : D = collections'
      OBVIOUS
    <2>2. D = Unlock(C, n, h)
      BY <1>1, <1>4, <2>1 DEF Succeed
    <2>3. CollectionsType(D) /\ Unlocks(C, D, n, h)
      BY <2>2, UnlockFacts
    <2>4. Opens(C, D, n, h)
      BY <2>3 DEF Opens, Unlocks
    <2>5. First(D, n) \in Path
      <3>1. Of(D, n) # {} /\ DOMAIN D \subseteq Path
        BY <2>3 DEF Unlocks, CollectionsType
      <3>2. First(D, n) \in Of(D, n)
        BY <3>1, FirstIsOf
      <3> QED BY <3>1, <3>2 DEF Of
    <2>6. PICK path : path = IF t.path = None THEN First(D, n) ELSE t.path
      OBVIOUS
    <2>7. path \in Path
      BY <2>5, <2>6 DEF Transaction
    <2>8. prompts' = OpenedFor(t, path)
      BY <1>1, <1>4, <2>1, <2>6 DEF Succeed
    <2>9. PromptTypes'
      BY <2>7, <2>8, OpenedForType
    <2> QED BY <1>1, <1>2, <1>4, <2>1, <2>3, <2>4, <2>7, <2>8, <2>9
  <1> QED BY <1>3, <1>4

LEMMA HeadAndTail ==
  ASSUME NEW S, NEW s \in Seq(S), s # <<>>
  PROVE  Head(s) \in S /\ Tail(s) \in Seq(S)
  OBVIOUS

\* What an open does to the aliases: nothing, or another default in kwalletrc,
\* which what the bus serves did not follow.
Redefaulted ==
  \/ aliases' = aliases /\ overtaken' = overtaken
  \/ /\ \A a \in Alias \ {Default} : aliases'[a] = aliases[a]
     /\ overtaken' = served[Default]

LEMMA FirstUseFacts ==
  ASSUME Types, NEW n \in Name, FirstUse(n)
  PROVE  /\ aliases' \in [Alias -> Name \cup {None}]
         /\ firstUse' \in BOOLEAN /\ overtaken' \in Path \cup {None}
         /\ Redefaulted
  <1>1. aliases' \in {aliases, [aliases EXCEPT ![Default] = n]}
    BY DEF FirstUse
  <1>2. firstUse' \in BOOLEAN
    BY Zenon DEF FirstUse
  <1>3. overtaken' = IF aliases' # aliases THEN served[Default] ELSE overtaken
    BY DEF FirstUse
  <1>4. aliases' \in [Alias -> Name \cup {None}] /\ overtaken' \in Path \cup {None}
    BY <1>1, <1>3, ConstantsAssumption DEF Types
  <1>5. Redefaulted
    BY <1>1, <1>3 DEF Redefaulted, Types
  <1> QED BY <1>2, <1>4, <1>5

\* Collections that open keep their wallets, so the bus stays right.
LEMMA OpensKeepsAliases ==
  ASSUME Types, OnAlias, NEW C, NEW n, NEW h, CollectionsType(collections'),
         DOMAIN collections \subseteq DOMAIN C,
         \A p \in DOMAIN collections : C[p].wallet = collections[p].wallet,
         Opens(C, collections', n, h), Redefaulted, doubtful' = doubtful, Register
  PROVE  served' \in [Alias -> Path \cup {None}] /\ OnAlias'
  <1>1. \A p \in DOMAIN collections : p \in DOMAIN C /\ collections'[p].wallet = collections[p].wallet
    BY DEF Opens
  <1>2. ASSUME NEW a \in Alias, served[a] # None
        PROVE  \/ collections'[served[a]].wallet \in {aliases'[a]} \cup doubtful'
               \/ a = Default /\ served[a] = overtaken'
    <2>1. /\ served[a] \in DOMAIN collections
          /\ collections'[served[a]].wallet = collections[served[a]].wallet
          /\ \/ collections[served[a]].wallet \in {aliases[a]} \cup doubtful
             \/ a = Default /\ served[a] = overtaken
      BY <1>1, <1>2 DEF OnAlias
    <2>2. \/ aliases'[a] = aliases[a] /\ overtaken' = overtaken
          \/ a # Default /\ aliases'[a] = aliases[a]
          \/ a = Default /\ overtaken' = served[a]
      BY DEF Redefaulted
    <2> QED BY <2>1, <2>2
  <1>3. DOMAIN collections' \subseteq Path /\ served \in [Alias -> Path \cup {None}]
    BY DEF Types, CollectionsType
  <1> QED BY <1>2, <1>3, RegisterFacts

LEMMA BeginFoundInv ==
  ASSUME IInv, NEW h \in Handle, BeginFound(h)
  PROVE  IInv'
  <1>1. PICK t \in Transaction : t = Head(queue)
    BY HeadAndTail DEF IInv, QueueTypes, BeginFound
  <1>2. PICK n \in Name : n = t.wallet
    BY DEF Transaction
  <1>3. PICK rest \in Seq(Transaction) : rest = Tail(queue)
    BY HeadAndTail DEF IInv, QueueTypes, BeginFound
  <1>4. /\ up /\ h \in FindWallet(n) /\ current = None
        /\ FirstUse(n) /\ Succeed(t, h, collections, rest)
        /\ UNCHANGED <<up, files, junk, wallets, doubtful>>
    BY <1>1, <1>2, <1>3 DEF BeginFound, disk
  <1>5. /\ CollectionsType(collections') /\ Opens(collections, collections', n, h)
        /\ PromptTypes' /\ QueueTypes'
        /\ current' = None /\ Register
    BY <1>2, <1>4, SucceedFacts DEF IInv, Types
  <1>0. /\ aliases' \in [Alias -> Name \cup {None}]
        /\ firstUse' \in BOOLEAN /\ overtaken' \in Path \cup {None}
        /\ Redefaulted
    BY <1>4, FirstUseFacts DEF IInv
  <1>6. served' \in [Alias -> Path \cup {None}] /\ OnAlias'
    BY <1>0, <1>4, <1>5, OpensKeepsAliases DEF IInv
  <1>7. Types'
    BY <1>0, <1>4, <1>5, <1>6 DEF IInv, Types, Opened
  <1>8. Down'
    BY <1>4 DEF Down
  <1>9. ASSUME NEW m \in Name \ doubtful
        PROVE  Linked(m)'
    <2>1. Linked(m)
      BY <1>4 DEF IInv, Links
    <2>2. OnDisk' = OnDisk /\ FindWallet(m)' = FindWallet(m)
      BY <1>4 DEF OnDisk, FindWallet, Opened
    <2>3. CASE m # n
      <3>1. Of(collections', m) = Of(collections, m)
        BY <1>5, <2>3 DEF Opens
      <3>2. \A p \in Of(collections, m) : collections'[p] = collections[p]
        BY <1>5, <2>3 DEF Opens, Of
      <3>3. Spares(m)
        BY <1>4, <1>5, <2>2, <3>1, <3>2 DEF Spares
      <3> QED BY <2>1, <3>3, SparedStaysLinked
    <2>4. CASE m = n
      <3>1. Of(collections, n) # {}
        BY <1>4, <2>1, <2>4 DEF Linked, OnDisk
      <3>2. Of(collections', n) = Of(collections, n)
        BY <1>5, <3>1 DEF Opens
      <3>3. \A p \in Of(collections, n) : collections'[p].handle \in {h, collections[p].handle}
        BY <1>5 DEF Opens, Of
      <3>4. \A p \in Of(collections', n) : collections'[p].handle \in FindWallet(n)' \cup {None}
        BY <1>4, <2>1, <2>2, <2>4, <3>2, <3>3 DEF Linked
      <3> QED BY <1>4, <1>5, <2>1, <2>2, <2>4, <3>2, <3>4 DEF Linked
    <2> QED BY <2>3, <2>4
  <1>10. Links'
    BY <1>4, <1>9 DEF IInv, Links
  <1> QED BY <1>5, <1>6, <1>7, <1>8, <1>10 DEF IInv

LEMMA BeginDialogInv ==
  ASSUME IInv, BeginDialog
  PROVE  IInv'
  <1>1. PICK t \in Transaction : t = Head(queue)
    BY HeadAndTail DEF IInv, QueueTypes, BeginDialog
  <1>2. /\ up /\ current = None /\ FindWallet(t.wallet) = {}
        /\ current' = t /\ queue' = Tail(queue) /\ queue # <<>>
        /\ brandNew' = (t.wallet \notin files) /\ processing' = TRUE
        /\ FirstUse(t.wallet)
        /\ UNCHANGED <<up, files, junk, wallets, collections, served, prompts, doubtful>>
    BY <1>1 DEF BeginDialog, disk
  <1>3. queue' \in Seq(Transaction)
    BY <1>2, HeadAndTail DEF IInv, QueueTypes
  <1>4. brandNew' \in BOOLEAN
    BY <1>2, Zenon
  <1>5. QueueTypes'
    BY <1>2, <1>3, <1>4 DEF QueueTypes
  <1>6. PromptTypes'
    BY <1>2 DEF IInv, PromptTypes
  <1>7. Types' /\ OnAlias' /\ Down'
    <2>1. t.wallet \in Name
      BY DEF Transaction
    <2>2. /\ aliases' \in [Alias -> Name \cup {None}]
          /\ firstUse' \in BOOLEAN /\ overtaken' \in Path \cup {None}
          /\ Redefaulted
      BY <1>2, <2>1, FirstUseFacts DEF IInv
    <2>3. Types' /\ Down'
      BY <1>2, <2>2 DEF IInv, Types, Down, CollectionsType, Opened
    <2>4. OnAlias'
      BY <1>2, <2>2 DEF IInv, OnAlias, Redefaulted
    <2> QED BY <2>3, <2>4
  <1>8. ASSUME NEW m \in Name \ doubtful
        PROVE  Linked(m)'
    <2>1. Linked(m)
      BY <1>2 DEF IInv, Links
    <2>2. OnDisk' = OnDisk /\ FindWallet(m)' = FindWallet(m) /\ Of(collections', m) = Of(collections, m)
      BY <1>2 DEF OnDisk, FindWallet, Opened, Of
    <2>3. m \in files <=> m \in OnDisk
      BY <1>2 DEF IInv, Links, OnDisk
    <2>4. t.wallet = m => FindWallet(m)' = {} /\ (brandNew' <=> m \notin OnDisk')
      BY <1>2, <2>2, <2>3
    <2> QED BY <1>2, <2>1, <2>2, <2>4 DEF Linked
  <1>9. Links'
    BY <1>2, <1>8 DEF IInv, Links
  <1> QED BY <1>5, <1>6, <1>7, <1>9 DEF IInv

LEMMA AcceptInv ==
  ASSUME IInv, NEW h \in Handle, Accept(h)
  PROVE  IInv'
  <1>1. PICK t \in Transaction : t = current
    BY DEF IInv, QueueTypes, Accept
  <1>2. PICK n \in Name : n = t.wallet
    BY DEF Transaction
  <1>3. PICK C : C = WalletCreated(n)
    OBVIOUS
  <1>4. /\ up /\ current # None /\ h \notin Opened
        /\ wallets' = With(wallets, h, n)
        /\ files' = files \cup {n} /\ junk' = junk \ {n}
        /\ Succeed(t, h, C, queue) /\ aliases' = aliases
        /\ UNCHANGED <<up, doubtful, firstUse, overtaken>>
    BY <1>1, <1>2, <1>3 DEF Accept, setup
  <1>5. /\ CollectionsType(C) /\ DOMAIN collections \subseteq DOMAIN C
        /\ \A p \in DOMAIN collections : C[p] = collections[p]
        /\ \A m \in Name \ {n} : Of(C, m) = Of(collections, m)
        /\ IF brandNew
           THEN \E p \in DOMAIN C : Of(C, n) = Of(collections, n) \cup {p} /\ C[p].handle = None
           ELSE C = collections
    <2>1. CASE brandNew
      <3>1. C = Add(collections, n, None)
        BY <1>3, <2>1 DEF WalletCreated
      <3>2. CollectionsType(collections) /\ None \in Handle \cup {None}
        BY DEF IInv, Types
      <3>3. CollectionsType(C) /\ Added(collections, C, n, None)
        BY <3>1, <3>2, AddFacts
      <3> QED BY <2>1, <3>3 DEF Added
    <2>2. CASE ~brandNew
      <3>1. C = collections
        BY <1>3, <2>2 DEF WalletCreated
      <3> QED BY <2>2, <3>1 DEF IInv, Types
    <2> QED BY <2>1, <2>2
  <1>6. /\ CollectionsType(collections') /\ Opens(C, collections', n, h)
        /\ PromptTypes' /\ QueueTypes'
        /\ current' = None /\ Register
    BY <1>2, <1>4, <1>5, SucceedFacts DEF IInv, QueueTypes
  <1>7. served' \in [Alias -> Path \cup {None}] /\ OnAlias'
    <2>1. Redefaulted
      BY <1>4 DEF Redefaulted
    <2> QED BY <1>4, <1>5, <1>6, <2>1, OpensKeepsAliases DEF IInv
  <1>8. /\ DOMAIN wallets' = Opened \cup {h} /\ wallets'[h] = n
        /\ \A k \in Opened : wallets'[k] = wallets[k]
        /\ wallets' \in [Opened' -> Name] /\ Opened' \subseteq Handle
    BY <1>4 DEF With, Opened, IInv, Types
  <1>9. Types'
    BY <1>4, <1>6, <1>7, <1>8 DEF IInv, Types
  <1>10. Down'
    BY <1>4 DEF Down
  <1>11. ASSUME NEW m \in Name \ doubtful
         PROVE  Linked(m)'
    <2>1. Linked(m)
      BY <1>4 DEF IInv, Links
    <2>2. CASE m # n
      <3>1. FindWallet(m)' = FindWallet(m)
        BY <1>8, <2>2 DEF FindWallet, Opened
      <3>2. m \in OnDisk' <=> m \in OnDisk
        BY <1>4, <2>2 DEF OnDisk
      <3>3. Of(collections', m) = Of(collections, m)
        BY <1>5, <1>6, <2>2 DEF Opens
      <3>4. \A p \in Of(collections, m) : collections'[p] = collections[p]
        BY <1>5, <1>6, <2>2 DEF Opens, Of
      <3>5. Spares(m)
        BY <1>4, <1>6, <3>1, <3>2, <3>3, <3>4 DEF Spares
      <3> QED BY <2>1, <3>5, SparedStaysLinked
    <2>3. CASE m = n
      <3>1. FindWallet(n) = {} /\ (brandNew <=> n \notin OnDisk)
        BY <1>1, <1>2, <1>4, <2>1, <2>3 DEF Linked
      <3>2. FindWallet(n)' = {h}
        BY <1>4, <1>8, <3>1 DEF FindWallet, Opened
      <3>3. /\ Of(C, n) # {}
            /\ \A p, q \in Of(C, n) : p = q
            /\ \A p \in Of(C, n) : C[p].handle = None
        <4>1. CASE brandNew
          BY <1>5, <2>1, <2>3, <3>1, <4>1 DEF Linked
        <4>2. CASE ~brandNew
          BY <1>5, <2>1, <2>3, <3>1, <4>2 DEF Linked
        <4> QED BY <4>1, <4>2
      <3>4. Of(collections', n) = Of(C, n)
        BY <1>6, <3>3 DEF Opens
      <3>5. \A p \in Of(C, n) : collections'[p].handle \in {h, None}
        BY <1>6, <3>3 DEF Opens, Of
      <3>6. n \in OnDisk' /\ n \in files'
        BY <1>4 DEF OnDisk
      <3> QED BY <1>6, <2>3, <3>2, <3>3, <3>4, <3>5, <3>6 DEF Linked
    <2> QED BY <2>2, <2>3
  <1>12. Links'
    BY <1>4, <1>11 DEF IInv, Links
  <1> QED BY <1>6, <1>7, <1>9, <1>10, <1>12 DEF IInv

-----------------------------------------------------------------------------
(* The process, and wallets that close *)

LEMMA EmptyCollections == CollectionsType(Empty)
  BY FS_EmptySet DEF CollectionsType, Empty

LEMMA DieInv ==
  ASSUME IInv, Die
  PROVE  IInv'
  <1>1. /\ up' = FALSE /\ wallets' = Empty /\ collections' = Empty /\ prompts' = Empty
        /\ served' = [a \in Alias |-> None]
        /\ queue' = <<>> /\ current' = None /\ brandNew' = FALSE /\ processing' = FALSE
        /\ overtaken' = None
        /\ UNCHANGED <<files, junk, aliases, doubtful, firstUse>>
    BY DEF Die, disk
  <1>2. DOMAIN Empty = {} /\ Empty \in [{} -> Name] /\ Empty \in [{} -> PromptRecord]
    BY EmptyFacts
  <1>3. Types'
    BY <1>1, <1>2, EmptyCollections DEF IInv, Types, Opened
  <1>4. PromptTypes' /\ QueueTypes'
    <2>1. PromptTypes'
      BY <1>1, <1>2 DEF PromptTypes
    <2>2. QueueTypes'
      <3>1. queue' = <<>> /\ current' = None /\ brandNew' = FALSE /\ processing' = FALSE
        BY <1>1
      <3>2. <<>> \in Seq(Transaction)
        OBVIOUS
      <3>3. queue' \in Seq(Transaction) /\ current' \in Transaction \cup {None}
        BY <3>1, <3>2
      <3> QED BY <3>1, <3>3 DEF QueueTypes
    <2> QED BY <2>1, <2>2
  <1>5. Down' /\ Links' /\ OnAlias'
    BY <1>1, <1>2 DEF Down, Links, OnAlias, Opened
  <1> QED BY <1>3, <1>4, <1>5 DEF IInv

LEMMA StartInv ==
  ASSUME IInv, Start
  PROVE  IInv'
  <1>1. /\ ~up /\ up' = TRUE /\ aliases' = aliases /\ Register /\ doubtful' = junk
        /\ UNCHANGED <<prompts, queue, current, brandNew, processing>>
        /\ UNCHANGED <<junk, firstUse, overtaken>>
    BY DEF Start, transactions, disk, setup
  <1>2. Opened = {} /\ DOMAIN collections = {} /\ current = None
    BY <1>1 DEF IInv, Down
  <1>3. /\ files \subseteq files' /\ files' \subseteq Name /\ junk \subseteq Name \ files'
        /\ Opened' \subseteq Handle /\ wallets' \in [Opened' -> Name]
        /\ \A h, k \in Opened' : h = k
        /\ \A h \in Opened' : wallets'[h] \in files'
    <2>1. CASE UNCHANGED <<disk, wallets>>
      BY <1>2, <2>1 DEF disk, IInv, Types, Opened
    <2>2. ASSUME NEW n \in Name \ junk, NEW h \in Handle, wallets' = With(Empty, h, n),
                 files' = files \cup {n}, UNCHANGED junk
          PROVE  <1>3
      <3>1. DOMAIN wallets' = {h} /\ wallets'[h] = n /\ wallets' \in [{h} -> Name]
        BY <2>2, EmptyFacts DEF With
      <3> QED BY <2>2, <3>1 DEF IInv, Types, Opened
    <2> QED BY <2>1, <2>2 DEF Start
  <1>4. PICK names : names = files' \cup junk
    OBVIOUS
  <1>5. PICK open : open = [n \in names |->
                      IF \E h \in DOMAIN wallets' : wallets'[h] = n
                      THEN CHOOSE h \in DOMAIN wallets' : TRUE ELSE None]
    OBVIOUS
  <1>6. collections' = [p \in names \X {0} |-> [wallet |-> p[1], handle |-> open[p[1]]]]
    BY <1>4, <1>5 DEF Start
  <1>7. \A n \in names : open[n] \in FindWallet(n)' \cup {None}
    BY <1>3, <1>5 DEF FindWallet, Opened
  <1>8. /\ DOMAIN collections' = names \X {0}
        /\ \A p \in names \X {0} : collections'[p].wallet = p[1] /\ collections'[p].handle = open[p[1]]
    BY <1>6
  <1>9. names \subseteq Name
    BY <1>3, <1>4
  <1>10. CollectionsType(collections')
    <2>1. IsFiniteSet(names)
      BY <1>9, FS_Subset, ConstantsAssumption
    <2>2. PICK f : f = [n \in names |-> <<n, 0>>]
      OBVIOUS
    <2>3. names \X {0} = {f[n] : n \in names}
      BY <2>2
    <2>4. IsFiniteSet(names \X {0})
      BY <2>1, <2>2, <2>3, ImageFacts
    <2>5. names \X {0} \subseteq Path
      BY <1>9 DEF Path
    <2>6. \A p \in names \X {0} : [wallet |-> p[1], handle |-> open[p[1]]] \in Collection
      <3> SUFFICES ASSUME NEW p \in names \X {0}
                   PROVE  [wallet |-> p[1], handle |-> open[p[1]]] \in Collection
        OBVIOUS
      <3>1. p[1] \in names
        OBVIOUS
      <3>2. open[p[1]] \in Handle \cup {None}
        BY <1>3, <1>7, <3>1 DEF FindWallet, Opened
      <3> QED BY <1>9, <3>1, <3>2 DEF Collection
    <2> QED BY <1>6, <1>8, <2>4, <2>5, <2>6 DEF CollectionsType
  <1>11. served' \in [Alias -> Path \cup {None}] /\ OnAlias'
    <2>1. DOMAIN collections' \subseteq Path /\ served \in [Alias -> Path \cup {None}]
      BY <1>10 DEF CollectionsType, IInv, Types
    <2>2. \A a \in Alias : served[a] = None
      BY <1>2 DEF IInv, OnAlias
    <2> QED BY <1>1, <2>1, <2>2, RegisterFacts
  <1>12. Types'
    BY <1>1, <1>3, <1>10, <1>11 DEF IInv, Types
  <1>13. PromptTypes' /\ QueueTypes' /\ Down'
    BY <1>1 DEF IInv, PromptTypes, QueueTypes, Down
  <1>14. ASSUME NEW n \in Name \ doubtful' PROVE Linked(n)'
    <2>1. n \in names => Of(collections', n) = {<<n, 0>>}
      BY <1>8 DEF Of
    <2>2. n \notin names => Of(collections', n) = {}
      BY <1>8 DEF Of
    <2>3. OnDisk' = names
      BY <1>1, <1>4 DEF OnDisk
    <2>4. FindWallet(n)' \subseteq Opened' /\ (FindWallet(n)' # {} => n \in files')
      BY <1>3 DEF FindWallet
    <2>5. \A h, k \in FindWallet(n)' : h = k
      BY <1>3, <2>4
    <2>6. \A p \in Of(collections', n) : collections'[p].handle \in FindWallet(n)' \cup {None}
      BY <1>7, <1>8, <2>1, <2>2
    <2>7. current' = None
      BY <1>1, <1>2
    <2> QED BY <2>1, <2>2, <2>3, <2>4, <2>5, <2>6, <2>7 DEF Linked
  <1>15. Links'
    BY <1>1, <1>14 DEF Links
  <1> QED BY <1>11, <1>12, <1>13, <1>15 DEF IInv

\* Wallets H close, and their collections are told.
LEMMA LockedInv ==
  ASSUME IInv, up, NEW H, H \subseteq Opened, wallets' = Without(wallets, H),
         collections' = Lock(collections, {wallets[h] : h \in H}),
         UNCHANGED <<up, files, junk, aliases, served, prompts, doubtful, setup>>,
         UNCHANGED <<queue, current, brandNew, processing>>
  PROVE  IInv'
  <1>1. PICK N : N = {wallets[h] : h \in H}
    OBVIOUS
  <1>2. CollectionsType(collections') /\ Locks(collections, collections', N)
    BY <1>1, LockFacts DEF IInv, Types
  <1>3. /\ DOMAIN wallets' = Opened \ H /\ \A h \in Opened \ H : wallets'[h] = wallets[h]
        /\ Opened' \subseteq Handle /\ wallets' \in [Opened' -> Name]
    BY DEF Without, Opened, IInv, Types
  <1>4. Types'
    BY <1>2, <1>3 DEF IInv, Types, setup
  <1>5. PromptTypes' /\ QueueTypes' /\ Down'
    BY DEF IInv, PromptTypes, QueueTypes, Down
  <1>6. OnAlias'
    BY <1>2 DEF IInv, OnAlias, Locks, setup
  <1>7. ASSUME NEW n \in Name \ doubtful PROVE Linked(n)'
    <2>1. Linked(n)
      BY DEF IInv, Links
    <2>2. Of(collections', n) = Of(collections, n) /\ OnDisk' = OnDisk
      BY <1>2 DEF Locks, OnDisk
    <2>3. \A p \in Of(collections, n) : collections'[p].handle \in {None, collections[p].handle}
      BY <1>2 DEF Locks, Of
    <2>4. CASE n \notin N
      <3>1. FindWallet(n)' = FindWallet(n)
        BY <1>1, <1>3, <2>4 DEF FindWallet, Opened
      <3>2. Spares(n)
        BY <2>2, <2>3, <3>1 DEF Spares
      <3> QED BY <2>1, <3>2, SparedStaysLinked
    <2>5. CASE n \in N
      <3>1. FindWallet(n)' = {}
        BY <1>1, <1>3, <2>1, <2>5 DEF FindWallet, Opened, Linked
      <3>2. ASSUME NEW p \in Of(collections, n) PROVE collections'[p].handle = None
        <4>1. First(collections, n) \in Of(collections, n)
          BY FirstIsOf DEF IInv, Types, CollectionsType
        <4>2. p = First(collections, n) /\ p \in DOMAIN collections /\ collections[p].wallet = n
          BY <2>1, <4>1 DEF Linked, Of
        <4> QED BY <1>2, <2>5, <4>2 DEF Locks
      <3> QED BY <2>1, <2>2, <3>1, <3>2 DEF Linked
    <2> QED BY <2>4, <2>5
  <1>8. Links'
    BY <1>7 DEF IInv, Links
  <1> QED BY <1>4, <1>5, <1>6, <1>8 DEF IInv

LEMMA CloseInv ==
  ASSUME IInv, NEW h, Close(h)
  PROVE  IInv'
  <1>1. up /\ {h} \subseteq Opened /\ wallets' = Without(wallets, {h})
        /\ collections' = Lock(collections, {wallets[k] : k \in {h}})
    <2>1. {wallets[k] : k \in {h}} = {wallets[h]}
      OBVIOUS
    <2> QED BY <2>1 DEF Close, EventLoop
  <1>2. UNCHANGED <<up, files, junk, aliases, served, prompts, doubtful, setup>>
        /\ UNCHANGED <<queue, current, brandNew, processing>>
    BY DEF Close, disk, transactions
  <1> QED BY <1>1, <1>2, LockedInv

LEMMA WatchDirectoryInv ==
  ASSUME IInv, WatchDirectory
  PROVE  IInv'
  <1>1. PICK H : H = {h \in Opened : wallets[h] \notin OnDisk}
    OBVIOUS
  <1>2. up /\ H \subseteq Opened /\ wallets' = Without(wallets, H)
        /\ collections' = Lock(collections, {wallets[h] : h \in H})
    BY <1>1 DEF WatchDirectory, EventLoop
  <1>3. UNCHANGED <<up, files, junk, aliases, served, prompts, doubtful, setup>>
        /\ UNCHANGED <<queue, current, brandNew, processing>>
    BY DEF WatchDirectory, disk, transactions
  <1> QED BY <1>2, <1>3, LockedInv

-----------------------------------------------------------------------------
(* Calls on collections *)

LEMMA DeleteInv ==
  ASSUME IInv, NEW p, Delete(p)
  PROVE  IInv'
  <1>1. PICK n : n = collections[p].wallet
    OBVIOUS
  <1>2. up /\ p \in DOMAIN collections /\ n \in Name
    BY <1>1 DEF Delete, EventLoop, IInv, Types, CollectionsType, Collection
  <1>3. CASE Die
    BY <1>3, DieInv
  <1>4. CASE ~Die
    <2>1. /\ n \in OnDisk => FindWallet(n) # {}
          /\ aliases' = [a \in Alias |->
               IF aliases[a] = n /\ a # Default THEN None ELSE aliases[a]]
          /\ IF n \in OnDisk
             THEN \E h \in FindWallet(n) :
                    /\ wallets' = Without(wallets, {h})
                    /\ collections' = Without(collections, {p, First(collections, n)})
             ELSE UNCHANGED wallets /\ collections' = Without(collections, {p})
          /\ files' = files \ {n} /\ junk' = junk \ {n}
          /\ served' = [a \in Alias |->
               IF (aliases[a] = n /\ a # Default) \/ served[a] \notin DOMAIN collections'
               THEN None ELSE served[a]]
          /\ overtaken' = IF overtaken \in DOMAIN collections' THEN overtaken ELSE None
          /\ UNCHANGED <<up, prompts, queue, current, brandNew, processing, doubtful, firstUse>>
      BY <1>1, <1>4 DEF Delete, transactions
    <2>2. PICK S : /\ collections' = Without(collections, S) /\ p \in S
                   /\ S \subseteq Of(collections, n)
                   /\ n \in OnDisk => First(collections, n) \in S
      <3>1. p \in Of(collections, n)
        BY <1>1, <1>2 DEF Of
      <3>2. First(collections, n) \in Of(collections, n)
        BY <3>1, FirstIsOf DEF IInv, Types, CollectionsType
      <3>3. CASE n \in OnDisk
        <4>1. collections' = Without(collections, {p, First(collections, n)})
          BY <2>1, <3>3
        <4>2. {p, First(collections, n)} \subseteq Of(collections, n)
          BY <3>1, <3>2
        <4> QED BY <4>1, <4>2
      <3>4. CASE n \notin OnDisk
        <4>1. collections' = Without(collections, {p}) /\ {p} \subseteq Of(collections, n)
          BY <2>1, <3>1, <3>4
        <4> QED BY <3>4, <4>1
      <3> QED BY <3>3, <3>4
    <2>3. PICK H : H \subseteq FindWallet(n) /\ wallets' = Without(wallets, H)
                   /\ (n \in OnDisk => H # {})
      <3>1. wallets = Without(wallets, {})
        BY DEF Without, IInv, Types, Opened
      <3>2. CASE n \in OnDisk
        <4>1. PICK h \in FindWallet(n) : wallets' = Without(wallets, {h})
          BY <2>1, <3>2
        <4> QED BY <4>1
      <3>3. CASE n \notin OnDisk
        <4>1. wallets' = Without(wallets, {}) /\ {} \subseteq FindWallet(n)
          BY <2>1, <3>1, <3>3
        <4> QED BY <3>3, <4>1
      <3> QED BY <3>2, <3>3
    <2>4. /\ DOMAIN collections' = DOMAIN collections \ S
          /\ \A r \in DOMAIN collections' : collections'[r] = collections[r]
          /\ CollectionsType(collections')
      <3>1. /\ DOMAIN collections' = DOMAIN collections \ S
            /\ \A r \in DOMAIN collections' : collections'[r] = collections[r]
            /\ collections' = [r \in DOMAIN collections' |-> collections'[r]]
        BY <2>2 DEF Without
      <3>2. IsFiniteSet(DOMAIN collections')
        BY <3>1, FS_Subset DEF IInv, Types, CollectionsType
      <3>3. collections' \in [DOMAIN collections' -> Collection]
        BY <3>1 DEF IInv, Types, CollectionsType
      <3> QED BY <3>1, <3>2, <3>3 DEF CollectionsType, IInv, Types
    <2>5. /\ DOMAIN wallets' = Opened \ H /\ \A h \in Opened \ H : wallets'[h] = wallets[h]
          /\ Opened' \subseteq Handle /\ wallets' \in [Opened' -> Name]
      BY <2>3 DEF Without, Opened, IInv, Types
    <2>6. /\ \A a \in Alias : served'[a] # None =>
               /\ served'[a] = served[a] /\ served[a] \in DOMAIN collections'
               /\ aliases'[a] = aliases[a]
          /\ served' \in [Alias -> Path \cup {None}]
      BY <2>1 DEF IInv, Types
    <2>7. OnAlias'
      BY <2>1, <2>4, <2>6 DEF IInv, OnAlias
    <2>8. aliases' \in [Alias -> Name \cup {None}]
      BY <2>1 DEF IInv, Types
    <2>9. Types'
      BY <2>1, <2>4, <2>5, <2>6, <2>8 DEF IInv, Types
    <2>10. PromptTypes' /\ QueueTypes' /\ Down'
      BY <1>2, <2>1 DEF IInv, PromptTypes, QueueTypes, Down
    <2>11. ASSUME NEW m \in Name \ doubtful PROVE Linked(m)'
      <3>1. Linked(m)
        BY <1>2 DEF IInv, Links
      <3>2. CASE m # n
        <4>1. Of(collections', m) = Of(collections, m)
          BY <2>2, <2>4, <3>2 DEF Of
        <4>2. FindWallet(m)' = FindWallet(m)
          BY <2>3, <2>5, <3>2 DEF FindWallet, Opened
        <4>3. m \in OnDisk' <=> m \in OnDisk
          BY <2>1, <3>2 DEF OnDisk
        <4>4. \A r \in Of(collections, m) : collections'[r] = collections[r]
          BY <2>4, <4>1 DEF Of
        <4>5. Spares(m)
          BY <2>1, <3>2, <4>1, <4>2, <4>3, <4>4 DEF Spares
        <4> QED BY <3>1, <4>5, SparedStaysLinked
      <3>3. CASE m = n
        <4>1. p \in Of(collections, n) /\ n \in OnDisk
          BY <1>1, <1>2, <3>1, <3>3 DEF Linked, Of
        <4>2. FindWallet(n) # {} /\ (current # None => current.wallet # n)
          BY <2>1, <3>1, <3>3, <4>1 DEF Linked
        <4>3. FindWallet(n)' = {}
          BY <2>3, <2>5, <3>1, <3>3, <4>1 DEF FindWallet, Opened, Linked
        <4>4. Of(collections', n) = {}
          <5>1. Of(collections, n) \subseteq S
            BY <2>2, <3>1, <3>3, <4>1 DEF Linked
          <5> QED BY <2>4, <5>1 DEF Of
        <4>5. n \notin OnDisk'
          BY <2>1 DEF OnDisk
        <4> QED BY <2>1, <3>3, <4>2, <4>3, <4>4, <4>5 DEF Linked
      <3> QED BY <3>2, <3>3
    <2>12. Links'
      BY <2>1, <2>11 DEF IInv, Links
    <2> QED BY <2>7, <2>9, <2>10, <2>12 DEF IInv
  <1> QED BY <1>3, <1>4

LEMMA SetAliasInv ==
  ASSUME IInv, NEW a \in Alias, NEW p, SetAlias(a, p)
  PROVE  IInv'
  <1>1. PICK n : n = collections[p].wallet
    OBVIOUS
  <1>2. up /\ p \in DOMAIN collections /\ p \in Path /\ n \in Name
    BY <1>1 DEF SetAlias, EventLoop, IInv, Types, CollectionsType, Collection
  <1>3. PICK free \in BOOLEAN :
          free = (served[a] = None \/ (aliases[a] # None /\ Of(collections, aliases[a]) # {}))
    OBVIOUS
  <1>0. PICK new : new = IF free THEN p ELSE served[a]
    OBVIOUS
  <1>4. /\ aliases' = [aliases EXCEPT ![a] = n] /\ served' = [served EXCEPT ![a] = new]
        /\ overtaken' = IF a = Default /\ free THEN None ELSE overtaken
        /\ UNCHANGED <<up, files, junk, wallets, collections, doubtful, firstUse>>
        /\ UNCHANGED <<prompts, queue, current, brandNew, processing>>
    BY <1>0, <1>1, <1>3 DEF SetAlias, disk, transactions, IInv, Types
  <1>5. ASSUME new # None
        PROVE  /\ new \in DOMAIN collections
               /\ \/ collections[new].wallet \in {n} \cup doubtful
                  \/ a = Default /\ new = overtaken'
    <2>1. CASE free
      BY <1>0, <1>1, <1>2, <2>1
    <2>2. CASE ~free
      <3>1. new = served[a] /\ ~(aliases[a] # None /\ Of(collections, aliases[a]) # {})
            /\ overtaken' = overtaken
        BY <1>0, <1>3, <1>4, <2>2
      <3>2. /\ new \in DOMAIN collections
            /\ \/ collections[new].wallet \in {aliases[a]} \cup doubtful
               \/ a = Default /\ new = overtaken
        BY <1>5, <3>1 DEF IInv, OnAlias
      <3>3. collections[new].wallet # None
        BY <3>2, ConstantsAssumption DEF IInv, Types, CollectionsType, Collection
      <3>4. collections[new].wallet = aliases[a] => new \in Of(collections, aliases[a])
        BY <3>2 DEF Of
      <3> QED BY <3>1, <3>2, <3>3, <3>4
    <2> QED BY <2>1, <2>2
  <1>6. OnAlias'
    <2>1. ASSUME NEW b \in Alias, served'[b] # None
          PROVE  /\ served'[b] \in DOMAIN collections
                 /\ \/ collections[served'[b]].wallet \in {aliases'[b]} \cup doubtful
                    \/ b = Default /\ served'[b] = overtaken'
      <3>1. CASE b = a
        <4>1. served'[b] = new /\ aliases'[b] = n
          BY <1>4, <3>1 DEF IInv, Types
        <4> QED BY <1>5, <2>1, <3>1, <4>1
      <3>2. CASE b # a
        <4>1. served'[b] = served[b] /\ aliases'[b] = aliases[b]
          BY <1>4, <3>2 DEF IInv, Types
        <4>2. b = Default => overtaken' = overtaken
          BY <1>4, <3>2
        <4> QED BY <2>1, <4>1, <4>2 DEF IInv, OnAlias
      <3> QED BY <3>1, <3>2
    <2> QED BY <1>4, <2>1 DEF OnAlias
  <1>7. Types'
    <2>1. new \in Path \cup {None}
      BY <1>5 DEF IInv, Types, CollectionsType
    <2> QED BY <1>2, <1>4, <2>1 DEF IInv, Types, CollectionsType, Opened
  <1>8. PromptTypes' /\ QueueTypes' /\ Down'
    BY <1>2, <1>4 DEF IInv, PromptTypes, QueueTypes, Down
  <1>9. Links'
    BY <1>4, LinksSpared DEF IInv
  <1> QED BY <1>6, <1>7, <1>8, <1>9 DEF IInv

LEMMA ExternalRemoveInv ==
  ASSUME IInv, NEW n \in Name, ExternalRemove(n)
  PROVE  IInv'
  <1>1. /\ files' = files \ {n} /\ junk' = junk \ {n}
        /\ doubtful' = doubtful \cup (IF up THEN {n} ELSE {})
        /\ UNCHANGED <<up, wallets, collections, aliases, served, prompts, firstUse, overtaken>>
        /\ UNCHANGED <<queue, current, brandNew, processing>>
    BY DEF ExternalRemove, Doubt, service, transactions, setup
  <1>2. Types' /\ OnAlias'
    BY <1>1 DEF IInv, Types, OnAlias, CollectionsType, Opened
  <1>3. PromptTypes' /\ QueueTypes' /\ Down'
    BY <1>1 DEF IInv, PromptTypes, QueueTypes, Down, Opened
  <1>4. ASSUME up, NEW m \in Name \ doubtful' PROVE Linked(m)'
    <2>1. Linked(m) /\ m # n
      BY <1>1, <1>4 DEF IInv, Links
    <2>2. Spares(m)
      BY <1>1, <2>1 DEF Spares, OnDisk, FindWallet, Opened, Of
    <2> QED BY <2>1, <2>2, SparedStaysLinked
  <1>5. Links'
    BY <1>1, <1>4 DEF IInv, Links
  <1> QED BY <1>2, <1>3, <1>5 DEF IInv

\* A rename that takes its collection along; the old file goes, or stays when
\* QFile::rename() fails, which makes the old name doubtful.
LEMMA RenamedInv ==
  ASSUME IInv, up, NEW p \in DOMAIN collections, NEW o \in Name, o = collections[p].wallet,
         NEW h \in FindWallet(o), NEW n \in Name \ {o}, n \notin OnDisk, o \in files,
         wallets' = [wallets EXCEPT ![h] = n],
         collections' = [collections EXCEPT ![p].wallet = n],
         aliases' = Follow(o, n),
         HandedOn(o, n) \subseteq doubtful', doubtful \subseteq doubtful', doubtful' \subseteq Name,
         files' = (files \ {o}) \cup {n} \/ (files' = files \cup {n} /\ o \in doubtful'),
         UNCHANGED <<up, junk, served, prompts, queue, current, brandNew, processing, setup>>
  PROVE  IInv'
  <1>1. collections[p] \in Collection
    BY DEF IInv, Types, CollectionsType
  <1>2. PICK c : c = [collections[p] EXCEPT !.wallet = n]
    OBVIOUS
  <1>3. c \in Collection /\ c.wallet = n /\ c.handle = collections[p].handle
    BY <1>1, <1>2 DEF Collection
  <1>4. /\ DOMAIN collections' = DOMAIN collections /\ collections'[p] = c
        /\ \A r \in DOMAIN collections \ {p} : collections'[r] = collections[r]
        /\ collections' = [r \in DOMAIN collections |-> collections'[r]]
    BY <1>2 DEF IInv, Types, CollectionsType
  <1>5. CollectionsType(collections')
    <2>1. \A r \in DOMAIN collections : collections'[r] \in Collection
      BY <1>3, <1>4 DEF IInv, Types, CollectionsType
    <2>2. collections' \in [DOMAIN collections' -> Collection]
      BY <1>4, <2>1
    <2> QED BY <1>4, <2>2 DEF IInv, Types, CollectionsType
  <1>6. /\ h \in Opened /\ wallets[h] = o
        /\ DOMAIN wallets' = Opened /\ wallets'[h] = n
        /\ \A k \in Opened \ {h} : wallets'[k] = wallets[k]
        /\ wallets' \in [Opened' -> Name] /\ Opened' = Opened
    BY DEF FindWallet, Opened, IInv, Types
  <1>7. aliases' \in [Alias -> Name \cup {None}]
        /\ \A a \in Alias : aliases'[a] = IF aliases[a] = o THEN n ELSE aliases[a]
    BY DEF Follow, IInv, Types
  <1>8. Types'
    BY <1>5, <1>6, <1>7 DEF IInv, Types, OnDisk, setup
  <1>9. PromptTypes' /\ QueueTypes' /\ Down'
    BY DEF IInv, PromptTypes, QueueTypes, Down
  <1>10. o \in doubtful => n \in doubtful'
    BY DEF HandedOn
  <1>11. p \in Of(collections, o)
    BY DEF Of
  <1>12. ASSUME NEW a \in Alias, served[a] # None
         PROVE  \/ collections'[served[a]].wallet \in {aliases'[a]} \cup doubtful'
                \/ a = Default /\ served[a] = overtaken
    <2>1. /\ served[a] \in DOMAIN collections
          /\ \/ collections[served[a]].wallet \in {aliases[a]} \cup doubtful
             \/ a = Default /\ served[a] = overtaken
      BY <1>12 DEF IInv, OnAlias
    <2>2. CASE served[a] = p
      BY <1>3, <1>4, <1>7, <1>10, <2>1, <2>2
    <2>3. CASE served[a] # p /\ collections[served[a]].wallet = o
      <3>1. served[a] \in Of(collections, o)
        BY <2>1, <2>3 DEF Of
      <3>2. o \in doubtful
        BY <1>11, <2>3, <3>1 DEF IInv, Links, Linked
      <3> QED BY <1>4, <2>1, <2>3, <3>2
    <2>4. CASE served[a] # p /\ collections[served[a]].wallet # o
      BY <1>4, <1>7, <2>1, <2>4
    <2> QED BY <2>2, <2>3, <2>4
  <1>13. OnAlias'
    BY <1>4, <1>12 DEF IInv, OnAlias, setup
  <1>14. ASSUME NEW m \in Name \ doubtful' PROVE Linked(m)'
    <2>1. Linked(m)
      BY DEF IInv, Links
    <2>2. CASE m # o /\ m # n
      <3>1. Of(collections', m) = Of(collections, m)
        BY <1>3, <1>4, <2>2 DEF Of
      <3>2. \A r \in Of(collections, m) : collections'[r] = collections[r]
        BY <1>4, <2>2 DEF Of
      <3>3. FindWallet(m)' = FindWallet(m)
        BY <1>6, <2>2 DEF FindWallet, Opened
      <3>4. m \in files' <=> m \in files
        BY <2>2
      <3>5. Spares(m)
        BY <3>1, <3>2, <3>3, <3>4 DEF Spares, OnDisk
      <3> QED BY <2>1, <3>5, SparedStaysLinked
    <2>3. CASE m = o
      <3>1. files' = (files \ {o}) \cup {n} /\ o \notin junk
        BY <2>3 DEF IInv, Types
      <3>2. o \notin OnDisk' /\ FindWallet(o) # {}
        BY <3>1 DEF OnDisk
      <3>3. Of(collections', o) = {}
        BY <1>3, <1>4, <1>11, <2>1, <2>3 DEF Of, Linked
      <3>4. FindWallet(o)' = {}
        BY <1>6, <2>1, <2>3 DEF FindWallet, Opened, Linked
      <3>5. ~(current # None /\ current.wallet = o)
        BY <2>1, <2>3, <3>2 DEF Linked
      <3> QED BY <2>3, <3>2, <3>3, <3>4, <3>5 DEF Linked
    <2>4. CASE m = n
      <3>1. o \notin doubtful /\ ~(current # None /\ current.wallet = n)
        BY <2>4 DEF HandedOn
      <3>2. Linked(o)
        BY <3>1 DEF IInv, Links
      <3>3. Of(collections, n) = {} /\ FindWallet(n) = {}
        BY <2>1, <2>4 DEF Linked, OnDisk
      <3>4. Of(collections', n) = {p}
        BY <1>3, <1>4, <3>3 DEF Of
      <3>5. FindWallet(n)' = {h}
        BY <1>6, <3>3 DEF FindWallet, Opened
      <3>6. collections'[p].handle \in {h, None}
        BY <1>3, <1>4, <1>11, <3>2 DEF Linked
      <3>7. n \in files' /\ n \in OnDisk'
        BY DEF OnDisk
      <3> QED BY <2>4, <3>1, <3>4, <3>5, <3>6, <3>7 DEF Linked
    <2> QED BY <2>2, <2>3, <2>4
  <1>15. Links'
    BY <1>14 DEF IInv, Links
  <1> QED BY <1>8, <1>9, <1>13, <1>15 DEF IInv

\* A rename whose collection is not told, because the wallet cannot be opened
\* again: both names are doubtful.
LEMMA HalfRenamedInv ==
  ASSUME IInv, up, NEW o \in Name, NEW h \in FindWallet(o), NEW n \in Name, n \notin OnDisk,
         o \in files, wallets' = [wallets EXCEPT ![h] = n],
         files' = (files \ {o}) \cup {n}, doubtful' = doubtful \cup {o, n},
         UNCHANGED <<collections, aliases>>,
         UNCHANGED <<up, junk, served, prompts, queue, current, brandNew, processing, setup>>
  PROVE  IInv'
  <1>1. /\ h \in Opened /\ wallets[h] = o
        /\ DOMAIN wallets' = Opened /\ wallets'[h] = n
        /\ \A k \in Opened \ {h} : wallets'[k] = wallets[k]
        /\ wallets' \in [Opened' -> Name] /\ Opened' = Opened
    BY DEF FindWallet, Opened, IInv, Types
  <1>2. Types' /\ OnAlias'
    BY <1>1 DEF IInv, Types, OnAlias, CollectionsType, OnDisk, setup
  <1>3. PromptTypes' /\ QueueTypes' /\ Down'
    BY DEF IInv, PromptTypes, QueueTypes, Down
  <1>4. ASSUME NEW m \in Name \ doubtful' PROVE Linked(m)'
    <2>1. Linked(m) /\ m # o /\ m # n
      BY DEF IInv, Links
    <2>2. FindWallet(m)' = FindWallet(m)
      BY <1>1, <2>1 DEF FindWallet, Opened
    <2>3. m \in files' <=> m \in files
      BY <2>1
    <2>4. Spares(m)
      BY <2>2, <2>3 DEF Spares, OnDisk, Of
    <2> QED BY <2>1, <2>4, SparedStaysLinked
  <1>5. Links'
    BY <1>4 DEF IInv, Links
  <1> QED BY <1>2, <1>3, <1>5 DEF IInv

LEMMA SetLabelInv ==
  ASSUME IInv, NEW p \in DOMAIN collections, NEW label \in Labels, SetLabel(p, label)
  PROVE  IInv'
  <1>1. PICK o \in Name : o = collections[p].wallet
    BY DEF IInv, Types, CollectionsType, Collection
  <1>2. up
    BY DEF SetLabel, EventLoop
  <1>3. CASE Die
    BY <1>3, DieInv
  <1>4. CASE ~Die
    <2>1. PICK h \in FindWallet(o), n \in UniqueNames(label) \ {o} :
          /\ o \in files
          /\ wallets' = [wallets EXCEPT ![h] = n]
          /\ \/ /\ files' = (files \ {o}) \cup {n}
                /\ collections' = [collections EXCEPT ![p].wallet = n]
                /\ aliases' = Follow(o, n)
                /\ Doubt(HandedOn(o, n))
             \/ /\ files' = (files \ {o}) \cup {n}
                /\ Doubt({o, n})
                /\ UNCHANGED <<collections, aliases>>
             \/ /\ files' = files \cup {n}
                /\ collections' = [collections EXCEPT ![p].wallet = n]
                /\ aliases' = Follow(o, n)
                /\ Doubt({o} \cup HandedOn(o, n))
          /\ UNCHANGED <<up, junk, served, prompts, transactions, setup>>
      BY <1>1, <1>4 DEF SetLabel
    <2>2. n \in Name \ {o} /\ n \notin OnDisk
      BY ConstantsAssumption DEF UniqueNames
    <2>3. HandedOn(o, n) \subseteq Name /\ doubtful \subseteq Name
      BY <2>2 DEF HandedOn, IInv, Types
    <2>4. UNCHANGED <<up, junk, served, prompts, queue, current, brandNew, processing, setup>>
      BY <2>1 DEF transactions
    <2>5. CASE /\ files' = (files \ {o}) \cup {n}
               /\ collections' = [collections EXCEPT ![p].wallet = n]
               /\ aliases' = Follow(o, n)
               /\ Doubt(HandedOn(o, n))
      <3>1. HandedOn(o, n) \subseteq doubtful' /\ doubtful \subseteq doubtful' /\ doubtful' \subseteq Name
        BY <2>3, <2>5 DEF Doubt
      <3> QED BY <1>1, <1>2, <2>1, <2>2, <2>4, <2>5, <3>1, RenamedInv
    <2>6. CASE /\ files' = (files \ {o}) \cup {n}
               /\ Doubt({o, n})
               /\ UNCHANGED <<collections, aliases>>
      <3>1. doubtful' = doubtful \cup {o, n}
        BY <2>6 DEF Doubt
      <3> QED BY <1>2, <2>1, <2>2, <2>4, <2>6, <3>1, HalfRenamedInv
    <2>7. CASE /\ files' = files \cup {n}
               /\ collections' = [collections EXCEPT ![p].wallet = n]
               /\ aliases' = Follow(o, n)
               /\ Doubt({o} \cup HandedOn(o, n))
      <3>1. /\ HandedOn(o, n) \subseteq doubtful' /\ doubtful \subseteq doubtful'
            /\ doubtful' \subseteq Name /\ o \in doubtful'
        BY <2>3, <2>7 DEF Doubt
      <3> QED BY <1>1, <1>2, <2>1, <2>2, <2>4, <2>7, <3>1, RenamedInv
    <2> QED BY <2>1, <2>5, <2>6, <2>7
  <1> QED BY <1>3, <1>4

-----------------------------------------------------------------------------
(* The invariant holds *)

LEMMA InitIInv == Init => IInv
  <1> SUFFICES ASSUME Init PROVE IInv
    OBVIOUS
  <1>1. /\ up = FALSE /\ files \subseteq Name /\ junk \subseteq Name \ files
        /\ wallets = Empty /\ collections = Empty /\ prompts = Empty
        /\ aliases \in [Alias -> Name \cup {None}] /\ served = [a \in Alias |-> None]
        /\ queue = <<>> /\ current = None /\ brandNew = FALSE /\ processing = FALSE
        /\ doubtful = {} /\ firstUse \in BOOLEAN /\ overtaken = None
    <2>1. junk \in IF "junk" \in Faults THEN SUBSET (Name \ files) ELSE {{}}
      BY DEF Init
    <2>2. junk \subseteq Name \ files
      BY <2>1
    <2>3. firstUse \in BOOLEAN
      BY DEF Init
    <2> QED BY <2>2, <2>3 DEF Init
  <1>2. DOMAIN Empty = {} /\ Empty \in [{} -> Name] /\ Empty \in [{} -> PromptRecord]
    BY EmptyFacts
  <1>3. Types
    BY <1>1, <1>2, EmptyCollections DEF Types, Opened
  <1>4. PromptTypes
    BY <1>1, <1>2 DEF PromptTypes
  <1>5. QueueTypes
    <2>1. <<>> \in Seq(Transaction)
      OBVIOUS
    <2>2. queue \in Seq(Transaction) /\ current \in Transaction \cup {None}
      BY <1>1, <2>1
    <2>3. brandNew = FALSE /\ processing = FALSE
      BY <1>1
    <2> QED BY <2>2, <2>3 DEF QueueTypes
  <1>6. Down /\ Links /\ OnAlias
    BY <1>1, <1>2 DEF Down, Links, OnAlias, Opened
  <1> QED BY <1>3, <1>4, <1>5, <1>6 DEF IInv

LEMMA StutterIInv == IInv /\ UNCHANGED vars => IInv'
  <1> SUFFICES ASSUME IInv, UNCHANGED vars PROVE IInv'
    OBVIOUS
  <1>1. UNCHANGED <<up, files, junk, wallets, collections, aliases, served, prompts, doubtful, setup>>
        /\ UNCHANGED <<queue, current, brandNew, processing>>
    BY DEF vars, disk, service, transactions
  <1>2. PromptTypes' /\ QueueTypes'
    BY <1>1 DEF IInv, PromptTypes, QueueTypes
  <1> QED BY <1>1, <1>2, StoreSpared DEF IInv

LEMMA NextIInv == IInv /\ [Next]_vars => IInv'
  <1> SUFFICES ASSUME IInv, Next PROVE IInv'
    BY StutterIInv
  <1>1. CASE Begin
    BY <1>1, BeginDialogInv, BeginFoundInv DEF Begin
  <1>2. CASE DialogEnds
    BY <1>2, CancelInv, AcceptInv DEF DialogEnds
  <1>3. CASE PromptCalls
    <2>1. PICK q \in Prompt :
            \/ \E k \in 1 .. MaxObjects[q] : \E objects \in [1 .. k -> DOMAIN collections] :
                 CallUnlock(q, objects)
            \/ \E label \in Name, a \in Alias \cup {None} : CallCreateCollection(q, label, a)
            \/ \E w \in WId : CallPrompt(q, w)
            \/ CallDismiss(q)
      BY <1>3 DEF PromptCalls
    <2>2. ASSUME NEW k \in 1 .. MaxObjects[q], NEW objects \in [1 .. k -> DOMAIN collections],
                 CallUnlock(q, objects)
          PROVE  IInv'
      <3>1. k \in Nat
        OBVIOUS
      <3> QED BY <2>2, <3>1, CallUnlockInv
    <2> QED BY <2>1, <2>2, CallCreateCollectionInv, CallPromptInv, CallDismissInv
  <1>4. CASE CollectionCalls
    BY <1>4, DeleteInv, SetLabelInv, SetAliasInv DEF CollectionCalls
  <1>5. CASE DaemonCalls
    BY <1>5, CloseInv, OtherOpenInv DEF DaemonCalls
  <1>6. CASE WatchDirectory
    BY <1>6, WatchDirectoryInv
  <1>7. CASE Start
    BY <1>7, StartInv
  <1>8. CASE Kill
    BY <1>8, DieInv DEF Kill
  <1>9. CASE \E n \in Name : ExternalRemove(n)
    BY <1>9, ExternalRemoveInv
  <1> QED BY <1>1, <1>2, <1>3, <1>4, <1>5, <1>6, <1>7, <1>8, <1>9 DEF Next

LEMMA Invariant == Spec => []IInv
  BY InitIInv, NextIInv, PTL DEF Spec

-----------------------------------------------------------------------------
(* The theorems *)

\* Of each wallet there is exactly one collection, however createCollection(),
\* setLabel(), Delete() and the prompts of several clients mix.
THEOREM CollectionsMatchFiles == Spec => []CollectionsAreWallets
  <1>1. IInv => CollectionsAreWallets
    <2> SUFFICES ASSUME IInv, up, NEW n \in Name \ doubtful
                 PROVE  Cardinality(Of(collections, n)) = IF n \in OnDisk THEN 1 ELSE 0
      BY DEF CollectionsAreWallets
    <2>1. Linked(n)
      BY DEF IInv, Links
    <2>2. CASE n \in OnDisk
      <3>1. PICK p : p \in Of(collections, n)
        BY <2>1, <2>2 DEF Linked
      <3>2. Of(collections, n) = {p}
        BY <2>1, <3>1 DEF Linked
      <3> QED BY <2>2, <3>2, FS_Singleton
    <2>3. CASE n \notin OnDisk
      <3>1. Of(collections, n) = {}
        BY <2>1, <2>3 DEF Linked
      <3> QED BY <2>3, <3>1, FS_EmptySet
    <2> QED BY <2>2, <2>3
  <1> QED BY <1>1, Invariant, PTL

\* m_handle of a collection is that of its own open wallet, or none.
THEOREM HandlesAreFresh == Spec => []NoStaleHandle
  <1>1. IInv => NoStaleHandle
    <2> SUFFICES ASSUME IInv, NEW p \in DOMAIN collections,
                        collections[p].handle # None, collections[p].wallet \notin doubtful
                 PROVE  /\ collections[p].handle \in Opened
                        /\ wallets[collections[p].handle] = collections[p].wallet
      BY DEF NoStaleHandle
    <2>1. PICK n \in Name \ doubtful : n = collections[p].wallet
      BY DEF IInv, Types, CollectionsType, Collection
    <2>2. up
      BY DEF IInv, Down
    <2>3. p \in Of(collections, n) /\ Linked(n)
      BY <2>1, <2>2 DEF Of, IInv, Links
    <2>4. collections[p].handle \in FindWallet(n)
      BY <2>3 DEF Linked
    <2> QED BY <2>1, <2>4 DEF FindWallet
  <1> QED BY <1>1, Invariant, PTL

\* The bus and ReadAlias() agree on the collection of an alias, but for the old
\* default that an open on first use leaves there.
THEOREM BusFollowsAliases == Spec => []AliasesAgree
  <1>1. IInv => AliasesAgree
    <2> SUFFICES ASSUME IInv, NEW a \in Alias, served[a] # None
                 PROVE  /\ served[a] \in DOMAIN collections
                        /\ \/ served[a] = ReadAlias(a)
                           \/ collections[served[a]].wallet \in doubtful
                           \/ a = Default /\ served[a] = overtaken
      BY DEF AliasesAgree
    <2>1. /\ served[a] \in DOMAIN collections
          /\ \/ collections[served[a]].wallet \in {aliases[a]} \cup doubtful
             \/ a = Default /\ served[a] = overtaken
      BY DEF IInv, OnAlias
    <2>2. ASSUME collections[served[a]].wallet \notin doubtful,
                 ~(a = Default /\ served[a] = overtaken)
          PROVE  served[a] = ReadAlias(a)
      <3>1. PICK n \in Name \ doubtful : n = collections[served[a]].wallet /\ aliases[a] = n
        BY <2>1, <2>2 DEF IInv, Types, CollectionsType, Collection
      <3>2. n # None
        BY <3>1, ConstantsAssumption
      <3>3. up
        BY <2>1 DEF IInv, Down
      <3>4. served[a] \in Of(collections, n) /\ Linked(n)
        BY <2>1, <3>1, <3>3 DEF Of, IInv, Links
      <3>5. First(collections, n) \in Of(collections, n)
        BY <3>4, FirstIsOf DEF IInv, Types, CollectionsType
      <3>6. served[a] = First(collections, n)
        BY <3>4, <3>5 DEF Linked
      <3> QED BY <3>1, <3>2, <3>4, <3>6 DEF ReadAlias
    <2> QED BY <2>1, <2>2
  <1> QED BY <1>1, Invariant, PTL
====
