------------------------ MODULE SecretPromptsProofs ------------------------
(* Theorems about the prompts of SecretService: what they wait for, and when *)
(* they complete.                                                            *)
EXTENDS SecretServiceProofs

-----------------------------------------------------------------------------
(* Counting the transactions of a prompt *)

Places(s, q) == {i \in DOMAIN s : s[i].prompt = q}
Count(s, q) == Cardinality(Places(s, q))
Shown(q) == IF current # None /\ current.prompt = q THEN 1 ELSE 0

LEMMA PlacesFinite ==
  ASSUME NEW s \in Seq(Transaction), NEW q
  PROVE  IsFiniteSet(Places(s, q)) /\ Count(s, q) \in Nat
  <1>1. IsFiniteSet(1 .. Len(s))
    BY FS_Interval
  <1>2. Places(s, q) \subseteq 1 .. Len(s)
    BY DEF Places
  <1>3. IsFiniteSet(Places(s, q))
    BY <1>1, <1>2, FS_Subset
  <1> QED BY <1>3, FS_CardinalityType DEF Count

LEMMA OutstandingIs ==
  ASSUME NEW q
  PROVE  Outstanding(q) = Count(queue, q) + Shown(q)
  BY DEF Outstanding, Count, Places, Shown

LEMMA CountZero ==
  ASSUME NEW s \in Seq(Transaction), NEW q
  PROVE  /\ Count(s, q) = 0 <=> \A i \in DOMAIN s : s[i].prompt # q
         /\ (\A i \in DOMAIN s : s[i].prompt = q) => Count(s, q) = Len(s)
  <1>1. Count(s, q) = 0 <=> Places(s, q) = {}
    BY PlacesFinite, FS_EmptySet DEF Count
  <1>2. (\A i \in DOMAIN s : s[i].prompt = q) => Places(s, q) = 1 .. Len(s)
    BY DEF Places
  <1>3. Cardinality(1 .. Len(s)) = Len(s)
    <2>1. PICK k \in Nat : k = Len(s)
      OBVIOUS
    <2>2. Cardinality(1 .. k) = IF 1 > k THEN 0 ELSE k - 1 + 1
      BY FS_Interval
    <2>3. Cardinality(1 .. k) = k
      BY <2>2
    <2> QED BY <2>1, <2>3
  <1> QED BY <1>1, <1>2, <1>3 DEF Places, Count

LEMMA CountConcat ==
  ASSUME NEW s \in Seq(Transaction), NEW t \in Seq(Transaction), NEW q
  PROVE  Count(s \o t, q) = Count(s, q) + Count(t, q)
  <1>1. PICK k \in Nat, l \in Nat : k = Len(s) /\ l = Len(t)
    OBVIOUS
  <1>2. PICK S, T : S = Places(s, q) /\ T = Places(t, q)
    OBVIOUS
  <1>3. IsFiniteSet(S) /\ IsFiniteSet(T)
    BY <1>2, PlacesFinite
  <1>4. PICK f : f = [i \in T |-> k + i]
    OBVIOUS
  <1>5. PICK U : U = {f[i] : i \in T}
    OBVIOUS
  <1>6. T \subseteq 1 .. l /\ S \subseteq 1 .. k
    BY <1>1, <1>2 DEF Places
  <1>7. \A x, y \in T : f[x] = f[y] => x = y
    BY <1>4, <1>6
  <1>8. IsFiniteSet(U) /\ Cardinality(U) = Cardinality(T)
    BY <1>3, <1>4, <1>5, <1>7, ImageFacts
  <1>9. PICK u : u = s \o t
    OBVIOUS
  <1>10. /\ DOMAIN u = 1 .. k + l
         /\ \A i \in 1 .. k : u[i] = s[i]
         /\ \A i \in 1 .. l : u[k + i] = t[i]
    BY <1>1, <1>9
  <1>11. Places(u, q) = S \cup U
    <2>1. \A i \in 1 .. k : i \in Places(u, q) <=> i \in S
      BY <1>1, <1>2, <1>10 DEF Places
    <2>2. \A i \in 1 .. l : k + i \in Places(u, q) <=> i \in T
      BY <1>1, <1>2, <1>10 DEF Places
    <2>3. Places(u, q) \subseteq 1 .. k + l
      BY <1>10 DEF Places
    <2>4. U \subseteq Places(u, q)
      BY <1>4, <1>5, <1>6, <2>2
    <2>5. S \subseteq Places(u, q)
      BY <1>6, <2>1
    <2>6. ASSUME NEW i \in Places(u, q) PROVE i \in S \cup U
      <3>1. CASE i \in 1 .. k
        BY <2>1, <2>6, <3>1
      <3>2. CASE i \notin 1 .. k
        <4>1. PICK j \in 1 .. l : i = k + j
          <5>1. i \in 1 .. k + l /\ i - k \in 1 .. l /\ i = k + (i - k)
            BY <2>3, <2>6, <3>2
          <5> QED BY <5>1
        <4>2. j \in T
          BY <2>2, <2>6, <4>1
        <4> QED BY <1>4, <1>5, <4>1, <4>2
      <3> QED BY <3>1, <3>2
    <2> QED BY <2>4, <2>5, <2>6
  <1>12. S \cap U = {}
    BY <1>4, <1>5, <1>6
  <1>13. Cardinality(S \cup U) = Cardinality(S) + Cardinality(U) - Cardinality(S \cap U)
    BY <1>3, <1>8, FS_Union
  <1>14. Cardinality(S \cap U) = 0
    BY <1>12, FS_EmptySet
  <1>15. Cardinality(S) \in Nat /\ Cardinality(U) \in Nat
    BY <1>3, <1>8, FS_CardinalityType
  <1> QED BY <1>2, <1>8, <1>9, <1>11, <1>13, <1>14, <1>15 DEF Count

LEMMA CountTail ==
  ASSUME NEW s \in Seq(Transaction), s # <<>>, NEW q
  PROVE  Count(s, q) = Count(Tail(s), q) + (IF Head(s).prompt = q THEN 1 ELSE 0)
  <1>1. PICK t \in Transaction, r \in Seq(Transaction) : t = Head(s) /\ r = Tail(s)
    BY HeadAndTail
  <1>2. PICK w : w = <<t>>
    OBVIOUS
  <1>3. w \in Seq(Transaction) /\ Len(w) = 1 /\ DOMAIN w = {1} /\ w[1] = t
    BY <1>2
  <1>4. s = w \o r
    BY <1>1, <1>2
  <1>5. Count(s, q) = Count(w, q) + Count(r, q)
    BY <1>3, <1>4, CountConcat
  <1>6. Count(w, q) = IF t.prompt = q THEN 1 ELSE 0
    BY <1>3, CountZero
  <1>7. Count(r, q) \in Nat
    BY PlacesFinite
  <1> QED BY <1>1, <1>5, <1>6, <1>7

-----------------------------------------------------------------------------
(* The inductive invariant *)

Refused(p) == Len(p.completed) - (IF p.dismissed THEN 1 ELSE 0)
AllTrue(c) == \A i \in DOMAIN c : c[i] = TRUE
LastFalse(c) == c # <<>> /\ c[Len(c)] = FALSE /\ \A i \in 1 .. Len(c) - 1 : c[i] = TRUE

\* A prompt p of which n transactions are unanswered.  While it is on the bus
\* it has not completed; it has a result for each id that left; and it waits for
\* n transactions and those refused, or has completed with none of either.
Sound(p, n) ==
  /\ p.registered = TRUE => p.completed = <<>> /\ p.dismissed = FALSE
  /\ Refused(p) >= 0
  /\ p.called = FALSE => /\ n = 0 /\ p.left = 0 /\ p.result = <<>>
                         /\ Refused(p) = 0 /\ AllTrue(p.completed)
  /\ p.called = TRUE => /\ Len(p.result) + p.left = Len(p.objects)
                        /\ \/ AllTrue(p.completed) /\ p.left = n + Refused(p)
                           \/ LastFalse(p.completed) /\ Refused(p) = 1 /\ p.left = 0 /\ n = 0

Suspended ==
  /\ ~up => DOMAIN prompts = {} /\ queue = <<>> /\ current = None /\ ~processing
  /\ ~processing => current = None
  /\ current = None => ~brandNew /\ (processing => queue # <<>>)
Answerable ==
  /\ \A i \in DOMAIN queue : queue[i].prompt \in DOMAIN prompts \cup {None}
  /\ current # None => current.prompt \in DOMAIN prompts \cup {None}
Counted == \A q \in DOMAIN prompts : Sound(prompts[q], Outstanding(q))
PInv == Suspended /\ Answerable /\ Counted

LEMMA AppendIndex ==
  ASSUME NEW S, NEW s \in Seq(S), NEW x \in S, NEW u, u = Append(s, x)
  PROVE  /\ u \in Seq(S) /\ Len(s) \in Nat /\ Len(u) = Len(s) + 1 /\ DOMAIN u = 1 .. Len(s) + 1
         /\ u # <<>> /\ u[Len(s) + 1] = x
         /\ \A i \in 1 .. Len(s) : u[i] = s[i]
  OBVIOUS

LEMMA ConcatIndex ==
  ASSUME NEW S, NEW s \in Seq(S), NEW t \in Seq(S), NEW u, u = s \o t
  PROVE  /\ u \in Seq(S) /\ Len(s) \in Nat /\ Len(t) \in Nat
         /\ Len(u) = Len(s) + Len(t) /\ DOMAIN u = 1 .. Len(s) + Len(t)
         /\ \A i \in 1 .. Len(s) : u[i] = s[i]
         /\ \A i \in 1 .. Len(t) : u[Len(s) + i] = t[i]
  OBVIOUS

LEMMA SoundNew ==
  ASSUME NEW type \in {"Open", "Create"}, NEW objects \in Seq(Object), NEW a,
         NEW p, p = NewPrompt(type, objects, a)
  PROVE  Sound(p, 0)
  <1>1. /\ p.called = FALSE /\ p.dismissed = FALSE /\ p.left = 0
        /\ p.result = <<>> /\ p.completed = <<>>
    BY DEF NewPrompt
  <1> QED BY <1>1 DEF Sound, Refused, AllTrue

LEMMA SoundDismissed ==
  ASSUME NEW p \in PromptRecord, NEW n \in Nat, Sound(p, n), p.registered,
         NEW r, r = [p EXCEPT !.registered = FALSE, !.dismissed = TRUE,
                              !.completed = Append(@, TRUE)]
  PROVE  Sound(r, n)
  <1>1. p.registered = TRUE
    BY DEF PromptRecord
  <1>2. p.completed = <<>> /\ p.dismissed = FALSE /\ Refused(p) = 0
    BY <1>1 DEF Sound, Refused
  <1>3. /\ r.registered = FALSE /\ r.dismissed = TRUE /\ r.completed = <<TRUE>>
        /\ r.called = p.called /\ r.left = p.left /\ r.result = p.result /\ r.objects = p.objects
    <2>1. r.registered = FALSE /\ r.dismissed = TRUE
      BY DEF PromptRecord
    <2>2. r.called = p.called
      BY DEF PromptRecord
    <2>3. r.left = p.left /\ r.result = p.result /\ r.objects = p.objects
      BY DEF PromptRecord
    <2>4. r.completed = Append(p.completed, TRUE)
      BY DEF PromptRecord
    <2>5. Append(<<>>, TRUE) = <<TRUE>>
      OBVIOUS
    <2>6. r.completed = <<TRUE>>
      BY <1>2, <2>4, <2>5
    <2> QED BY <2>1, <2>2, <2>3, <2>6
  <1>4. Refused(r) = 0 /\ AllTrue(r.completed)
    <2>1. DOMAIN r.completed = {1} /\ r.completed[1] = TRUE /\ Len(r.completed) = 1
      BY <1>3
    <2> QED BY <1>3, <2>1 DEF Refused, AllTrue
  <1>5. ~LastFalse(p.completed)
    BY <1>2 DEF LastFalse
  <1> QED BY <1>2, <1>3, <1>4, <1>5 DEF Sound

LEMMA SoundCalled ==
  ASSUME NEW p \in PromptRecord, NEW n \in Nat, Sound(p, n), ~p.called,
         NEW r, r = [p EXCEPT !.called = TRUE, !.left = Len(p.objects)]
  PROVE  n = 0 /\ Sound(r, Len(p.objects))
  <1>1. p.called = FALSE
    BY DEF PromptRecord
  <1>2. n = 0 /\ p.result = <<>> /\ Refused(p) = 0 /\ AllTrue(p.completed)
    BY <1>1 DEF Sound
  <1>3. /\ r.called = TRUE /\ r.left = Len(p.objects) /\ r.objects = p.objects
        /\ r.registered = p.registered /\ r.dismissed = p.dismissed
        /\ r.result = <<>> /\ r.completed = p.completed
    BY <1>2 DEF PromptRecord
  <1>4. Refused(r) = 0 /\ Len(p.objects) \in Nat
    BY <1>2, <1>3 DEF Refused, PromptRecord
  <1>5. r.registered = TRUE => r.completed = <<>> /\ r.dismissed = FALSE
    BY <1>3 DEF Sound
  <1>6. AllTrue(r.completed)
    BY <1>2, <1>3
  <1>7. Len(r.result) + r.left = Len(r.objects) /\ r.left = Len(p.objects) + Refused(r)
    <2>1. Len(r.result) = 0
      BY <1>3
    <2>2. PICK k \in Nat : k = Len(p.objects)
      BY <1>4
    <2>3. r.left = k /\ Len(r.objects) = k
      BY <1>3, <2>2
    <2>4. PICK a, b, c, d : /\ a = Len(r.result) /\ b = r.left
                            /\ c = Len(r.objects) /\ d = Refused(r)
      OBVIOUS
    <2>5. a = 0 /\ b = k /\ c = k /\ d = 0
      BY <1>4, <2>1, <2>3, <2>4
    <2>6. a + b = c /\ b = k + d
      BY <2>5
    <2> QED BY <2>2, <2>4, <2>6
  <1> QED BY <1>2, <1>3, <1>4, <1>5, <1>6, <1>7 DEF Sound

LEMMA SoundOpened ==
  ASSUME NEW p \in PromptRecord, NEW n \in Nat, Sound(p, n), n > 0, NEW path \in Path,
         NEW r, r = [p EXCEPT !.left = @ - 1,
                              !.registered = @ /\ p.left > 1,
                              !.result = Append(@, path),
                              !.completed = IF p.left = 1 THEN Append(@, FALSE) ELSE @]
  PROVE  Sound(r, n - 1)
  <1>1. /\ p.left \in Int /\ p.registered \in BOOLEAN /\ p.dismissed \in BOOLEAN
        /\ p.called \in BOOLEAN
        /\ p.result \in Seq(Path) /\ p.completed \in Seq(BOOLEAN) /\ p.objects \in Seq(Object)
    BY DEF PromptRecord
  <1>2. p.called = TRUE
    BY <1>1 DEF Sound
  <1>3. /\ Len(p.result) + p.left = Len(p.objects)
        /\ AllTrue(p.completed) /\ p.left = n + Refused(p)
        /\ Refused(p) >= 0 /\ Refused(p) \in Int
    <2>1. Len(p.completed) \in Nat
      BY <1>1
    <2>2. Refused(p) \in Int
      BY <2>1 DEF Refused
    <2> QED BY <1>1, <1>2, <2>2 DEF Sound
  <1>4. /\ r.left = p.left - 1 /\ r.result = Append(p.result, path)
        /\ r.completed = (IF p.left = 1 THEN Append(p.completed, FALSE) ELSE p.completed)
        /\ r.called = TRUE /\ r.dismissed = p.dismissed /\ r.objects = p.objects
    BY <1>2 DEF PromptRecord
  <1>5. Len(r.result) + r.left = Len(r.objects)
    <2>1. Len(r.result) = Len(p.result) + 1 /\ Len(p.result) \in Nat
      BY <1>1, <1>4
    <2> QED BY <1>1, <1>3, <1>4, <2>1
  <1>6. CASE p.left = 1
    <2>1. n = 1 /\ Refused(p) = 0
      BY <1>3, <1>6
    <2>2. r.completed = Append(p.completed, FALSE)
      BY <1>4, <1>6
    <2>3. Len(r.completed) = Len(p.completed) + 1 /\ Len(p.completed) \in Nat
      BY <1>1, <2>2
    <2>4. Refused(r) = 1
      BY <1>4, <2>1, <2>3 DEF Refused
    <2>5. LastFalse(r.completed)
      <3>1. PICK B, c, d, no : B = BOOLEAN /\ c = p.completed /\ d = r.completed /\ no = FALSE
        OBVIOUS
      <3>2. c \in Seq(B) /\ no \in B /\ d = Append(c, no)
        BY <1>1, <2>2, <3>1
      <3>3. d # <<>> /\ d[Len(c) + 1] = no /\ \A i \in 1 .. Len(c) : d[i] = c[i]
        BY <3>2, AppendIndex
      <3>4. r.completed # <<>> /\ r.completed[Len(p.completed) + 1] = FALSE
            /\ \A i \in 1 .. Len(p.completed) : r.completed[i] = p.completed[i]
        BY <3>1, <3>3
      <3>5. \A i \in 1 .. Len(p.completed) : p.completed[i] = TRUE
        BY <1>1, <1>3 DEF AllTrue
      <3>6. \A i \in 1 .. Len(p.completed) : r.completed[i] = TRUE
        BY <3>4, <3>5
      <3>7. Len(r.completed) - 1 = Len(p.completed)
        BY <2>3
      <3> QED BY <2>3, <3>4, <3>6, <3>7 DEF LastFalse
    <2>6. r.registered = FALSE
      <3>1. r.registered = (p.registered /\ p.left > 1)
        BY DEF PromptRecord
      <3>2. ~(p.left > 1)
        BY <1>6
      <3> QED BY <3>1, <3>2, Zenon
    <2>7. r.left = 0 /\ n - 1 = 0
      BY <1>4, <1>6, <2>1
    <2>8. PICK m : m = n - 1 /\ m = 0
      BY <2>7
    <2>9. ~(r.registered = TRUE) /\ ~(r.called = FALSE)
      BY <1>4, <2>6
    <2>10. Refused(r) >= 0
      BY <2>4
    <2> QED BY <1>5, <2>4, <2>5, <2>7, <2>8, <2>9, <2>10 DEF Sound
  <1>7. CASE p.left # 1
    <2>1. r.completed = p.completed
      BY <1>4, <1>7
    <2>2. Refused(r) = Refused(p)
      BY <1>4, <2>1 DEF Refused
    <2>3. r.registered = TRUE => p.registered = TRUE
      <3>1. r.registered = (p.registered /\ p.left > 1)
        BY DEF PromptRecord
      <3> QED BY <1>1, <3>1, Zenon
    <2>4. r.registered = TRUE => r.completed = <<>> /\ r.dismissed = FALSE
      BY <1>4, <2>1, <2>3 DEF Sound
    <2>5. r.left = (n - 1) + Refused(r)
      BY <1>3, <1>4, <2>2
    <2> QED BY <1>3, <1>4, <1>5, <2>1, <2>2, <2>4, <2>5 DEF Sound
  <1> QED BY <1>6, <1>7

LEMMA SoundFailed ==
  ASSUME NEW p \in PromptRecord, NEW n \in Nat, Sound(p, n), NEW k \in Nat, 0 < k, k =< n,
         NEW r, r = [p EXCEPT !.registered = FALSE,
                              !.completed = @ \o [i \in 1 .. k |-> TRUE]]
  PROVE  Sound(r, n - k)
  <1>1. /\ p.left \in Int /\ p.dismissed \in BOOLEAN /\ p.called \in BOOLEAN
        /\ p.result \in Seq(Path) /\ p.completed \in Seq(BOOLEAN) /\ p.objects \in Seq(Object)
    BY DEF PromptRecord
  <1>2. p.called = TRUE
    BY <1>1 DEF Sound
  <1>3. /\ Len(p.result) + p.left = Len(p.objects)
        /\ AllTrue(p.completed) /\ p.left = n + Refused(p)
        /\ Refused(p) >= 0 /\ Refused(p) \in Int
    <2>1. Len(p.completed) \in Nat
      BY <1>1
    <2>2. Refused(p) \in Int
      BY <2>1 DEF Refused
    <2> QED BY <1>1, <1>2, <2>2 DEF Sound
  <1>4. PICK s : s = [i \in 1 .. k |-> TRUE]
    OBVIOUS
  <1>5. s \in [1 .. k -> BOOLEAN]
    BY <1>4
  <1>6. s \in Seq(BOOLEAN) /\ Len(s) = k
    BY <1>5, SequenceOf
  <1>7. /\ r.registered = FALSE /\ r.completed = p.completed \o s
        /\ r.left = p.left /\ r.result = p.result
        /\ r.called = TRUE /\ r.dismissed = p.dismissed /\ r.objects = p.objects
    BY <1>2, <1>4 DEF PromptRecord
  <1>8. Len(r.completed) = Len(p.completed) + k /\ Len(p.completed) \in Nat
    BY <1>1, <1>6, <1>7
  <1>9. Refused(r) = Refused(p) + k
    <2>1. PICK d \in {0, 1} : d = IF p.dismissed THEN 1 ELSE 0
      OBVIOUS
    <2>2. Refused(p) = Len(p.completed) - d
      BY <2>1 DEF Refused
    <2>3. Refused(r) = Len(r.completed) - d
      BY <1>7, <2>1 DEF Refused
    <2>4. d \in Int
      BY <2>1
    <2> QED BY <1>8, <2>2, <2>3, <2>4
  <1>10. AllTrue(r.completed)
    <2>1. PICK B, c, d : B = BOOLEAN /\ c = p.completed /\ d = r.completed
      OBVIOUS
    <2>2. c \in Seq(B) /\ s \in Seq(B) /\ d = c \o s
      BY <1>1, <1>6, <1>7, <2>1
    <2>3. /\ DOMAIN d = 1 .. Len(c) + Len(s)
          /\ \A i \in 1 .. Len(c) : d[i] = c[i]
          /\ \A i \in 1 .. Len(s) : d[Len(c) + i] = s[i]
      BY <2>2, ConcatIndex
    <2>4. /\ DOMAIN r.completed = 1 .. Len(p.completed) + k
          /\ \A i \in 1 .. Len(p.completed) : r.completed[i] = TRUE
          /\ \A i \in 1 .. k : r.completed[Len(p.completed) + i] = TRUE
      <3>1. \A i \in 1 .. Len(p.completed) : p.completed[i] = TRUE
        BY <1>1, <1>3 DEF AllTrue
      <3>2. \A i \in 1 .. k : s[i] = TRUE
        BY <1>4
      <3>3. \A i \in 1 .. Len(c) : d[i] = TRUE
        BY <2>1, <2>3, <3>1
      <3>4. \A i \in 1 .. k : d[Len(c) + i] = TRUE
        BY <1>6, <2>3, <3>2
      <3> QED BY <1>6, <2>1, <2>3, <3>3, <3>4
    <2>5. ASSUME NEW i \in 1 .. Len(p.completed) + k PROVE r.completed[i] = TRUE
      <3>1. CASE i \in 1 .. Len(p.completed)
        BY <2>4, <3>1
      <3>2. CASE i \notin 1 .. Len(p.completed)
        <4>1. PICK j \in 1 .. k : i = Len(p.completed) + j
          <5>1. i - Len(p.completed) \in 1 .. k /\ i = Len(p.completed) + (i - Len(p.completed))
            BY <1>8, <3>2
          <5> QED BY <5>1
        <4> QED BY <2>4, <4>1
      <3> QED BY <3>1, <3>2
    <2> QED BY <2>4, <2>5 DEF AllTrue
  <1>11. p.left = (n - k) + Refused(r) /\ Refused(r) >= 0
    BY <1>3, <1>9
  <1> QED BY <1>3, <1>7, <1>10, <1>11 DEF Sound

-----------------------------------------------------------------------------
(* Steps *)

LEMMA OutstandingType ==
  ASSUME QueueTypes, NEW q
  PROVE  Outstanding(q) \in Nat /\ Outstanding(q) = Count(queue, q) + Shown(q)
  <1>1. Count(queue, q) \in Nat
    BY PlacesFinite DEF QueueTypes
  <1> QED BY <1>1, OutstandingIs DEF Shown

LEMMA OutstandingPrimed ==
  ASSUME NEW q
  PROVE  Outstanding(q)' = Count(queue', q) + Shown(q)'
  BY DEF Outstanding, Count, Places, Shown

\* Nobody waits for a transaction of a prompt that is not there.
LEMMA NoneOutstanding ==
  ASSUME QueueTypes, Answerable, NEW q \in Prompt, q \notin DOMAIN prompts
  PROVE  Outstanding(q) = 0
  <1>1. \A i \in DOMAIN queue : queue[i].prompt # q
    BY ConstantsAssumption DEF Answerable
  <1>2. Count(queue, q) = 0
    BY <1>1, CountZero DEF QueueTypes
  <1>3. Shown(q) = 0
    BY ConstantsAssumption DEF Answerable, Shown
  <1> QED BY <1>2, <1>3, OutstandingIs

LEMMA PromptsAside ==
  ASSUME PInv, up', UNCHANGED <<prompts, queue, current, brandNew, processing>>
  PROVE  PInv'
  <1>1. Suspended' /\ Answerable'
    BY DEF PInv, Suspended, Answerable
  <1>2. \A q : Outstanding(q)' = Outstanding(q)
    BY OutstandingIs, OutstandingPrimed DEF Shown
  <1>3. Counted'
    BY <1>2 DEF PInv, Counted
  <1> QED BY <1>1, <1>3 DEF PInv

LEMMA DiePInv ==
  ASSUME Die
  PROVE  PInv'
  <1>1. /\ up' = FALSE /\ prompts' = Empty /\ queue' = <<>> /\ current' = None
        /\ brandNew' = FALSE /\ processing' = FALSE
    BY DEF Die
  <1>2. DOMAIN prompts' = {} /\ DOMAIN queue' = {}
    BY <1>1, EmptyFacts
  <1> QED BY <1>1, <1>2 DEF PInv, Suspended, Answerable, Counted

LEMMA NewPromptPInv ==
  ASSUME IInv, PInv, EventLoop, NEW q \in Prompt, q \notin DOMAIN prompts,
         NEW type \in {"Open", "Create"}, NEW objects \in Seq(Object), NEW a,
         NEW p, p = NewPrompt(type, objects, a), prompts' = With(prompts, q, p),
         UNCHANGED <<up, queue, current, brandNew, processing>>
  PROVE  PInv'
  <1>1. DOMAIN prompts' = DOMAIN prompts \cup {q} /\ prompts'[q] = p
        /\ \A z \in DOMAIN prompts : prompts'[z] = prompts[z]
    BY DEF With
  <1>2. Suspended' /\ Answerable'
    BY <1>1 DEF PInv, Suspended, Answerable, EventLoop
  <1>3. \A z : Outstanding(z)' = Outstanding(z)
    BY OutstandingIs, OutstandingPrimed DEF Shown
  <1>4. Outstanding(q) = 0
    BY NoneOutstanding DEF IInv, PInv
  <1>5. Sound(p, 0)
    BY SoundNew
  <1>6. Counted'
    BY <1>1, <1>3, <1>4, <1>5 DEF PInv, Counted
  <1> QED BY <1>2, <1>6 DEF PInv

LEMMA CallUnlockPInv ==
  ASSUME IInv, PInv, NEW q \in Prompt, NEW k \in Nat,
         NEW objects \in [1 .. k -> DOMAIN collections], CallUnlock(q, objects)
  PROVE  PInv'
  <1>1. PICK s \in Seq(Object) : prompts' = With(prompts, q, NewPrompt("Open", s, None))
    BY CallUnlockPrompts DEF IInv
  <1>2. PICK p : p = NewPrompt("Open", s, None)
    OBVIOUS
  <1>3. /\ EventLoop /\ q \notin DOMAIN prompts /\ prompts' = With(prompts, q, p)
        /\ UNCHANGED <<up, queue, current, brandNew, processing>>
    BY <1>1, <1>2 DEF CallUnlock, transactions
  <1> QED BY <1>2, <1>3, NewPromptPInv

LEMMA CallCreateCollectionPInv ==
  ASSUME IInv, PInv, NEW q \in Prompt, NEW label \in Name, NEW a \in Alias \cup {None},
         CallCreateCollection(q, label, a)
  PROVE  PInv'
  <1>1. PICK s : s = <<[wallet |-> label, path |-> None]>>
    OBVIOUS
  <1>2. s \in Seq(Object)
    BY <1>1 DEF Object
  <1>3. PICK p : p = NewPrompt("Create", s, a)
    OBVIOUS
  <1>4. /\ EventLoop /\ q \notin DOMAIN prompts /\ prompts' = With(prompts, q, p)
        /\ UNCHANGED <<up, queue, current, brandNew, processing>>
    BY <1>1, <1>3 DEF CallCreateCollection, transactions
  <1> QED BY <1>2, <1>3, <1>4, NewPromptPInv

LEMMA CallDismissPInv ==
  ASSUME IInv, PInv, NEW q \in Prompt, CallDismiss(q)
  PROVE  PInv'
  <1>1. /\ EventLoop /\ q \in DOMAIN prompts /\ prompts[q].registered
        /\ prompts[q] \in PromptRecord
        /\ UNCHANGED <<up, queue, current, brandNew, processing>>
    BY DEF IInv, PromptTypes, CallDismiss, transactions
  <1>2. PICK r : r = [prompts[q] EXCEPT !.registered = FALSE, !.dismissed = TRUE,
                                        !.completed = Append(@, TRUE)]
    OBVIOUS
  <1>3. prompts' = [prompts EXCEPT ![q] = r]
    BY <1>1, <1>2 DEF CallDismiss
  <1>4. /\ DOMAIN prompts' = DOMAIN prompts /\ prompts'[q] = r
        /\ \A z \in DOMAIN prompts \ {q} : prompts'[z] = prompts[z]
    BY <1>1, <1>3 DEF IInv, PromptTypes
  <1>5. Suspended' /\ Answerable'
    BY <1>1, <1>4 DEF PInv, Suspended, Answerable
  <1>6. \A z : Outstanding(z)' = Outstanding(z)
    BY <1>1, OutstandingIs, OutstandingPrimed DEF Shown
  <1>7. Sound(r, Outstanding(q))
    <2>1. Sound(prompts[q], Outstanding(q)) /\ Outstanding(q) \in Nat
      BY <1>1, OutstandingType DEF PInv, Counted, IInv
    <2> QED BY <1>1, <1>2, <2>1, SoundDismissed
  <1>8. Counted'
    BY <1>4, <1>6, <1>7 DEF PInv, Counted
  <1> QED BY <1>5, <1>8 DEF PInv

LEMMA OtherOpenPInv ==
  ASSUME IInv, PInv, NEW n \in Others, NEW w \in WId, OtherOpen(n, w)
  PROVE  PInv'
  <1>1. PICK t : t = [wallet |-> n, wId |-> w, prompt |-> None, path |-> None]
    OBVIOUS
  <1>2. PICK s : s = <<t>>
    OBVIOUS
  <1>3. /\ t \in Transaction /\ t.prompt = None
        /\ s \in Seq(Transaction) /\ DOMAIN s = {1} /\ s[1] = t
    BY <1>1, <1>2, ConstantsAssumption DEF Transaction
  <1>4. /\ EventLoop /\ queue' = queue \o s
        /\ UNCHANGED <<up, prompts, current, brandNew, processing>>
    <2>1. queue' = Append(queue, t) /\ queue \in Seq(Transaction)
      BY <1>1 DEF OtherOpen, IInv, QueueTypes
    <2>2. queue' = queue \o s
      BY <1>2, <1>3, <2>1
    <2> QED BY <2>2 DEF OtherOpen, service
  <1>5. ASSUME NEW q \in DOMAIN prompts PROVE Outstanding(q)' = Outstanding(q)
    <2>1. q # None
      BY ConstantsAssumption DEF IInv, PromptTypes
    <2>2. Count(s, q) = 0
      BY <1>3, <2>1, CountZero
    <2>3. Count(queue', q) = Count(queue, q) + Count(s, q)
      BY <1>3, <1>4, CountConcat DEF IInv, QueueTypes
    <2>4. Count(queue, q) \in Nat
      BY PlacesFinite DEF IInv, QueueTypes
    <2>5. Count(queue', q) = Count(queue, q)
      BY <2>2, <2>3, <2>4
    <2> QED BY <1>4, <2>5, OutstandingIs, OutstandingPrimed DEF Shown
  <1>6. \A i \in DOMAIN queue' : queue'[i].prompt \in DOMAIN prompts' \cup {None}
    <2>1. \A i \in DOMAIN queue' : (i \in DOMAIN queue /\ queue'[i] = queue[i]) \/ queue'[i] = t
      <3>1. queue' = Append(queue, t) /\ queue \in Seq(Transaction)
        BY <1>1 DEF OtherOpen, IInv, QueueTypes
      <3>2. DOMAIN queue = 1 .. Len(queue)
        BY <3>1
      <3> QED BY <1>3, <3>1, <3>2, AppendIndex
    <2> QED BY <1>3, <1>4, <2>1 DEF PInv, Answerable
  <1>7. queue' # <<>>
    <2>1. queue' = Append(queue, t) /\ queue \in Seq(Transaction)
      BY <1>1 DEF OtherOpen, IInv, QueueTypes
    <2> QED BY <1>3, <2>1, AppendIndex
  <1>8. Suspended' /\ Answerable'
    BY <1>4, <1>6, <1>7 DEF PInv, Suspended, Answerable, EventLoop
  <1>9. Counted'
    BY <1>4, <1>5 DEF PInv, Counted
  <1> QED BY <1>8, <1>9 DEF PInv

LEMMA CallPromptPInv ==
  ASSUME IInv, PInv, NEW q \in Prompt, NEW w \in WId, CallPrompt(q, w)
  PROVE  PInv'
  <1>1. /\ EventLoop /\ q \in DOMAIN prompts /\ ~prompts[q].called
        /\ prompts[q] \in PromptRecord
        /\ UNCHANGED <<up, current, brandNew, processing>>
    BY DEF IInv, PromptTypes, CallPrompt
  <1>2. PICK s \in Seq(Transaction) :
          /\ queue' = queue \o s
          /\ Len(s) = Len(prompts[q].objects) /\ \A i \in DOMAIN s : s[i].prompt = q
    BY CallPromptFacts DEF IInv
  <1>3. PICK r : r = [prompts[q] EXCEPT !.called = TRUE, !.left = Len(prompts[q].objects)]
    OBVIOUS
  <1>4. prompts' = [prompts EXCEPT ![q] = r]
    BY <1>1, <1>3 DEF CallPrompt
  <1>5. /\ DOMAIN prompts' = DOMAIN prompts /\ prompts'[q] = r
        /\ \A z \in DOMAIN prompts \ {q} : prompts'[z] = prompts[z]
    BY <1>1, <1>4 DEF IInv, PromptTypes
  <1>6. queue \in Seq(Transaction)
    BY DEF IInv, QueueTypes
  <1>7. \A z : Outstanding(z)' = Outstanding(z) + Count(s, z)
    <2>1. \A z : Count(queue', z) = Count(queue, z) + Count(s, z)
      BY <1>2, <1>6, CountConcat
    <2>2. \A z : Count(queue, z) \in Nat /\ Count(s, z) \in Nat
      BY <1>2, <1>6, PlacesFinite
    <2>3. \A z : Shown(z)' = Shown(z) /\ Shown(z) \in {0, 1}
      BY <1>1 DEF Shown
    <2> QED BY <2>1, <2>2, <2>3, OutstandingIs, OutstandingPrimed
  <1>8. Counted'
    <2>1. ASSUME NEW z \in DOMAIN prompts' PROVE Sound(prompts'[z], Outstanding(z)')
      <3>1. Sound(prompts[z], Outstanding(z)) /\ Outstanding(z) \in Nat
        BY <1>5, OutstandingType DEF PInv, Counted, IInv
      <3>2. CASE z = q
        <4>1. Outstanding(q) = 0 /\ Sound(r, Len(prompts[q].objects))
          BY <1>1, <1>3, <3>1, <3>2, SoundCalled
        <4>2. Count(s, q) = Len(prompts[q].objects) /\ Count(s, q) \in Nat
          BY <1>2, CountZero, PlacesFinite
        <4>3. Outstanding(q)' = Len(prompts[q].objects)
          BY <1>7, <4>1, <4>2
        <4> QED BY <1>5, <3>2, <4>1, <4>3
      <3>3. CASE z # q
        <4>1. Count(s, z) = 0
          BY <1>2, <3>3, CountZero
        <4>2. Outstanding(z)' = Outstanding(z)
          BY <1>7, <3>1, <4>1
        <4> QED BY <1>5, <3>1, <3>3, <4>2
      <3> QED BY <3>2, <3>3
    <2> QED BY <2>1 DEF Counted
  <1>9. \A i \in DOMAIN queue' : queue'[i].prompt \in DOMAIN prompts' \cup {None}
    <2>1. /\ DOMAIN queue' = 1 .. Len(queue) + Len(s)
          /\ \A i \in 1 .. Len(queue) : queue'[i] = queue[i]
          /\ \A i \in 1 .. Len(s) : queue'[Len(queue) + i] = s[i]
          /\ Len(queue) \in Nat /\ Len(s) \in Nat
      <3>1. PICK S, u, v : S = Transaction /\ u = queue /\ v = queue'
        OBVIOUS
      <3>2. u \in Seq(S) /\ s \in Seq(S) /\ v = u \o s
        BY <1>2, <1>6, <3>1
      <3>3. /\ DOMAIN v = 1 .. Len(u) + Len(s)
            /\ \A i \in 1 .. Len(u) : v[i] = u[i]
            /\ \A i \in 1 .. Len(s) : v[Len(u) + i] = s[i]
            /\ Len(u) \in Nat /\ Len(s) \in Nat
        BY <3>2, ConcatIndex
      <3> QED BY <3>1, <3>3
    <2>2. ASSUME NEW i \in DOMAIN queue' PROVE queue'[i].prompt \in DOMAIN prompts \cup {None}
      <3>1. CASE i \in 1 .. Len(queue)
        BY <1>6, <2>1, <3>1 DEF PInv, Answerable
      <3>2. CASE i \notin 1 .. Len(queue)
        <4>1. PICK j \in 1 .. Len(s) : i = Len(queue) + j
          <5>1. i - Len(queue) \in 1 .. Len(s) /\ i = Len(queue) + (i - Len(queue))
            BY <2>1, <3>2
          <5> QED BY <5>1
        <4>2. queue'[i] = s[j]
          BY <2>1, <4>1
        <4>3. j \in DOMAIN s
          BY <2>1, <4>1
        <4>4. s[j].prompt = q /\ q \in DOMAIN prompts
          BY <1>1, <1>2, <4>3
        <4> QED BY <4>2, <4>4
      <3> QED BY <3>1, <3>2
    <2> QED BY <1>5, <2>2
  <1>10. Suspended' /\ Answerable'
    <2>1. queue # <<>> => queue' # <<>>
      BY <1>2, <1>6
    <2> QED BY <1>1, <1>5, <1>9, <2>1 DEF PInv, Suspended, Answerable, EventLoop
  <1> QED BY <1>8, <1>10 DEF PInv

\* The prompt of a transaction t that was opened, which is no longer waited for.
LEMMA SucceedCounted ==
  ASSUME IInv, PInv, NEW t \in Transaction, t.prompt \in DOMAIN prompts \cup {None},
         t.prompt = None => prompts' = prompts,
         t.prompt # None => \E path \in Path : prompts' = OpenedFor(t, path),
         \A q \in DOMAIN prompts : /\ Outstanding(q)' \in Nat
                                   /\ Outstanding(q) = Outstanding(q)' + (IF t.prompt = q THEN 1 ELSE 0)
  PROVE  DOMAIN prompts' = DOMAIN prompts /\ Counted'
  <1>1. CASE t.prompt = None
    <2>1. prompts' = prompts
      BY <1>1
    <2>2. \A q \in DOMAIN prompts : Outstanding(q)' = Outstanding(q)
      BY <1>1, ConstantsAssumption DEF IInv, PromptTypes
    <2> QED BY <2>1, <2>2 DEF PInv, Counted
  <1>2. CASE t.prompt # None
    <2>1. PICK q \in DOMAIN prompts : q = t.prompt /\ prompts[q] \in PromptRecord
      BY <1>2 DEF IInv, PromptTypes
    <2>2. PICK path \in Path : prompts' = OpenedFor(t, path)
      BY <1>2
    <2>3. PICK r : r = [prompts[q] EXCEPT !.left = @ - 1,
                 !.registered = @ /\ prompts[q].left > 1,
                 !.result = Append(@, path),
                 !.completed = IF prompts[q].left = 1 THEN Append(@, FALSE) ELSE @]
      OBVIOUS
    <2>4. prompts' = [prompts EXCEPT ![q] = r]
      BY <2>1, <2>2, <2>3, Zenon DEF OpenedFor
    <2>5. /\ DOMAIN prompts' = DOMAIN prompts /\ prompts'[q] = r
          /\ \A z \in DOMAIN prompts \ {q} : prompts'[z] = prompts[z]
      BY <2>1, <2>4 DEF IInv, PromptTypes
    <2>6. ASSUME NEW z \in DOMAIN prompts PROVE Sound(prompts'[z], Outstanding(z)')
      <3>1. Sound(prompts[z], Outstanding(z)) /\ Outstanding(z) \in Nat
        BY OutstandingType DEF PInv, Counted, IInv
      <3>2. CASE z = q
        <4>1. Outstanding(q) = Outstanding(q)' + 1 /\ Outstanding(q)' \in Nat
          BY <2>1
        <4>2. Outstanding(q) > 0 /\ Outstanding(q)' = Outstanding(q) - 1
          BY <4>1
        <4>3. PICK n \in Nat : n = Outstanding(q)
          BY <3>1, <3>2
        <4>4. Sound(r, n - 1)
          BY <2>1, <2>3, <3>1, <3>2, <4>2, <4>3, SoundOpened
        <4> QED BY <2>5, <3>2, <4>2, <4>3, <4>4
      <3>3. CASE z # q
        <4>1. Outstanding(z)' = Outstanding(z)
          BY <2>1, <3>3
        <4> QED BY <2>5, <3>1, <3>3, <4>1
      <3> QED BY <3>2, <3>3
    <2> QED BY <2>5, <2>6 DEF Counted
  <1> QED BY <1>1, <1>2

LEMMA TailOf ==
  ASSUME NEW S, NEW s \in Seq(S), s # <<>>
  PROVE  \A i \in DOMAIN Tail(s) : i + 1 \in DOMAIN s /\ Tail(s)[i] = s[i + 1]
  OBVIOUS

LEMMA BeginFoundPInv ==
  ASSUME IInv, PInv, NEW h \in Handle, BeginFound(h)
  PROVE  PInv'
  <1>1. queue \in Seq(Transaction) /\ queue # <<>> /\ up /\ current = None
    BY DEF IInv, QueueTypes, BeginFound
  <1>2. PICK t \in Transaction, rest \in Seq(Transaction) : t = Head(queue) /\ rest = Tail(queue)
    BY <1>1, HeadAndTail
  <1>3. Succeed(t, h, collections, rest) /\ up' = up
    BY <1>2 DEF BeginFound
  <1>4. /\ t.prompt = None => prompts' = prompts
        /\ t.prompt # None => \E path \in Path : prompts' = OpenedFor(t, path)
    BY <1>3, SucceedFacts DEF IInv, Types
  <1>5. current' = None /\ brandNew' = FALSE /\ queue' = rest /\ processing' = (rest # <<>>)
    BY <1>3 DEF Succeed
  <1>6. t.prompt \in DOMAIN prompts \cup {None}
    <2>1. 1 \in DOMAIN queue /\ Head(queue) = queue[1]
      BY <1>1
    <2> QED BY <1>2, <2>1 DEF PInv, Answerable
  <1>7. ASSUME NEW q \in DOMAIN prompts
        PROVE  /\ Outstanding(q)' \in Nat
               /\ Outstanding(q) = Outstanding(q)' + (IF t.prompt = q THEN 1 ELSE 0)
    <2>1. Count(queue, q) = Count(rest, q) + (IF t.prompt = q THEN 1 ELSE 0)
      BY <1>1, <1>2, CountTail
    <2>2. Count(rest, q) \in Nat
      BY PlacesFinite
    <2>3. Shown(q) = 0 /\ Shown(q)' = 0
      BY <1>1, <1>5 DEF Shown
    <2>4. Outstanding(q) = Count(queue, q) + 0 /\ Outstanding(q)' = Count(rest, q) + 0
      BY <1>5, <2>3, OutstandingIs, OutstandingPrimed
    <2> QED BY <2>1, <2>2, <2>4
  <1>8. DOMAIN prompts' = DOMAIN prompts /\ Counted'
    BY <1>4, <1>6, <1>7, SucceedCounted
  <1>9. Suspended'
    BY <1>1, <1>3, <1>5 DEF Suspended
  <1>10. Answerable'
    BY <1>1, <1>2, <1>5, <1>8, TailOf DEF PInv, Answerable
  <1> QED BY <1>8, <1>9, <1>10 DEF PInv

LEMMA BeginDialogPInv ==
  ASSUME IInv, PInv, BeginDialog
  PROVE  PInv'
  <1>1. queue \in Seq(Transaction) /\ queue # <<>> /\ up /\ current = None
    BY DEF IInv, QueueTypes, BeginDialog
  <1>2. PICK t \in Transaction, rest \in Seq(Transaction) : t = Head(queue) /\ rest = Tail(queue)
    BY <1>1, HeadAndTail
  <1>3. current' = t /\ queue' = rest /\ processing' = TRUE /\ UNCHANGED <<up, prompts>>
    BY <1>2 DEF BeginDialog, service
  <1>4. t.prompt \in DOMAIN prompts \cup {None}
    <2>1. 1 \in DOMAIN queue /\ Head(queue) = queue[1]
      BY <1>1
    <2> QED BY <1>2, <2>1 DEF PInv, Answerable
  <1>5. t # None
    BY ConstantsAssumption DEF Transaction, Path
  <1>6. ASSUME NEW q \in DOMAIN prompts PROVE Outstanding(q)' = Outstanding(q)
    <2>1. Count(queue, q) = Count(rest, q) + (IF t.prompt = q THEN 1 ELSE 0)
      BY <1>1, <1>2, CountTail
    <2>2. Count(rest, q) \in Nat
      BY PlacesFinite
    <2>3. Shown(q) = 0 /\ Shown(q)' = IF t.prompt = q THEN 1 ELSE 0
      BY <1>1, <1>3, <1>5 DEF Shown
    <2>4. Outstanding(q) = Count(queue, q) + 0 /\ Outstanding(q)' = Count(rest, q) + Shown(q)'
      BY <1>3, <2>3, OutstandingIs, OutstandingPrimed
    <2> QED BY <2>1, <2>2, <2>3, <2>4
  <1>7. Counted'
    BY <1>3, <1>6 DEF PInv, Counted
  <1>8. Suspended'
    BY <1>1, <1>3, <1>5 DEF Suspended
  <1>9. Answerable'
    BY <1>1, <1>2, <1>3, <1>4, TailOf DEF PInv, Answerable
  <1> QED BY <1>7, <1>8, <1>9 DEF PInv

LEMMA AcceptPInv ==
  ASSUME IInv, PInv, NEW h \in Handle, Accept(h)
  PROVE  PInv'
  <1>1. PICK t \in Transaction : t = current /\ current # None
    BY DEF IInv, QueueTypes, Accept
  <1>2. PICK n \in Name : n = t.wallet
    BY DEF Transaction
  <1>3. PICK C : C = WalletCreated(n)
    OBVIOUS
  <1>4. up /\ up' = up /\ Succeed(t, h, C, queue)
    BY <1>1, <1>2, <1>3 DEF Accept
  <1>5. CollectionsType(C)
    <2>1. CollectionsType(collections) /\ None \in Handle \cup {None}
      BY DEF IInv, Types
    <2>2. CASE brandNew
      <3>1. C = Add(collections, n, None)
        BY <1>3, <2>2 DEF WalletCreated
      <3> QED BY <2>1, <3>1, AddFacts
    <2>3. CASE ~brandNew
      BY <1>3, <2>1, <2>3 DEF WalletCreated
    <2> QED BY <2>2, <2>3
  <1>6. /\ t.prompt = None => prompts' = prompts
        /\ t.prompt # None => \E path \in Path : prompts' = OpenedFor(t, path)
    BY <1>4, <1>5, SucceedFacts DEF IInv, QueueTypes
  <1>7. current' = None /\ brandNew' = FALSE /\ queue' = queue /\ processing' = (queue # <<>>)
    BY <1>4 DEF Succeed
  <1>8. t.prompt \in DOMAIN prompts \cup {None}
    BY <1>1 DEF PInv, Answerable
  <1>9. ASSUME NEW q \in DOMAIN prompts
        PROVE  /\ Outstanding(q)' \in Nat
               /\ Outstanding(q) = Outstanding(q)' + (IF t.prompt = q THEN 1 ELSE 0)
    <2>1. Count(queue, q) \in Nat
      BY PlacesFinite DEF IInv, QueueTypes
    <2>2. Shown(q) = (IF t.prompt = q THEN 1 ELSE 0) /\ Shown(q)' = 0
      BY <1>1, <1>7 DEF Shown
    <2>3. Outstanding(q) = Count(queue, q) + Shown(q) /\ Outstanding(q)' = Count(queue, q) + 0
      BY <1>7, <2>2, OutstandingIs, OutstandingPrimed
    <2> QED BY <2>1, <2>2, <2>3
  <1>10. DOMAIN prompts' = DOMAIN prompts /\ Counted'
    BY <1>6, <1>8, <1>9, SucceedCounted
  <1>11. Suspended'
    BY <1>4, <1>7 DEF Suspended
  <1>12. Answerable'
    BY <1>7, <1>10 DEF PInv, Answerable
  <1> QED BY <1>10, <1>11, <1>12 DEF PInv

\* Of the failed transactions, those of prompt q are in the queue or the dialog.
LEMMA FailuresAre ==
  ASSUME QueueTypes, current # None, NEW q, NEW S,
         S = {<<i, queue[i]>> : i \in Same} \cup {<<0, current>>}
  PROVE  Failures(q, S) = Cardinality(Places(queue, q) \cap Same) + Shown(q)
  <1>1. PICK P : P = Places(queue, q) \cap Same
    OBVIOUS
  <1>2. IsFiniteSet(P)
    <2>1. IsFiniteSet(Places(queue, q))
      BY PlacesFinite DEF QueueTypes
    <2> QED BY <1>1, <2>1, FS_Subset
  <1>3. PICK f : f = [i \in P |-> <<i, queue[i]>>]
    OBVIOUS
  <1>4. PICK F : F = {f[i] : i \in P}
    OBVIOUS
  <1>5. \A x, y \in P : f[x] = f[y] => x = y
    BY <1>3
  <1>6. IsFiniteSet(F) /\ Cardinality(F) = Cardinality(P) /\ Cardinality(P) \in Nat
    BY <1>2, <1>3, <1>4, <1>5, ImageFacts, FS_CardinalityType
  <1>7. F = {x \in {<<i, queue[i]>> : i \in Same} : x[2].prompt = q}
    BY <1>1, <1>3, <1>4 DEF Places, Same
  <1>8. <<0, current>> \notin F
    <2>1. 0 \notin P
      BY <1>1 DEF Places, QueueTypes
    <2> QED BY <1>3, <1>4, <2>1
  <1>9. {x \in S : x[2].prompt = q} = F \cup (IF current.prompt = q THEN {<<0, current>>} ELSE {})
    BY <1>7
  <1>10. CASE current.prompt = q
    <2>1. {x \in S : x[2].prompt = q} = F \cup {<<0, current>>}
      BY <1>9, <1>10
    <2>2. Cardinality(F \cup {<<0, current>>}) = Cardinality(F) + 1
      BY <1>6, <1>8, FS_AddElement
    <2> QED BY <1>1, <1>6, <1>10, <2>1, <2>2 DEF Failures, Shown
  <1>11. CASE current.prompt # q
    <2>1. {x \in S : x[2].prompt = q} = F
      BY <1>9, <1>11
    <2>2. Failures(q, S) = Cardinality(F) /\ Shown(q) = 0
      BY <1>11, <2>1 DEF Failures, Shown
    <2> QED BY <1>1, <1>6, <2>2
  <1> QED BY <1>10, <1>11

LEMMA CancelPInv ==
  ASSUME IInv, PInv, Cancel
  PROVE  PInv'
  <1>1. PICK S : S = {<<i, queue[i]>> : i \in Same} \cup {<<0, current>>}
    OBVIOUS
  <1>2. /\ up /\ current # None /\ up' = up
        /\ prompts' = FailedFor(S)
        /\ queue' = [i \in DOMAIN queue |->
                       IF i \in Same THEN [queue[i] EXCEPT !.prompt = None] ELSE queue[i]]
        /\ current' = None /\ brandNew' = FALSE /\ processing' = (queue # <<>>)
    BY <1>1 DEF Cancel, Same
  <1>3. queue \in Seq(Transaction) /\ IsFiniteSet(S)
    BY <1>1, FailedIsFinite DEF IInv, QueueTypes
  <1>4. /\ DOMAIN queue' = DOMAIN queue
        /\ \A i \in DOMAIN queue :
             queue'[i].prompt = IF i \in Same THEN None ELSE queue[i].prompt
    <2>1. ASSUME NEW i \in DOMAIN queue
          PROVE  queue'[i].prompt = IF i \in Same THEN None ELSE queue[i].prompt
      <3>1. queue[i] \in Transaction
        BY <1>3
      <3>2. [queue[i] EXCEPT !.prompt = None].prompt = None
        BY <3>1 DEF Transaction
      <3> QED BY <1>2, <3>2
    <2> QED BY <1>2, <2>1
  <1>5. ASSUME NEW q \in DOMAIN prompts
        PROVE  /\ Failures(q, S) \in Nat /\ Outstanding(q)' \in Nat
               /\ Outstanding(q) = Outstanding(q)' + Failures(q, S)
    <2>1. q # None
      BY ConstantsAssumption DEF IInv, PromptTypes
    <2>2. PICK P, A, B : /\ P = Places(queue, q) /\ A = P \cap Same /\ B = P \ Same
      OBVIOUS
    <2>3. Places(queue', q) = B
      BY <1>4, <2>1, <2>2 DEF Places
    <2>4. IsFiniteSet(P) /\ IsFiniteSet(A) /\ IsFiniteSet(B)
      BY <1>3, <2>2, PlacesFinite, FS_Subset
    <2>5. A \cup B = P /\ A \cap B = {}
      BY <2>2
    <2>6. Cardinality(P) = Cardinality(A) + Cardinality(B)
      <3>1. Cardinality(A \cup B) = Cardinality(A) + Cardinality(B) - Cardinality(A \cap B)
        BY <2>4, FS_Union
      <3>2. Cardinality(A \cap B) = 0
        BY <2>5, FS_EmptySet
      <3>3. Cardinality(A) \in Nat /\ Cardinality(B) \in Nat
        BY <2>4, FS_CardinalityType
      <3>4. PICK a \in Nat, b \in Nat : a = Cardinality(A) /\ b = Cardinality(B)
        BY <3>3
      <3>5. Cardinality(P) = a + b - 0
        BY <2>5, <3>1, <3>2, <3>4
      <3> QED BY <3>4, <3>5
    <2>7. Cardinality(A) \in Nat /\ Cardinality(B) \in Nat
      BY <2>4, FS_CardinalityType
    <2>8. Shown(q) \in {0, 1} /\ Shown(q)' = 0
      BY <1>2 DEF Shown
    <2>9. Failures(q, S) = Cardinality(A) + Shown(q)
      BY <1>1, <1>2, <2>2, FailuresAre DEF IInv
    <2>10. Outstanding(q) = Cardinality(P) + Shown(q)
      BY <2>2, OutstandingIs DEF Count
    <2>11. Outstanding(q)' = Cardinality(B) + 0
      BY <2>3, <2>8, OutstandingPrimed DEF Count
    <2> QED BY <2>6, <2>7, <2>8, <2>9, <2>10, <2>11
  <1>6. DOMAIN prompts' = DOMAIN prompts
    BY <1>2 DEF FailedFor
  <1>7. ASSUME NEW q \in DOMAIN prompts PROVE Sound(prompts'[q], Outstanding(q)')
    <2>1. Sound(prompts[q], Outstanding(q)) /\ Outstanding(q) \in Nat /\ prompts[q] \in PromptRecord
      BY OutstandingType DEF PInv, Counted, IInv, PromptTypes
    <2>2. PICK k \in Nat, n \in Nat : k = Failures(q, S) /\ n = Outstanding(q)
      BY <1>5, <2>1
    <2>3. PICK r : r = [prompts[q] EXCEPT !.registered = FALSE,
                                          !.completed = @ \o [i \in 1 .. k |-> TRUE]]
      OBVIOUS
    <2>4. prompts'[q] = IF k = 0 THEN prompts[q] ELSE r
      BY <1>2, <2>2, <2>3 DEF FailedFor
    <2>5. k =< n /\ Outstanding(q)' = n - k
      BY <1>5, <2>2
    <2>6. CASE k = 0
      BY <2>1, <2>2, <2>4, <2>5, <2>6
    <2>7. CASE k # 0
      <3>1. 0 < k
        BY <2>7
      <3>2. Sound(r, n - k)
        BY <2>1, <2>2, <2>3, <2>5, <3>1, SoundFailed
      <3> QED BY <2>4, <2>5, <2>7, <3>2
    <2> QED BY <2>6, <2>7
  <1>8. Counted'
    BY <1>6, <1>7 DEF Counted
  <1>9. Suspended'
    <2>1. queue # <<>> => queue' # <<>>
      BY <1>3, <1>4
    <2> QED BY <1>2, <2>1 DEF Suspended
  <1>10. Answerable'
    BY <1>2, <1>4, <1>6 DEF PInv, Answerable
  <1> QED BY <1>8, <1>9, <1>10 DEF PInv

LEMMA InitPInv == Init => PInv
  <1> SUFFICES ASSUME Init PROVE PInv
    OBVIOUS
  <1>1. /\ up = FALSE /\ prompts = Empty /\ queue = <<>> /\ current = None
        /\ brandNew = FALSE /\ processing = FALSE
    BY DEF Init
  <1>2. DOMAIN prompts = {} /\ DOMAIN queue = {}
    BY <1>1, EmptyFacts
  <1> QED BY <1>1, <1>2 DEF PInv, Suspended, Answerable, Counted

LEMMA StartPInv ==
  ASSUME PInv, Start
  PROVE  PInv'
  BY PromptsAside DEF Start, transactions

LEMMA CollectionCallsPInv ==
  ASSUME PInv, CollectionCalls
  PROVE  PInv'
  <1>1. CASE Die
    BY <1>1, DiePInv
  <1>2. CASE ~Die
    <2>1. up' /\ UNCHANGED <<prompts, queue, current, brandNew, processing>>
      <3>1. PICK p \in DOMAIN collections :
              \/ Delete(p)
              \/ \E label \in Labels : SetLabel(p, label)
              \/ \E a \in Alias : SetAlias(a, p)
        BY DEF CollectionCalls
      <3>2. CASE Delete(p)
        BY <1>2, <3>2 DEF Delete, EventLoop, transactions
      <3>3. ASSUME NEW label \in Labels, SetLabel(p, label)
            PROVE  <2>1
        BY <1>2, <3>3 DEF SetLabel, EventLoop, transactions
      <3>4. ASSUME NEW a \in Alias, SetAlias(a, p)
            PROVE  <2>1
        BY <3>4 DEF SetAlias, EventLoop, transactions
      <3> QED BY <3>1, <3>2, <3>3, <3>4
    <2> QED BY <2>1, PromptsAside
  <1> QED BY <1>1, <1>2

LEMMA NextPInv == IInv /\ PInv /\ [Next]_vars => PInv'
  <1> SUFFICES ASSUME IInv, PInv, [Next]_vars PROVE PInv'
    OBVIOUS
  <1>1. CASE Begin
    BY <1>1, BeginDialogPInv, BeginFoundPInv DEF Begin
  <1>2. CASE DialogEnds
    BY <1>2, CancelPInv, AcceptPInv DEF DialogEnds
  <1>3. CASE PromptCalls
    <2>1. PICK q \in Prompt :
            \/ \E k \in 1 .. MaxObjects[q] : \E objects \in [1 .. k -> DOMAIN collections] :
                 CallUnlock(q, objects)
            \/ \E label \in Name, a \in Alias \cup {None} : CallCreateCollection(q, label, a)
            \/ \E w \in WId : CallPrompt(q, w)
            \/ CallDismiss(q)
      BY <1>3 DEF PromptCalls
    <2>2. ASSUME NEW k \in 1 .. MaxObjects[q], NEW objects \in [1 .. k -> DOMAIN collections],
                 CallUnlock(q, objects)
          PROVE  PInv'
      <3>1. k \in Nat
        OBVIOUS
      <3> QED BY <2>2, <3>1, CallUnlockPInv
    <2> QED BY <2>1, <2>2, CallCreateCollectionPInv, CallPromptPInv, CallDismissPInv
  <1>4. CASE CollectionCalls
    BY <1>4, CollectionCallsPInv
  <1>5. CASE DaemonCalls
    <2>1. CASE \E h \in Handle : Close(h)
      <3>1. up' /\ UNCHANGED <<prompts, queue, current, brandNew, processing>>
        BY <2>1 DEF Close, EventLoop, transactions
      <3> QED BY <3>1, PromptsAside
    <2> QED BY <1>5, <2>1, OtherOpenPInv DEF DaemonCalls
  <1>6. CASE WatchDirectory
    <2>1. up' /\ UNCHANGED <<prompts, queue, current, brandNew, processing>>
      BY <1>6 DEF WatchDirectory, EventLoop, transactions
    <2> QED BY <2>1, PromptsAside
  <1>7. CASE Start
    BY <1>7, StartPInv
  <1>8. CASE Kill
    BY <1>8, DiePInv DEF Kill
  <1>9. CASE (\E n \in Name : ExternalRemove(n)) \/ UNCHANGED vars
    <2>1. UNCHANGED <<up, prompts, queue, current, brandNew, processing>>
      BY <1>9 DEF ExternalRemove, vars, service, transactions
    <2>2. \A q : Outstanding(q)' = Outstanding(q)
      BY <2>1, OutstandingIs, OutstandingPrimed DEF Shown
    <2> QED BY <2>1, <2>2 DEF PInv, Suspended, Answerable, Counted
  <1> QED BY <1>1, <1>2, <1>3, <1>4, <1>5, <1>6, <1>7, <1>8, <1>9 DEF Next

LEMMA PromptInvariant == Spec => [](IInv /\ PInv)
  BY InitIInv, InitPInv, NextIInv, NextPInv, PTL DEF Spec

-----------------------------------------------------------------------------
(* The theorems *)

LEMMA RefusalsAre ==
  ASSUME PromptTypes, NEW q \in DOMAIN prompts
  PROVE  /\ AllTrue(prompts[q].completed) => Refusals(q) = Refused(prompts[q])
         /\ LastFalse(prompts[q].completed) => Refusals(q) = Refused(prompts[q]) - 1
  <1>1. PICK p, c, T : /\ p = prompts[q] /\ c = p.completed
                       /\ T = {i \in DOMAIN c : c[i]}
    OBVIOUS
  <1>2. p \in PromptRecord
    BY <1>1 DEF PromptTypes
  <1>3. PICK k \in Nat : k = Len(c) /\ DOMAIN c = 1 .. k
    BY <1>1, <1>2 DEF PromptRecord
  <1>4. PICK d : d = IF p.dismissed THEN 1 ELSE 0
    OBVIOUS
  <1>5. d \in Int
    BY <1>4
  <1>6. Refusals(q) = Cardinality(T) - d /\ Refused(p) = k - d
    BY <1>1, <1>3, <1>4 DEF Refusals, Refused
  <1>7. AllTrue(c) => T = 1 .. k
    BY <1>1, <1>3 DEF AllTrue
  <1>8. LastFalse(c) => k > 0 /\ T = 1 .. k - 1
    <2>1. ASSUME LastFalse(c) PROVE k > 0 /\ T = 1 .. k - 1
      <3>1. k > 0
        BY <1>1, <1>2, <1>3, <2>1 DEF LastFalse, PromptRecord
      <3>2. \A i \in 1 .. k : i = k \/ i \in 1 .. k - 1
        OBVIOUS
      <3>3. (c[k] = FALSE) /\ (\A i \in 1 .. k - 1 : c[i] = TRUE)
        BY <1>3, <2>1 DEF LastFalse
      <3>4. ~c[k] /\ \A i \in 1 .. k - 1 : c[i]
        BY <3>3
      <3>5. T \subseteq 1 .. k /\ k \notin T /\ \A i \in 1 .. k - 1 : i \in T
        BY <1>1, <1>3, <3>4
      <3> QED BY <3>1, <3>2, <3>5
    <2> QED BY <2>1
  <1>9. Cardinality(1 .. k) = k /\ (k > 0 => Cardinality(1 .. k - 1) = k - 1)
    <2>1. Cardinality(1 .. k) = IF 1 > k THEN 0 ELSE k - 1 + 1
      BY FS_Interval
    <2>2. k - 1 \in Int
      OBVIOUS
    <2>3. Cardinality(1 .. k - 1) = IF 1 > k - 1 THEN 0 ELSE (k - 1) - 1 + 1
      BY <2>2, FS_Interval
    <2> QED BY <2>1, <2>3
  <1>10. AllTrue(c) => Refusals(q) = Refused(p)
    BY <1>5, <1>6, <1>7, <1>9
  <1>11. LastFalse(c) => Refusals(q) = Refused(p) - 1
    BY <1>5, <1>6, <1>8, <1>9
  <1> QED BY <1>1, <1>10, <1>11

\* The types, and that m_transactionIds of each prompt holds exactly its
\* transactions that are queued, in their dialog, or have failed.
THEOREM PromptsKnowTheirTransactions == Spec => []Structure
  <1>1. IInv /\ PInv => Structure
    <2> SUFFICES ASSUME IInv, PInv PROVE Structure
      OBVIOUS
    <2>1. ASSUME NEW q \in DOMAIN prompts
          PROVE  /\ prompts[q].left = IF prompts[q].called THEN Outstanding(q) + Refusals(q) ELSE 0
                 /\ prompts[q].left \in Nat
      <3>1. Sound(prompts[q], Outstanding(q)) /\ Outstanding(q) \in Nat
        BY OutstandingType DEF PInv, Counted, IInv
      <3>2. prompts[q] \in PromptRecord
        BY DEF IInv, PromptTypes
      <3>3. CASE prompts[q].called = FALSE
        BY <3>1, <3>3 DEF Sound
      <3>4. CASE prompts[q].called = TRUE
        <4>1. Refused(prompts[q]) >= 0 /\ Refused(prompts[q]) \in Int
          <5>1. Len(prompts[q].completed) \in Nat
            BY <3>2 DEF PromptRecord
          <5>2. Refused(prompts[q]) \in Int
            BY <5>1 DEF Refused
          <5> QED BY <3>1, <5>2 DEF Sound
        <4>2. CASE /\ AllTrue(prompts[q].completed)
                   /\ prompts[q].left = Outstanding(q) + Refused(prompts[q])
          <5>1. Refusals(q) = Refused(prompts[q])
            BY <4>2, RefusalsAre DEF IInv
          <5> QED BY <3>1, <3>4, <4>1, <4>2, <5>1
        <4>3. CASE /\ LastFalse(prompts[q].completed) /\ Refused(prompts[q]) = 1
                   /\ prompts[q].left = 0 /\ Outstanding(q) = 0
          <5>1. Refusals(q) = 0
            BY <4>1, <4>3, RefusalsAre DEF IInv
          <5> QED BY <3>4, <4>3, <5>1
        <4> QED BY <3>1, <3>4, <4>2, <4>3 DEF Sound
      <3> QED BY <3>2, <3>3, <3>4 DEF PromptRecord
    <2>2. TypeOK
      <3>1. prompts \in [DOMAIN prompts -> PromptObject]
        <4>1. ASSUME NEW q \in DOMAIN prompts PROVE prompts[q] \in PromptObject
          BY <2>1 DEF IInv, PromptTypes, PromptRecord, PromptObject
        <4>2. prompts = [q \in DOMAIN prompts |-> prompts[q]]
          BY DEF IInv, PromptTypes
        <4> QED BY <4>1, <4>2
      <3>2. /\ up \in BOOLEAN
            /\ files \subseteq Name /\ junk \subseteq Name \ files
            /\ Opened \subseteq Handle /\ wallets \in [Opened -> Name]
            /\ DOMAIN collections \subseteq Path
            /\ collections \in [DOMAIN collections -> Collection]
            /\ aliases \in [Alias -> Name \cup {None}]
            /\ served \in [Alias -> Path \cup {None}]
            /\ doubtful \subseteq Name
            /\ firstUse \in BOOLEAN /\ overtaken \in Path \cup {None}
        BY DEF IInv, Types, CollectionsType
      <3>3. /\ DOMAIN prompts \subseteq Prompt
            /\ queue \in Seq(Transaction) /\ current \in Transaction \cup {None}
            /\ brandNew \in BOOLEAN /\ processing \in BOOLEAN
        BY DEF IInv, PromptTypes, QueueTypes
      <3> QED BY <3>1, <3>2, <3>3 DEF TypeOK
    <2>3. /\ ~up => Opened = {} /\ DOMAIN collections = {} /\ DOMAIN prompts = {} /\ ~processing
          /\ ~processing => current = None
          /\ current = None => ~brandNew /\ (processing => queue # <<>>)
      BY DEF IInv, PInv, Down, Suspended
    <2>4. \A t \in Pending : t.prompt \in DOMAIN prompts \cup {None}
      BY DEF PInv, Answerable, Pending
    <2> QED BY <2>1, <2>2, <2>3, <2>4 DEF Structure
  <1> QED BY <1>1, PromptInvariant, PTL

\* Completed(false) comes once, last, with a result for each object, and never
\* after a Completed(true) the client did not ask for.
THEOREM CompletionIsFinal == Spec => []CompletedIsFinal
  <1>1. IInv /\ PInv => CompletedIsFinal
    <2> SUFFICES ASSUME IInv, PInv, NEW q \in DOMAIN prompts,
                        NEW i \in DOMAIN prompts[q].completed, ~prompts[q].completed[i]
                 PROVE  /\ i = Len(prompts[q].completed)
                        /\ i = (IF prompts[q].dismissed THEN 2 ELSE 1)
                        /\ Outstanding(q) = 0
                        /\ Len(prompts[q].result) = Len(prompts[q].objects)
      BY DEF CompletedIsFinal
    <2>1. PICK p, n, c : p = prompts[q] /\ n = Outstanding(q) /\ c = p.completed
      OBVIOUS
    <2>2. Sound(p, n) /\ p \in PromptRecord /\ i \in DOMAIN c /\ ~c[i]
      BY <2>1 DEF PInv, Counted, IInv, PromptTypes
    <2>3. ~AllTrue(c)
      BY <2>2 DEF AllTrue
    <2>4. p.called = TRUE
      BY <2>1, <2>2, <2>3 DEF Sound, PromptRecord
    <2>5. /\ LastFalse(c) /\ Refused(p) = 1 /\ p.left = 0 /\ n = 0
          /\ Len(p.result) + p.left = Len(p.objects)
      BY <2>1, <2>2, <2>3, <2>4 DEF Sound
    <2>6. PICK k \in Nat : k = Len(c) /\ DOMAIN c = 1 .. k
      BY <2>1, <2>2 DEF PromptRecord
    <2>7. i = k
      <3>1. \A j \in 1 .. k - 1 : c[j] = TRUE
        BY <2>5, <2>6 DEF LastFalse
      <3>2. i \notin 1 .. k - 1
        BY <2>2, <3>1
      <3> QED BY <2>2, <2>6, <3>2
    <2>8. k = (IF p.dismissed THEN 2 ELSE 1)
      BY <2>1, <2>5, <2>6 DEF Refused
    <2>9. Len(p.result) = Len(p.objects)
      <3>1. Len(p.result) \in Nat
        BY <2>2 DEF PromptRecord
      <3> QED BY <2>5, <3>1
    <2> QED BY <2>1, <2>5, <2>6, <2>7, <2>8, <2>9
  <1> QED BY <1>1, PromptInvariant, PTL

-----------------------------------------------------------------------------
(* The last transaction of a prompt *)

\* Transaction t ends prompt p: it opens the wallet of the last of its objects,
\* or has no path and so gives that of the collection it opened.
Fits(t, p) ==
  IF p.type = "Open" THEN t.wallet = p.objects[Len(p.objects)].wallet ELSE t.path = None

\* The last transaction of prompt q, in the queue s or the dialog c, ends p.
Ends(s, c, q, p) ==
  /\ \A i \in DOMAIN s :
       s[i].prompt = q /\ (\A j \in DOMAIN s : s[j].prompt = q => j =< i) => Fits(s[i], p)
  /\ (\A i \in DOMAIN s : s[i].prompt # q) /\ c # None /\ c.prompt = q => Fits(c, p)

\* As long as nothing of a prompt has failed.
Ordered ==
  \A q \in DOMAIN prompts :
    /\ prompts[q].type = "Create" => prompts[q].objects[1].path = None
    /\ Refused(prompts[q]) = 0 => Ends(queue, current, q, prompts[q])

SameObjects(p, r) == r.type = p.type /\ r.objects = p.objects

LEMMA EndsSame ==
  ASSUME NEW s, NEW c, NEW q, NEW p, NEW r, SameObjects(p, r)
  PROVE  Ends(s, c, q, r) <=> Ends(s, c, q, p)
  BY DEF Ends, Fits, SameObjects

LEMMA EndsTail ==
  ASSUME NEW s \in Seq(Transaction), s # <<>>, NEW q, NEW p, Ends(s, None, q, p),
         NEW t, t = Head(s), NEW rest, rest = Tail(s)
  PROVE  Ends(rest, t, q, p) /\ Ends(rest, None, q, p)
  <1>1. PICK k \in Nat : k = Len(s) /\ k > 0 /\ DOMAIN s = 1 .. k
    OBVIOUS
  <1>2. DOMAIN rest = 1 .. k - 1 /\ (\A i \in 1 .. k - 1 : rest[i] = s[i + 1]) /\ t = s[1]
    BY <1>1
  <1>3. ASSUME NEW i \in DOMAIN rest, rest[i].prompt = q,
               \A j \in DOMAIN rest : rest[j].prompt = q => j =< i
        PROVE  Fits(rest[i], p)
    <2>1. i + 1 \in DOMAIN s /\ rest[i] = s[i + 1]
      BY <1>1, <1>2, <1>3
    <2>2. ASSUME NEW j \in DOMAIN s, s[j].prompt = q PROVE j =< i + 1
      <3>1. CASE j = 1
        BY <1>1, <1>2, <1>3, <3>1
      <3>2. CASE j # 1
        <4>1. PICK l \in 1 .. k - 1 : j = l + 1
          <5>1. j - 1 \in 1 .. k - 1 /\ j = (j - 1) + 1
            BY <1>1, <3>2
          <5> QED BY <5>1
        <4>2. rest[l].prompt = q
          BY <1>2, <2>2, <4>1
        <4>3. l =< i
          BY <1>2, <1>3, <4>1, <4>2
        <4> QED BY <1>2, <4>1, <4>3
      <3> QED BY <3>1, <3>2
    <2> QED BY <1>3, <2>1, <2>2 DEF Ends
  <1>4. ASSUME \A i \in DOMAIN rest : rest[i].prompt # q, t.prompt = q
        PROVE  Fits(t, p)
    <2>1. ASSUME NEW j \in DOMAIN s, s[j].prompt = q PROVE j =< 1
      <3>1. CASE j # 1
        <4>1. j - 1 \in 1 .. k - 1 /\ j = (j - 1) + 1
          BY <1>1, <3>1
        <4> QED BY <1>2, <1>4, <2>1, <4>1
      <3> QED BY <3>1
    <2>2. 1 \in DOMAIN s
      BY <1>1
    <2> QED BY <1>2, <1>4, <2>1, <2>2 DEF Ends
  <1> QED BY <1>3, <1>4 DEF Ends

LEMMA EndsConcat ==
  ASSUME NEW s \in Seq(Transaction), NEW w \in Seq(Transaction), NEW c, NEW q, NEW p,
         NEW u, u = s \o w,
         \/ Ends(s, c, q, p) /\ \A i \in DOMAIN w : w[i].prompt # q
         \/ /\ \A i \in DOMAIN s : s[i].prompt # q
            /\ c # None => c.prompt # q
            /\ \A i \in DOMAIN w : w[i].prompt = q
            /\ w # <<>> => Fits(w[Len(w)], p)
  PROVE  Ends(u, c, q, p)
  <1>1. PICK k \in Nat, l \in Nat : /\ k = Len(s) /\ DOMAIN s = 1 .. k
                                    /\ l = Len(w) /\ DOMAIN w = 1 .. l
    OBVIOUS
  <1>2. /\ DOMAIN u = 1 .. k + l
        /\ \A i \in 1 .. k : u[i] = s[i]
        /\ \A i \in 1 .. l : u[k + i] = w[i]
    <2>1. PICK S : S = Transaction
      OBVIOUS
    <2> QED BY <1>1, <2>1, ConcatIndex
  <1>3. \A i \in DOMAIN u : i \in 1 .. k \/ \E j \in 1 .. l : i = k + j
    <2>1. ASSUME NEW i \in DOMAIN u, i \notin 1 .. k PROVE i - k \in 1 .. l /\ i = k + (i - k)
      BY <1>2, <2>1
    <2> QED BY <2>1
  <1>4. CASE Ends(s, c, q, p) /\ \A i \in DOMAIN w : w[i].prompt # q
    <2>1. \A i \in DOMAIN u : u[i].prompt = q => i \in DOMAIN s /\ u[i] = s[i]
      BY <1>1, <1>2, <1>3, <1>4
    <2>2. \A i \in DOMAIN s : i \in DOMAIN u /\ u[i] = s[i]
      BY <1>1, <1>2
    <2> QED BY <1>4, <2>1, <2>2 DEF Ends
  <1>5. CASE /\ \A i \in DOMAIN s : s[i].prompt # q
             /\ c # None => c.prompt # q
             /\ \A i \in DOMAIN w : w[i].prompt = q
             /\ w # <<>> => Fits(w[Len(w)], p)
    <2>1. ASSUME NEW i \in DOMAIN u, u[i].prompt = q,
                 \A j \in DOMAIN u : u[j].prompt = q => j =< i
          PROVE  Fits(u[i], p)
      <3>1. PICK j \in 1 .. l : i = k + j
        BY <1>1, <1>2, <1>3, <1>5, <2>1
      <3>2. l \in 1 .. l /\ k + l \in DOMAIN u /\ u[k + l] = w[l] /\ w # <<>>
        BY <1>1, <1>2, <3>1
      <3>3. k + l =< i
        BY <1>1, <1>5, <2>1, <3>2
      <3>4. i = k + l
        BY <3>1, <3>3
      <3> QED BY <1>1, <1>5, <3>2, <3>4
    <2> QED BY <1>5, <2>1 DEF Ends
  <1> QED BY <1>4, <1>5

\* A step that leaves the transactions alone and takes back no failure.
LEMMA OrderedAside ==
  ASSUME Ordered, UNCHANGED <<queue, current>>, DOMAIN prompts' \subseteq DOMAIN prompts,
         \A q \in DOMAIN prompts' :
           /\ SameObjects(prompts[q], prompts'[q])
           /\ Refused(prompts'[q]) = 0 => Refused(prompts[q]) = 0
  PROVE  Ordered'
  <1>1. ASSUME NEW q \in DOMAIN prompts', Refused(prompts'[q]) = 0
        PROVE  Ends(queue', current', q, prompts'[q])
    <2>1. Ends(queue, current, q, prompts[q])
      BY <1>1 DEF Ordered
    <2> QED BY <2>1, EndsSame
  <1>2. ASSUME NEW q \in DOMAIN prompts', prompts'[q].type = "Create"
        PROVE  prompts'[q].objects[1].path = None
    BY <1>2 DEF Ordered, SameObjects
  <1> QED BY <1>1, <1>2 DEF Ordered

LEMMA OrderedUnchanged ==
  ASSUME Ordered, UNCHANGED <<prompts, queue, current>>
  PROVE  Ordered'
  BY OrderedAside DEF SameObjects

LEMMA NewPromptOrdered ==
  ASSUME IInv, PInv, Ordered, NEW q \in Prompt, q \notin DOMAIN prompts,
         NEW type, NEW objects, NEW a, type = "Create" => objects[1].path = None,
         NEW p, p = NewPrompt(type, objects, a), prompts' = With(prompts, q, p),
         UNCHANGED <<queue, current>>
  PROVE  Ordered'
  <1>1. DOMAIN prompts' = DOMAIN prompts \cup {q} /\ prompts'[q] = p
        /\ \A z \in DOMAIN prompts : prompts'[z] = prompts[z]
    BY DEF With
  <1>2. p.type = type /\ p.objects = objects
    BY DEF NewPrompt
  <1>3. Ends(queue, current, q, p)
    <2>1. \A i \in DOMAIN queue : queue[i].prompt # q
      BY ConstantsAssumption DEF PInv, Answerable
    <2>2. current # None => current.prompt # q
      BY ConstantsAssumption DEF PInv, Answerable
    <2> QED BY <2>1, <2>2 DEF Ends
  <1> QED BY <1>1, <1>2, <1>3 DEF Ordered

LEMMA CallDismissOrdered ==
  ASSUME IInv, PInv, Ordered, NEW q \in Prompt, CallDismiss(q)
  PROVE  Ordered'
  <1>1. /\ q \in DOMAIN prompts /\ prompts[q].registered /\ prompts[q] \in PromptRecord
        /\ UNCHANGED <<queue, current>>
    BY DEF IInv, PromptTypes, CallDismiss, transactions
  <1>2. PICK r : r = [prompts[q] EXCEPT !.registered = FALSE, !.dismissed = TRUE,
                                        !.completed = Append(@, TRUE)]
    OBVIOUS
  <1>3. prompts' = [prompts EXCEPT ![q] = r]
    BY <1>1, <1>2 DEF CallDismiss
  <1>4. /\ DOMAIN prompts' = DOMAIN prompts /\ prompts'[q] = r
        /\ \A z \in DOMAIN prompts \ {q} : prompts'[z] = prompts[z]
    BY <1>1, <1>3 DEF IInv, PromptTypes
  <1>5. SameObjects(prompts[q], r)
    BY <1>1, <1>2 DEF SameObjects, PromptRecord
  <1>6. Refused(prompts[q]) = 0
    <2>1. prompts[q].registered = TRUE /\ Sound(prompts[q], Outstanding(q))
      BY <1>1 DEF PromptRecord, PInv, Counted
    <2> QED BY <2>1 DEF Sound, Refused
  <1>7. ASSUME NEW z \in DOMAIN prompts
        PROVE  /\ SameObjects(prompts[z], prompts'[z])
               /\ Refused(prompts'[z]) = 0 => Refused(prompts[z]) = 0
    <2>1. CASE z = q
      BY <1>4, <1>5, <1>6, <2>1
    <2>2. CASE z # q
      BY <1>4, <2>2 DEF SameObjects
    <2> QED BY <2>1, <2>2
  <1> QED BY <1>1, <1>4, <1>7, OrderedAside

LEMMA OtherOpenOrdered ==
  ASSUME IInv, Ordered, NEW n \in Others, NEW w \in WId, OtherOpen(n, w)
  PROVE  Ordered'
  <1>1. PICK t : t = [wallet |-> n, wId |-> w, prompt |-> None, path |-> None]
    OBVIOUS
  <1>2. PICK s : s = <<t>>
    OBVIOUS
  <1>3. /\ t \in Transaction /\ t.prompt = None
        /\ s \in Seq(Transaction) /\ DOMAIN s = {1} /\ s[1] = t
    BY <1>1, <1>2, ConstantsAssumption DEF Transaction
  <1>4. /\ queue \in Seq(Transaction) /\ queue' = queue \o s
        /\ UNCHANGED <<prompts, current>>
    <2>1. queue' = Append(queue, t) /\ queue \in Seq(Transaction)
      BY <1>1 DEF OtherOpen, IInv, QueueTypes
    <2>2. queue' = queue \o s
      BY <1>2, <1>3, <2>1
    <2> QED BY <2>1, <2>2 DEF OtherOpen, service
  <1>5. ASSUME NEW q \in DOMAIN prompts, Refused(prompts[q]) = 0
        PROVE  Ends(queue', current', q, prompts[q])
    <2>1. \A i \in DOMAIN s : s[i].prompt # q
      BY <1>3, ConstantsAssumption DEF IInv, PromptTypes
    <2>2. Ends(queue, current, q, prompts[q])
      BY <1>5 DEF Ordered
    <2> QED BY <1>3, <1>4, <2>1, <2>2, EndsConcat
  <1> QED BY <1>4, <1>5 DEF Ordered

\* What Prompt() queues: the last of it ends the prompt.
LEMMA CallPromptEnds ==
  ASSUME PromptTypes, Ordered, NEW q \in Prompt, NEW w \in WId, CallPrompt(q, w)
  PROVE  \E s \in Seq(Transaction) :
           /\ queue' = queue \o s /\ \A i \in DOMAIN s : s[i].prompt = q
           /\ s # <<>> => Fits(s[Len(s)], prompts[q])
  <1>1. q \in DOMAIN prompts /\ prompts[q] \in PromptRecord
    BY DEF PromptTypes, CallPrompt
  <1>2. PICK objects \in Seq(Object) : objects = prompts[q].objects
    BY <1>1 DEF PromptRecord
  <1>3. CASE /\ prompts[q].type = "Open"
             /\ queue' = queue \o [i \in DOMAIN objects |->
                  [wallet |-> [j \in DOMAIN objects |-> objects[j].wallet][i],
                   wId |-> w, prompt |-> q, path |-> objects[i].path]]
    <2>1. PICK name : name = [j \in DOMAIN objects |-> objects[j].wallet]
      OBVIOUS
    <2>2. ASSUME NEW i \in DOMAIN objects PROVE name[i] \in Name
      <3>1. objects[i] \in Object
        OBVIOUS
      <3> QED BY <2>1, <3>1 DEF Object
    <2>3. PICK s : s = [i \in DOMAIN objects |->
                     [wallet |-> name[i], wId |-> w, prompt |-> q, path |-> objects[i].path]]
      OBVIOUS
    <2>4. s \in Seq(Transaction) /\ Len(s) = Len(objects) /\ \A i \in DOMAIN s : s[i].prompt = q
      BY <2>2, <2>3, OpensType
    <2>5. s # <<>> => Fits(s[Len(s)], prompts[q])
      <3>1. ASSUME s # <<>> PROVE Len(objects) \in DOMAIN objects
        BY <2>4, <3>1
      <3>2. ASSUME NEW i \in DOMAIN objects PROVE s[i].wallet = objects[i].wallet
        BY <2>1, <2>3
      <3> QED BY <1>2, <1>3, <2>4, <3>1, <3>2 DEF Fits
    <2> QED BY <1>3, <2>1, <2>3, <2>4, <2>5
  <1>4. CASE /\ prompts[q].type = "Create"
             /\ \E n \in UniqueNames(objects[1].wallet) :
                  queue' = queue \o [i \in DOMAIN objects |->
                       [wallet |-> <<n>>[i], wId |-> w, prompt |-> q, path |-> objects[i].path]]
    <2>1. PICK n :
                  /\ n \in UniqueNames(objects[1].wallet)
                  /\ queue' = queue \o [i \in DOMAIN objects |->
                       [wallet |-> <<n>>[i], wId |-> w, prompt |-> q, path |-> objects[i].path]]
      BY <1>4
    <2>2. Len(objects) = 1 /\ DOMAIN objects = {1} /\ objects[1] \in Object
      BY <1>1, <1>2, <1>4 DEF PromptTypes
    <2>3. n \in Name
      BY <2>1, <2>2 DEF UniqueNames, Object
    <2>4. PICK name : name = <<n>>
      OBVIOUS
    <2>5. ASSUME NEW i \in DOMAIN objects PROVE name[i] \in Name
      BY <2>2, <2>3, <2>4
    <2>6. PICK s : s = [i \in DOMAIN objects |->
                     [wallet |-> name[i], wId |-> w, prompt |-> q, path |-> objects[i].path]]
      OBVIOUS
    <2>7. s \in Seq(Transaction) /\ Len(s) = Len(objects) /\ \A i \in DOMAIN s : s[i].prompt = q
      BY <2>5, <2>6, OpensType
    <2>8. Fits(s[Len(s)], prompts[q])
      <3>1. objects[1].path = None
        BY <1>1, <1>2, <1>4 DEF Ordered
      <3>2. s[1].path = None
        BY <2>2, <2>6, <3>1
      <3> QED BY <1>4, <2>2, <2>7, <3>2 DEF Fits
    <2> QED BY <2>1, <2>4, <2>6, <2>7, <2>8
  <1> QED BY <1>2, <1>3, <1>4 DEF CallPrompt

LEMMA CallPromptOrdered ==
  ASSUME IInv, PInv, Ordered, NEW q \in Prompt, NEW w \in WId, CallPrompt(q, w)
  PROVE  Ordered'
  <1>1. /\ q \in DOMAIN prompts /\ ~prompts[q].called /\ prompts[q] \in PromptRecord
        /\ queue \in Seq(Transaction) /\ current' = current
    BY DEF IInv, PromptTypes, QueueTypes, CallPrompt
  <1>2. PICK s \in Seq(Transaction) :
          /\ queue' = queue \o s /\ \A i \in DOMAIN s : s[i].prompt = q
          /\ s # <<>> => Fits(s[Len(s)], prompts[q])
    BY CallPromptEnds DEF IInv
  <1>3. PICK r : r = [prompts[q] EXCEPT !.called = TRUE, !.left = Len(prompts[q].objects)]
    OBVIOUS
  <1>4. prompts' = [prompts EXCEPT ![q] = r]
    BY <1>1, <1>3 DEF CallPrompt
  <1>5. /\ DOMAIN prompts' = DOMAIN prompts /\ prompts'[q] = r
        /\ \A z \in DOMAIN prompts \ {q} : prompts'[z] = prompts[z]
    BY <1>1, <1>4 DEF IInv, PromptTypes
  <1>6. SameObjects(prompts[q], r) /\ Refused(r) = Refused(prompts[q])
    BY <1>1, <1>3 DEF SameObjects, Refused, PromptRecord
  <1>7. (\A i \in DOMAIN queue : queue[i].prompt # q) /\ (current # None => current.prompt # q)
    <2>1. Outstanding(q) = 0
      <3>1. Sound(prompts[q], Outstanding(q)) /\ Outstanding(q) \in Nat
        BY <1>1, OutstandingType DEF PInv, Counted, IInv
      <3> QED BY <1>1, <1>3, <3>1, SoundCalled
    <2>2. Count(queue, q) \in Nat /\ Shown(q) \in {0, 1}
      BY <1>1, PlacesFinite DEF Shown
    <2>3. Count(queue, q) = 0 /\ Shown(q) = 0
      BY <2>1, <2>2, OutstandingIs
    <2> QED BY <1>1, <2>3, CountZero DEF Shown
  <1>8. ASSUME NEW z \in DOMAIN prompts
        PROVE  /\ SameObjects(prompts[z], prompts'[z])
               /\ Refused(prompts'[z]) = Refused(prompts[z])
    <2>1. CASE z = q
      BY <1>5, <1>6, <2>1
    <2>2. CASE z # q
      BY <1>5, <2>2 DEF SameObjects
    <2> QED BY <2>1, <2>2
  <1>9. ASSUME NEW z \in DOMAIN prompts, Refused(prompts[z]) = 0
        PROVE  Ends(queue', current', z, prompts'[z])
    <2>1. Ends(queue', current, z, prompts[z])
      <3>1. CASE z = q
        BY <1>1, <1>2, <1>7, <3>1, EndsConcat
      <3>2. CASE z # q
        <4>1. Ends(queue, current, z, prompts[z])
          BY <1>9 DEF Ordered
        <4>2. \A i \in DOMAIN s : s[i].prompt # z
          BY <1>2, <3>2
        <4> QED BY <1>1, <1>2, <4>1, <4>2, EndsConcat
      <3> QED BY <3>1, <3>2
    <2> QED BY <1>1, <1>8, <2>1, EndsSame
  <1> QED BY <1>5, <1>8, <1>9 DEF Ordered, SameObjects

\* A prompt of which a transaction was opened has failures only if it had some.
LEMMA OpenedKeepsObjects ==
  ASSUME IInv, PInv, NEW t \in Transaction, t.prompt \in DOMAIN prompts \cup {None},
         t.prompt = None => prompts' = prompts,
         t.prompt # None => \E path \in Path : prompts' = OpenedFor(t, path)
  PROVE  /\ DOMAIN prompts' = DOMAIN prompts
         /\ \A q \in DOMAIN prompts :
              /\ SameObjects(prompts[q], prompts'[q])
              /\ Refused(prompts'[q]) = 0 => Refused(prompts[q]) = 0
  <1>1. CASE t.prompt = None
    BY <1>1 DEF SameObjects
  <1>2. CASE t.prompt # None
    <2>1. PICK q \in DOMAIN prompts : q = t.prompt /\ prompts[q] \in PromptRecord
      BY <1>2 DEF IInv, PromptTypes
    <2>2. PICK path \in Path : prompts' = OpenedFor(t, path)
      BY <1>2
    <2>3. PICK r : r = [prompts[q] EXCEPT !.left = @ - 1,
                 !.registered = @ /\ prompts[q].left > 1,
                 !.result = Append(@, path),
                 !.completed = IF prompts[q].left = 1 THEN Append(@, FALSE) ELSE @]
      OBVIOUS
    <2>4. prompts' = [prompts EXCEPT ![q] = r]
      BY <2>1, <2>2, <2>3, Zenon DEF OpenedFor
    <2>5. /\ DOMAIN prompts' = DOMAIN prompts /\ prompts'[q] = r
          /\ \A z \in DOMAIN prompts \ {q} : prompts'[z] = prompts[z]
      BY <2>1, <2>4 DEF IInv, PromptTypes
    <2>6. SameObjects(prompts[q], r)
      BY <2>1, <2>3 DEF SameObjects, PromptRecord
    <2>7. Refused(r) = 0 => Refused(prompts[q]) = 0
      <3>1. PICK c, d : c = prompts[q].completed /\ d = r.completed
        OBVIOUS
      <3>2. c \in Seq(BOOLEAN)
        BY <2>1, <3>1 DEF PromptRecord
      <3>3. PICK l \in Nat : l = Len(c)
        BY <3>2
      <3>4. PICK n \in {0, 1} : n = IF prompts[q].dismissed THEN 1 ELSE 0
        OBVIOUS
      <3>5. /\ c = prompts[q].completed /\ d = r.completed
            /\ l = Len(c) /\ n = IF prompts[q].dismissed THEN 1 ELSE 0
        BY <3>1, <3>3, <3>4
      <3>6. Refused(prompts[q]) = l - n /\ l - n >= 0
        <4>1. Sound(prompts[q], Outstanding(q))
          BY DEF PInv, Counted
        <4>2. Refused(prompts[q]) = l - n
          BY <3>5 DEF Refused
        <4> QED BY <4>1, <4>2 DEF Sound
      <3>7. r.dismissed = prompts[q].dismissed
        BY <2>1, <2>3 DEF PromptRecord
      <3>8. d = c \/ d = Append(c, FALSE)
        BY <2>1, <2>3, <3>5 DEF PromptRecord
      <3>9. Len(d) = l \/ Len(d) = l + 1
        <4>1. Len(Append(c, FALSE)) = Len(c) + 1
          BY <3>2
        <4> QED BY <3>5, <3>8, <4>1
      <3>10. Refused(r) = Len(d) - n
        BY <3>5, <3>7 DEF Refused
      <3> QED BY <3>6, <3>9, <3>10
    <2>8. ASSUME NEW z \in DOMAIN prompts
          PROVE  /\ SameObjects(prompts[z], prompts'[z])
                 /\ Refused(prompts'[z]) = 0 => Refused(prompts[z]) = 0
      <3>1. CASE z = q
        BY <2>5, <2>6, <2>7, <3>1
      <3>2. CASE z # q
        BY <2>5, <3>2 DEF SameObjects
      <3> QED BY <3>1, <3>2
    <2> QED BY <2>5, <2>8
  <1> QED BY <1>1, <1>2

LEMMA BeginFoundOrdered ==
  ASSUME IInv, PInv, Ordered, NEW h \in Handle, BeginFound(h)
  PROVE  Ordered'
  <1>1. queue \in Seq(Transaction) /\ queue # <<>> /\ current = None
    BY DEF IInv, QueueTypes, BeginFound
  <1>2. PICK t \in Transaction, rest \in Seq(Transaction) : t = Head(queue) /\ rest = Tail(queue)
    BY <1>1, HeadAndTail
  <1>3. Succeed(t, h, collections, rest)
    BY <1>2 DEF BeginFound
  <1>4. /\ t.prompt = None => prompts' = prompts
        /\ t.prompt # None => \E path \in Path : prompts' = OpenedFor(t, path)
    BY <1>3, SucceedFacts DEF IInv, Types
  <1>5. current' = None /\ queue' = rest
    BY <1>3 DEF Succeed
  <1>6. t.prompt \in DOMAIN prompts \cup {None}
    <2>1. 1 \in DOMAIN queue /\ Head(queue) = queue[1]
      BY <1>1
    <2> QED BY <1>2, <2>1 DEF PInv, Answerable
  <1>7. /\ DOMAIN prompts' = DOMAIN prompts
        /\ \A q \in DOMAIN prompts :
             /\ SameObjects(prompts[q], prompts'[q])
             /\ Refused(prompts'[q]) = 0 => Refused(prompts[q]) = 0
    BY <1>4, <1>6, OpenedKeepsObjects
  <1>8. ASSUME NEW q \in DOMAIN prompts, Refused(prompts'[q]) = 0
        PROVE  Ends(queue', current', q, prompts'[q])
    <2>1. Ends(queue, None, q, prompts[q])
      BY <1>1, <1>7, <1>8 DEF Ordered
    <2>2. Ends(rest, None, q, prompts[q])
      BY <1>1, <1>2, <2>1, EndsTail
    <2> QED BY <1>5, <1>7, <2>2, EndsSame
  <1> QED BY <1>7, <1>8 DEF Ordered, SameObjects

LEMMA BeginDialogOrdered ==
  ASSUME IInv, Ordered, BeginDialog
  PROVE  Ordered'
  <1>1. queue \in Seq(Transaction) /\ queue # <<>> /\ current = None
    BY DEF IInv, QueueTypes, BeginDialog
  <1>2. current' = Head(queue) /\ queue' = Tail(queue) /\ prompts' = prompts
    BY DEF BeginDialog, service
  <1>3. ASSUME NEW q \in DOMAIN prompts, Refused(prompts[q]) = 0
        PROVE  Ends(queue', current', q, prompts[q])
    <2>1. Ends(queue, None, q, prompts[q])
      BY <1>1, <1>3 DEF Ordered
    <2> QED BY <1>1, <1>2, <2>1, EndsTail
  <1> QED BY <1>2, <1>3 DEF Ordered

LEMMA CreatedType ==
  ASSUME IInv, NEW n \in Name
  PROVE  CollectionsType(WalletCreated(n))
  <1>1. CollectionsType(collections) /\ None \in Handle \cup {None}
    BY DEF IInv, Types
  <1> QED BY <1>1, AddFacts DEF WalletCreated

LEMMA AcceptOrdered ==
  ASSUME IInv, PInv, Ordered, NEW h \in Handle, Accept(h)
  PROVE  Ordered'
  <1>1. PICK t \in Transaction : t = current /\ current # None
    BY DEF IInv, QueueTypes, Accept
  <1>2. PICK C : C = WalletCreated(t.wallet)
    OBVIOUS
  <1>3. Succeed(t, h, C, queue) /\ CollectionsType(C)
    <2>1. t.wallet \in Name
      BY DEF Transaction
    <2> QED BY <1>1, <1>2, <2>1, CreatedType DEF Accept
  <1>4. /\ t.prompt = None => prompts' = prompts
        /\ t.prompt # None => \E path \in Path : prompts' = OpenedFor(t, path)
    BY <1>3, SucceedFacts DEF IInv, QueueTypes
  <1>5. current' = None /\ queue' = queue
    BY <1>3 DEF Succeed
  <1>6. t.prompt \in DOMAIN prompts \cup {None}
    BY <1>1 DEF PInv, Answerable
  <1>7. /\ DOMAIN prompts' = DOMAIN prompts
        /\ \A q \in DOMAIN prompts :
             /\ SameObjects(prompts[q], prompts'[q])
             /\ Refused(prompts'[q]) = 0 => Refused(prompts[q]) = 0
    BY <1>4, <1>6, OpenedKeepsObjects
  <1>8. ASSUME NEW q \in DOMAIN prompts, Refused(prompts'[q]) = 0
        PROVE  Ends(queue', current', q, prompts'[q])
    <2>1. Ends(queue, current, q, prompts[q])
      BY <1>7, <1>8 DEF Ordered
    <2>2. Ends(queue, None, q, prompts[q])
      BY <2>1 DEF Ends
    <2> QED BY <1>5, <1>7, <2>2, EndsSame
  <1> QED BY <1>7, <1>8 DEF Ordered, SameObjects

\* The prompts Cancel() refuses, and those it leaves with all their transactions.
LEMMA CancelFacts ==
  ASSUME IInv, PInv, Cancel, NEW q \in DOMAIN prompts
  PROVE  /\ q \in DOMAIN prompts' /\ SameObjects(prompts[q], prompts'[q])
         /\ \/ /\ prompts'[q] = prompts[q]
               /\ \A i \in DOMAIN queue : queue[i].prompt = q => i \notin Same
            \/ /\ Refused(prompts'[q]) > 0 /\ prompts'[q].completed # <<>>
               /\ prompts'[q].completed[Len(prompts'[q].completed)] = TRUE
  <1>1. PICK S : S = {<<i, queue[i]>> : i \in Same} \cup {<<0, current>>}
    OBVIOUS
  <1>2. prompts' = FailedFor(S) /\ current # None
    BY <1>1 DEF Cancel, Same
  <1>3. PICK P : P = Places(queue, q) \cap Same
    OBVIOUS
  <1>4. IsFiniteSet(P)
    <2>1. IsFiniteSet(Places(queue, q))
      BY PlacesFinite DEF IInv, QueueTypes
    <2> QED BY <1>3, <2>1, FS_Subset
  <1>5. Cardinality(P) \in Nat /\ Shown(q) \in {0, 1}
    BY <1>4, FS_CardinalityType DEF Shown
  <1>6. PICK k \in Nat : k = Failures(q, S) /\ k = Cardinality(P) + Shown(q)
    BY <1>1, <1>2, <1>3, <1>5, FailuresAre DEF IInv
  <1>7. PICK s : s = [i \in 1 .. k |-> TRUE]
    OBVIOUS
  <1>8. PICK r : r = [prompts[q] EXCEPT !.registered = FALSE, !.completed = @ \o s]
    OBVIOUS
  <1>9. q \in DOMAIN prompts' /\ prompts'[q] = IF k = 0 THEN prompts[q] ELSE r
    BY <1>2, <1>6, <1>7, <1>8 DEF FailedFor
  <1>10. prompts[q] \in PromptRecord
    BY DEF IInv, PromptTypes
  <1>11. SameObjects(prompts[q], r) /\ SameObjects(prompts[q], prompts[q])
    BY <1>8, <1>10 DEF SameObjects, PromptRecord
  <1>12. CASE k = 0
    <2>1. Cardinality(P) = 0
      BY <1>5, <1>6, <1>12
    <2>2. P = {}
      BY <1>4, <2>1, FS_EmptySet
    <2>3. \A i \in DOMAIN queue : queue[i].prompt = q => i \notin Same
      BY <1>3, <2>2 DEF Places
    <2> QED BY <1>9, <1>11, <1>12, <2>3
  <1>13. CASE k # 0
    <2>1. PICK B, c, d : B = BOOLEAN /\ c = prompts[q].completed /\ d = r.completed
      OBVIOUS
    <2>2. s \in [1 .. k -> B]
      BY <1>7, <2>1
    <2>3. s \in Seq(B) /\ Len(s) = k
      BY <2>2, SequenceOf
    <2>4. c \in Seq(B) /\ d = c \o s
      BY <1>8, <1>10, <2>1 DEF PromptRecord
    <2>5. /\ Len(c) \in Nat /\ Len(d) = Len(c) + k
          /\ DOMAIN d = 1 .. Len(c) + k /\ d[Len(c) + k] = s[k]
      <3>1. /\ Len(c) \in Nat /\ Len(d) = Len(c) + Len(s)
            /\ DOMAIN d = 1 .. Len(c) + Len(s)
            /\ \A i \in 1 .. Len(s) : d[Len(c) + i] = s[i]
        <4>1. c \in Seq(B) /\ s \in Seq(B) /\ d = c \o s
          BY <2>3, <2>4
        <4> QED BY <4>1, ConcatIndex
      <3>2. k \in 1 .. k
        BY <1>13
      <3> QED BY <2>3, <3>1, <3>2
    <2>6. s[k] = TRUE
      BY <1>7, <1>13
    <2>7. d # <<>> /\ d[Len(d)] = TRUE
      <3>1. Len(d) \in DOMAIN d
        BY <1>13, <2>5
      <3> QED BY <2>5, <2>6, <3>1
    <2>8. PICK n \in {0, 1} : n = IF prompts[q].dismissed THEN 1 ELSE 0
      OBVIOUS
    <2>9. Refused(prompts[q]) = Len(c) - n /\ Len(c) - n >= 0
      <3>1. Sound(prompts[q], Outstanding(q))
        BY DEF PInv, Counted
      <3>2. Refused(prompts[q]) = Len(c) - n
        BY <2>1, <2>8 DEF Refused
      <3> QED BY <3>1, <3>2 DEF Sound
    <2>10. Refused(r) = Len(d) - n
      <3>1. r.dismissed = prompts[q].dismissed
        BY <1>8, <1>10 DEF PromptRecord
      <3> QED BY <2>1, <2>8, <3>1 DEF Refused
    <2>11. Refused(r) > 0
      BY <1>13, <2>5, <2>8, <2>9, <2>10
    <2> QED BY <1>9, <1>11, <1>13, <2>1, <2>7, <2>11
  <1> QED BY <1>12, <1>13

LEMMA CancelOrdered ==
  ASSUME IInv, PInv, Ordered, Cancel
  PROVE  Ordered'
  <1>1. /\ queue' = [i \in DOMAIN queue |->
                       IF i \in Same THEN [queue[i] EXCEPT !.prompt = None] ELSE queue[i]]
        /\ current' = None /\ queue \in Seq(Transaction)
        /\ DOMAIN prompts' = DOMAIN prompts
    BY DEF Cancel, FailedFor, IInv, QueueTypes, Same
  <1>2. ASSUME NEW i \in DOMAIN queue, i \in Same PROVE queue'[i].prompt = None
    <2>1. queue[i] \in Transaction
      BY <1>1
    <2>2. [queue[i] EXCEPT !.prompt = None].prompt = None
      BY <2>1 DEF Transaction
    <2> QED BY <1>1, <1>2, <2>2
  <1>3. ASSUME NEW q \in DOMAIN prompts, Refused(prompts'[q]) = 0
        PROVE  Ends(queue', current', q, prompts'[q])
    <2>1. /\ prompts'[q] = prompts[q]
          /\ \A i \in DOMAIN queue : queue[i].prompt = q => i \notin Same
      <3>1. ~(Refused(prompts'[q]) > 0)
        BY <1>3
      <3> QED BY <3>1, CancelFacts
    <2>2. Ends(queue, current, q, prompts[q])
      BY <1>3, <2>1 DEF Ordered
    <2>3. q # None
      BY ConstantsAssumption DEF IInv, PromptTypes
    <2>4. /\ DOMAIN queue' = DOMAIN queue
          /\ \A i \in DOMAIN queue : queue'[i].prompt = q <=> queue[i].prompt = q
          /\ \A i \in DOMAIN queue : queue[i].prompt = q => queue'[i] = queue[i]
      BY <1>1, <1>2, <2>1, <2>3
    <2> QED BY <1>1, <2>1, <2>2, <2>4 DEF Ends
  <1>4. \A q \in DOMAIN prompts : SameObjects(prompts[q], prompts'[q])
    BY CancelFacts
  <1> QED BY <1>1, <1>3, <1>4 DEF Ordered, SameObjects

LEMMA DieOrdered ==
  ASSUME Die
  PROVE  Ordered'
  BY EmptyFacts DEF Die, Ordered

LEMMA CollectionCallsAside ==
  ASSUME CollectionCalls
  PROVE  Die \/ UNCHANGED <<prompts, queue, current>>
  <1>1. PICK p \in DOMAIN collections :
          \/ Delete(p)
          \/ \E label \in Labels : SetLabel(p, label)
          \/ \E a \in Alias : SetAlias(a, p)
    BY DEF CollectionCalls
  <1>2. CASE Delete(p)
    BY <1>2 DEF Delete, transactions
  <1>3. ASSUME NEW label \in Labels, SetLabel(p, label)
        PROVE  Die \/ UNCHANGED <<prompts, queue, current>>
    BY <1>3 DEF SetLabel, transactions
  <1>4. ASSUME NEW a \in Alias, SetAlias(a, p)
        PROVE  UNCHANGED <<prompts, queue, current>>
    BY <1>4 DEF SetAlias, transactions
  <1> QED BY <1>1, <1>2, <1>3, <1>4

LEMMA NextOrdered == IInv /\ PInv /\ Ordered /\ [Next]_vars => Ordered'
  <1> SUFFICES ASSUME IInv, PInv, Ordered, [Next]_vars PROVE Ordered'
    OBVIOUS
  <1>1. CASE Begin
    BY <1>1, BeginDialogOrdered, BeginFoundOrdered DEF Begin
  <1>2. CASE DialogEnds
    BY <1>2, CancelOrdered, AcceptOrdered DEF DialogEnds
  <1>3. CASE PromptCalls
    <2>1. PICK q \in Prompt :
            \/ \E k \in 1 .. MaxObjects[q] : \E objects \in [1 .. k -> DOMAIN collections] :
                 CallUnlock(q, objects)
            \/ \E label \in Name, a \in Alias \cup {None} : CallCreateCollection(q, label, a)
            \/ \E w \in WId : CallPrompt(q, w)
            \/ CallDismiss(q)
      BY <1>3 DEF PromptCalls
    <2>2. ASSUME NEW objects, CallUnlock(q, objects)
          PROVE  Ordered'
      <3>1. PICK s, p : p = NewPrompt("Open", s, None) /\ prompts' = With(prompts, q, p)
        BY <2>2 DEF CallUnlock
      <3>2. q \notin DOMAIN prompts /\ UNCHANGED <<queue, current>>
        BY <2>2 DEF CallUnlock, transactions
      <3> QED BY <3>1, <3>2, NewPromptOrdered
    <2>3. ASSUME NEW label \in Name, NEW a \in Alias \cup {None}, CallCreateCollection(q, label, a)
          PROVE  Ordered'
      <3>1. PICK s : s = <<[wallet |-> label, path |-> None]>>
        OBVIOUS
      <3>2. s[1].path = None
        BY <3>1
      <3>3. PICK p : p = NewPrompt("Create", s, a)
        OBVIOUS
      <3>4. q \notin DOMAIN prompts /\ prompts' = With(prompts, q, p) /\ UNCHANGED <<queue, current>>
        BY <2>3, <3>1, <3>3 DEF CallCreateCollection, transactions
      <3> QED BY <3>2, <3>3, <3>4, NewPromptOrdered
    <2> QED BY <2>1, <2>2, <2>3, CallPromptOrdered, CallDismissOrdered
  <1>4. CASE CollectionCalls
    BY <1>4, CollectionCallsAside, DieOrdered, OrderedUnchanged
  <1>5. CASE DaemonCalls
    <2>1. CASE \E h \in Handle : Close(h)
      <3>1. UNCHANGED <<prompts, queue, current>>
        BY <2>1 DEF Close, transactions
      <3> QED BY <3>1, OrderedUnchanged
    <2> QED BY <1>5, <2>1, OtherOpenOrdered DEF DaemonCalls
  <1>6. CASE WatchDirectory \/ Start \/ (\E n \in Name : ExternalRemove(n)) \/ UNCHANGED vars
    <2>1. UNCHANGED <<prompts, queue, current>>
      BY <1>6 DEF WatchDirectory, Start, ExternalRemove, vars, service, transactions
    <2> QED BY <2>1, OrderedUnchanged
  <1>7. CASE Kill
    BY <1>7, DieOrdered DEF Kill
  <1> QED BY <1>1, <1>2, <1>3, <1>4, <1>5, <1>6, <1>7 DEF Next

LEMMA OrderedInvariant == Spec => [](IInv /\ PInv /\ Ordered)
  <1>1. Init => Ordered
    BY EmptyFacts DEF Init, Ordered
  <1> QED BY <1>1, InitIInv, InitPInv, NextIInv, NextPInv, NextOrdered, PTL DEF Spec

-----------------------------------------------------------------------------
(* What a prompt has opened when it completes *)

\* The collection opened last for prompt p, among C, is unlocked if it is still
\* of the wallet the prompt was made for and that is not among the names D.
Unlocked(p, C, D, opened) ==
  LET r == p.result[Len(p.result)]
  IN r \in DOMAIN C /\ C[r].wallet \notin D
     /\ (p.type = "Open" => C[r].wallet = p.objects[Len(p.objects)].wallet)
     => C[r].handle \in opened

LEMMA LastOf ==
  ASSUME NEW S, NEW s \in Seq(S), NEW x \in S, NEW u, u = Append(s, x)
  PROVE  u[Len(u)] = x
  OBVIOUS

\* A transaction that leaves completes its own prompt alone, being its last,
\* and the collection it opens is that of the result.
LEMMA SucceedUnlocks ==
  ASSUME IInv, PInv, IInv', up', NEW t \in Transaction, NEW h \in Handle, h \in Opened',
         NEW C, CollectionsType(C), NEW rest, Succeed(t, h, C, rest),
         NEW q \in DOMAIN prompts, prompts'[q].completed # prompts[q].completed,
         t.prompt = q => Outstanding(q) > 0,
         t.prompt = q /\ Outstanding(q) = 1 /\ Refused(prompts[q]) = 0 => Fits(t, prompts[q])
  PROVE  Unlocked(prompts'[q], collections', doubtful', Opened')
  <1>1. prompts[q] \in PromptRecord /\ q # None /\ prompts = [z \in DOMAIN prompts |-> prompts[z]]
    BY ConstantsAssumption DEF IInv, PromptTypes
  <1>2. t.prompt = q
    <2>1. CASE t.prompt = None
      <3>1. prompts' = prompts
        BY <2>1 DEF Succeed
      <3> QED BY <3>1
    <2>2. CASE t.prompt # None /\ t.prompt # q
      <3>1. \E path : prompts' = OpenedFor(t, path)
        BY <2>2 DEF Succeed
      <3>2. prompts'[q] = prompts[q]
        BY <2>2, <3>1 DEF OpenedFor
      <3> QED BY <3>2
    <2> QED BY <2>1, <2>2
  <1>3. PICK n \in Name, path \in Path \cup {None} : n = t.wallet /\ path = t.path
    BY DEF Transaction
  <1>4. PICK D : D = collections'
    OBVIOUS
  <1>5. CollectionsType(D) /\ D[First(D, n)].handle = h /\ First(D, n) \in Of(D, n)
    <2>1. D = Unlock(C, n, h)
      BY <1>1, <1>2, <1>3, <1>4 DEF Succeed
    <2>2. CollectionsType(D) /\ Unlocks(C, D, n, h)
      BY <2>1, UnlockFacts
    <2>3. Of(D, n) # {} /\ DOMAIN D \subseteq Path
      BY <2>2 DEF Unlocks, CollectionsType
    <2> QED BY <2>2, <2>3, FirstIsOf DEF Unlocks
  <1>6. PICK x : x = IF path = None THEN First(D, n) ELSE path
    OBVIOUS
  <1>7. prompts' = OpenedFor(t, x) /\ x \in Path
    <2>1. prompts' = OpenedFor(t, x)
      BY <1>1, <1>2, <1>3, <1>4, <1>6 DEF Succeed
    <2>2. x \in Path
      BY <1>5, <1>6 DEF Of, CollectionsType
    <2> QED BY <2>1, <2>2
  <1>8. PICK r : r = [prompts[q] EXCEPT !.left = @ - 1,
               !.registered = @ /\ prompts[q].left > 1,
               !.result = Append(@, x),
               !.completed = IF prompts[q].left = 1 THEN Append(@, FALSE) ELSE @]
    OBVIOUS
  <1>9. prompts'[q] = r
    <2>1. prompts' = [prompts EXCEPT ![q] = r]
      BY <1>2, <1>7, <1>8, Zenon DEF OpenedFor
    <2> QED BY <1>1, <2>1
  <1>10. /\ r.type = prompts[q].type /\ r.objects = prompts[q].objects
         /\ r.result = Append(prompts[q].result, x)
         /\ r.completed = IF prompts[q].left = 1 THEN Append(prompts[q].completed, FALSE)
                          ELSE prompts[q].completed
    BY <1>1, <1>8 DEF PromptRecord
  <1>11. r.result[Len(r.result)] = x
    <2>1. prompts[q].result \in Seq(Path)
      BY <1>1 DEF PromptRecord
    <2> QED BY <1>7, <1>10, <2>1, LastOf
  <1>12. Outstanding(q) = 1 /\ Refused(prompts[q]) = 0
    <2>1. prompts[q].left = 1
      BY <1>9, <1>10
    <2>2. Sound(prompts[q], Outstanding(q)) /\ Outstanding(q) \in Nat /\ Outstanding(q) > 0
      BY <1>2, OutstandingType DEF PInv, Counted, IInv
    <2>3. prompts[q].called = TRUE
      BY <1>1, <2>1, <2>2 DEF Sound, PromptRecord
    <2>4. prompts[q].left = Outstanding(q) + Refused(prompts[q]) /\ Refused(prompts[q]) >= 0
      BY <2>2, <2>3 DEF Sound
    <2>5. Refused(prompts[q]) \in Int
      <3>1. Len(prompts[q].completed) \in Nat
        BY <1>1 DEF PromptRecord
      <3> QED BY <3>1 DEF Refused
    <2> QED BY <2>1, <2>2, <2>4, <2>5
  <1>13. Fits(t, prompts[q])
    BY <1>2, <1>12
  <1>14. CASE prompts[q].type = "Open"
    <2>1. n = r.objects[Len(r.objects)].wallet
      BY <1>3, <1>10, <1>13, <1>14 DEF Fits
    <2>2. ASSUME x \in DOMAIN D, D[x].wallet \notin doubtful', D[x].wallet = n
          PROVE  D[x].handle \in Opened'
      <3>1. Linked(n)'
        BY <1>3, <2>2 DEF IInv, Links
      <3>2. x \in Of(D, n)
        BY <2>2 DEF Of
      <3>3. x = First(D, n)
        BY <1>4, <1>5, <3>1, <3>2 DEF Linked
      <3> QED BY <1>5, <3>3
    <2> QED BY <1>4, <1>9, <1>10, <1>11, <1>14, <2>1, <2>2 DEF Unlocked
  <1>15. CASE prompts[q].type # "Open"
    <2>1. x = First(D, n)
      BY <1>3, <1>6, <1>13, <1>15 DEF Fits
    <2> QED BY <1>4, <1>5, <1>9, <1>11, <2>1 DEF Unlocked
  <1> QED BY <1>14, <1>15

LEMMA BeginFoundUnlocks ==
  ASSUME IInv, PInv, Ordered, IInv', NEW h \in Handle, BeginFound(h),
         NEW q \in DOMAIN prompts, prompts'[q].completed # prompts[q].completed
  PROVE  Unlocked(prompts'[q], collections', doubtful', Opened')
  <1>1. /\ queue \in Seq(Transaction) /\ queue # <<>> /\ current = None
        /\ up' /\ h \in Opened'
    BY DEF IInv, QueueTypes, BeginFound, FindWallet, Opened
  <1>2. PICK t \in Transaction, rest \in Seq(Transaction) : t = Head(queue) /\ rest = Tail(queue)
    BY <1>1, HeadAndTail
  <1>3. Succeed(t, h, collections, rest) /\ CollectionsType(collections)
    BY <1>2 DEF BeginFound, IInv, Types
  <1>4. Outstanding(q) = Count(queue, q) /\ Count(queue, q) \in Nat /\ Count(rest, q) \in Nat
    <2>1. Count(queue, q) \in Nat /\ Count(rest, q) \in Nat /\ Shown(q) = 0
      BY <1>1, PlacesFinite DEF Shown
    <2> QED BY <2>1, OutstandingIs
  <1>5. Count(queue, q) = Count(rest, q) + (IF t.prompt = q THEN 1 ELSE 0)
    BY <1>1, <1>2, CountTail
  <1>6. t.prompt = q => Outstanding(q) > 0
    BY <1>4, <1>5
  <1>7. ASSUME t.prompt = q, Outstanding(q) = 1, Refused(prompts[q]) = 0
        PROVE  Fits(t, prompts[q])
    <2>1. Count(rest, q) = 0
      BY <1>4, <1>5, <1>7
    <2>2. \A i \in DOMAIN rest : rest[i].prompt # q
      BY <2>1, CountZero
    <2>3. Ends(queue, None, q, prompts[q])
      BY <1>1, <1>7 DEF Ordered
    <2>4. Ends(rest, t, q, prompts[q])
      BY <1>1, <1>2, <2>3, EndsTail
    <2>5. t # None
      BY ConstantsAssumption DEF Transaction, Path
    <2> QED BY <1>7, <2>2, <2>4, <2>5 DEF Ends
  <1> QED BY <1>1, <1>3, <1>6, <1>7, SucceedUnlocks

LEMMA AcceptUnlocks ==
  ASSUME IInv, PInv, Ordered, IInv', NEW h \in Handle, Accept(h),
         NEW q \in DOMAIN prompts, prompts'[q].completed # prompts[q].completed
  PROVE  Unlocked(prompts'[q], collections', doubtful', Opened')
  <1>1. PICK t \in Transaction : t = current /\ current # None
    BY DEF IInv, QueueTypes, Accept
  <1>2. PICK C : C = WalletCreated(t.wallet)
    OBVIOUS
  <1>3. Succeed(t, h, C, queue) /\ CollectionsType(C)
    <2>1. t.wallet \in Name
      BY DEF Transaction
    <2> QED BY <1>1, <1>2, <2>1, CreatedType DEF Accept
  <1>4. up' /\ h \in Opened'
    BY DEF Accept, With, Opened
  <1>5. Count(queue, q) \in Nat /\ Outstanding(q) = Count(queue, q) + Shown(q)
    BY OutstandingType, PlacesFinite DEF IInv, QueueTypes
  <1>6. t.prompt = q => Shown(q) = 1
    BY <1>1 DEF Shown
  <1>7. t.prompt = q => Outstanding(q) > 0
    BY <1>5, <1>6
  <1>8. ASSUME t.prompt = q, Outstanding(q) = 1, Refused(prompts[q]) = 0
        PROVE  Fits(t, prompts[q])
    <2>1. Count(queue, q) = 0
      BY <1>5, <1>6, <1>8
    <2>2. \A i \in DOMAIN queue : queue[i].prompt # q
      BY <2>1, CountZero DEF IInv, QueueTypes
    <2> QED BY <1>1, <1>8, <2>2 DEF Ordered, Ends
  <1> QED BY <1>3, <1>4, <1>7, <1>8, SucceedUnlocks

\* Completed(false) is sent by a transaction that leaves and by nothing else.
LEMMA OnlyOpened ==
  ASSUME IInv, PInv, [Next]_vars, NEW q \in DOMAIN prompts, q \in DOMAIN prompts',
         prompts'[q].completed # prompts[q].completed,
         prompts'[q].completed[Len(prompts'[q].completed)] # TRUE
  PROVE  \E h \in Handle : BeginFound(h) \/ Accept(h)
  <1> SUFFICES ASSUME ~ \E h \in Handle : BeginFound(h) \/ Accept(h) PROVE FALSE
    OBVIOUS
  <1>1. prompts = [z \in DOMAIN prompts |-> prompts[z]] /\ prompts[q] \in PromptRecord
    BY DEF IInv, PromptTypes
  <1>2. prompts' # prompts
    OBVIOUS
  <1>3. ~Die
    BY EmptyFacts DEF Die
  <1>4. CASE Begin
    BY <1>2, <1>4 DEF Begin, BeginDialog, service
  <1>5. CASE DialogEnds
    <2>1. Cancel
      BY <1>5 DEF DialogEnds
    <2> QED BY <2>1, CancelFacts
  <1>6. CASE PromptCalls
    <2>1. PICK p \in Prompt :
            \/ \E k \in 1 .. MaxObjects[p] : \E objects \in [1 .. k -> DOMAIN collections] :
                 CallUnlock(p, objects)
            \/ \E label \in Name, a \in Alias \cup {None} : CallCreateCollection(p, label, a)
            \/ \E w \in WId : CallPrompt(p, w)
            \/ CallDismiss(p)
      BY <1>6 DEF PromptCalls
    <2>2. ASSUME p \notin DOMAIN prompts, NEW x, prompts' = With(prompts, p, x) PROVE FALSE
      <3>1. q # p /\ With(prompts, p, x)[q] = prompts[q]
        BY <2>2 DEF With
      <3> QED BY <2>2, <3>1
    <2>3. CASE \E w \in WId : CallPrompt(p, w)
      <3>1. prompts' = [prompts EXCEPT ![p].called = TRUE, ![p].left = Len(prompts[p].objects)]
        BY <2>3 DEF CallPrompt
      <3>2. prompts'[q].completed = prompts[q].completed
        BY <1>1, <3>1 DEF PromptRecord
      <3> QED BY <3>2
    <2>4. CASE CallDismiss(p)
      <3>1. PICK r : r = [prompts[p] EXCEPT !.registered = FALSE, !.dismissed = TRUE,
                                            !.completed = Append(@, TRUE)]
        OBVIOUS
      <3>2. prompts' = [prompts EXCEPT ![p] = r]
        BY <2>4, <3>1 DEF CallDismiss
      <3>3. p = q /\ prompts'[q] = r
        BY <1>1, <3>2
      <3>4. r.completed = Append(prompts[q].completed, TRUE)
        BY <1>1, <3>1, <3>3 DEF PromptRecord
      <3>5. prompts[q].completed \in Seq(BOOLEAN) /\ TRUE \in BOOLEAN
        BY <1>1 DEF PromptRecord
      <3>6. r.completed[Len(r.completed)] = TRUE
        BY <3>4, <3>5, LastOf
      <3> QED BY <3>3, <3>6
    <2>5. CASE \E objects : CallUnlock(p, objects)
      BY <2>2, <2>5 DEF CallUnlock
    <2>6. CASE \E label \in Name, a \in Alias \cup {None} : CallCreateCollection(p, label, a)
      BY <2>2, <2>6 DEF CallCreateCollection
    <2> QED BY <2>1, <2>3, <2>4, <2>5, <2>6
  <1>7. CASE CollectionCalls
    BY <1>2, <1>3, <1>7, CollectionCallsAside
  <1>8. CASE DaemonCalls
    BY <1>2, <1>8 DEF DaemonCalls, Close, OtherOpen, service
  <1>9. CASE WatchDirectory \/ Start \/ Kill \/ (\E n \in Name : ExternalRemove(n)) \/ UNCHANGED vars
    BY <1>2, <1>3, <1>9 DEF WatchDirectory, Start, Kill, ExternalRemove, vars, service
  <1> QED BY <1>4, <1>5, <1>6, <1>7, <1>8, <1>9 DEF Next

\* When a prompt completes, the collection opened last is unlocked, unless it
\* was renamed or deleted since Unlock() and the prompt opened another wallet.
THEOREM CompletionUnlocks == Spec => CompletedIsUnlocked
  <1>1. IInv /\ PInv /\ Ordered /\ IInv' /\ [Next]_vars =>
          \A q \in DOMAIN prompts \cap DOMAIN prompts' :
            prompts'[q].completed # prompts[q].completed
            /\ prompts'[q].completed[Len(prompts'[q].completed)] # TRUE
            => Unlocked(prompts'[q], collections', doubtful', Opened')
    <2> SUFFICES ASSUME IInv, PInv, Ordered, IInv', [Next]_vars,
                        NEW q \in DOMAIN prompts \cap DOMAIN prompts',
                        prompts'[q].completed # prompts[q].completed,
                        prompts'[q].completed[Len(prompts'[q].completed)] # TRUE
                 PROVE  Unlocked(prompts'[q], collections', doubtful', Opened')
      OBVIOUS
    <2>1. PICK h \in Handle : BeginFound(h) \/ Accept(h)
      BY OnlyOpened
    <2> QED BY <2>1, BeginFoundUnlocks, AcceptUnlocks
  <1>2. IInv /\ PInv /\ Ordered /\ IInv' /\ [Next]_vars =>
          \A q \in DOMAIN prompts \cap DOMAIN prompts' :
            LET p == prompts'[q]
                r == p.result[Len(p.result)]
            IN p.completed # prompts[q].completed /\ ~p.completed[Len(p.completed)]
               /\ r \in DOMAIN collections' /\ collections'[r].wallet \notin doubtful'
               /\ (p.type = "Open" => collections'[r].wallet = p.objects[Len(p.objects)].wallet)
               => collections'[r].handle \in Opened'
    BY <1>1 DEF Unlocked
  <1> QED BY <1>2, OrderedInvariant, NextIInv, PTL DEF Spec, CompletedIsUnlocked
=============================================================================
