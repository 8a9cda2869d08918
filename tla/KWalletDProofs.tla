--------------------------- MODULE KWalletDProofs ---------------------------
(* Theorems about KWalletD, for any wallets, applications, objects and bounds. *)
EXTENDS KWalletD, FiniteSetTheorems, TLAPS

-----------------------------------------------------------------------------
(* Sequences of signals, and sets of sessions *)

LEMMA AppendFacts ==
  ASSUME NEW S, NEW q \in Seq(S), NEW m \in S
  PROVE  /\ Append(q, m) \in Seq(S)
         /\ Len(q) \in Nat /\ Len(Append(q, m)) = Len(q) + 1
         /\ DOMAIN q = 1 .. Len(q)
         /\ DOMAIN Append(q, m) = 1 .. Len(q) + 1
         /\ \A i \in 1 .. Len(q) : Append(q, m)[i] = q[i]
         /\ Append(q, m)[Len(q) + 1] = m
  OBVIOUS

LEMMA TailFacts ==
  ASSUME NEW S, NEW q \in Seq(S), q # <<>>
  PROVE  /\ Tail(q) \in Seq(S)
         /\ Len(q) \in Nat \ {0} /\ Len(Tail(q)) = Len(q) - 1
         /\ DOMAIN q = 1 .. Len(q)
         /\ DOMAIN Tail(q) = 1 .. Len(q) - 1
         /\ \A i \in 1 .. Len(q) - 1 : Tail(q)[i] = q[i + 1]
         /\ Head(q) = q[1] /\ Head(q) \in S
  OBVIOUS

LEMMA QueuedAppend ==
  ASSUME NEW S, NEW q \in Seq(S), NEW m \in S
  PROVE  Queued(Append(q, m)) = Queued(q) \cup {m}
  <1>1. /\ DOMAIN Append(q, m) = DOMAIN q \cup {Len(q) + 1}
        /\ \A i \in DOMAIN q : Append(q, m)[i] = q[i]
        /\ Append(q, m)[Len(q) + 1] = m
    BY AppendFacts
  <1> QED BY <1>1, Zenon DEF Queued

LEMMA QueuedTail ==
  ASSUME NEW S, NEW q \in Seq(S), q # <<>>
  PROVE  Queued(q) = {Head(q)} \cup Queued(Tail(q))
  <1>1. \A i \in DOMAIN q : q[i] = Head(q) \/ \E k \in DOMAIN Tail(q) : Tail(q)[k] = q[i]
    <2> SUFFICES ASSUME NEW i \in DOMAIN q, i # 1
                 PROVE  \E k \in DOMAIN Tail(q) : Tail(q)[k] = q[i]
      BY TailFacts
    <2>1. i - 1 \in DOMAIN Tail(q) /\ Tail(q)[i - 1] = q[i]
      BY TailFacts
    <2> QED BY <2>1
  <1>2. \A k \in DOMAIN Tail(q) : k + 1 \in DOMAIN q /\ Tail(q)[k] = q[k + 1]
    BY TailFacts
  <1>3. 1 \in DOMAIN q /\ Head(q) = q[1]
    BY TailFacts
  <1> QED BY <1>1, <1>2, <1>3 DEF Queued

LEMMA WithoutFacts ==
  ASSUME NEW S
  PROVE  /\ DOMAIN Without(S) = DOMAIN sessions \ S
         /\ \A s \in DOMAIN sessions \ S : Without(S)[s] = sessions[s]
  BY DEF Without

LEMMA NoSessionsFacts == DOMAIN NoSessions = {}
  BY DEF NoSessions

-----------------------------------------------------------------------------
(* Types *)

SessionsType(t) == DOMAIN t \subseteq Handle \X App /\ t \in [DOMAIN t -> Name]

LEMMA TypeParts == TypeOK => SessionsType(sessions)
  BY DEF TypeOK, SessionsType

LEMMA FewerSessionsType ==
  ASSUME TypeOK, NEW S
  PROVE  SessionsType(Without(S)) /\ SessionsType(NoSessions)
  <1>1. SessionsType(Without(S))
    BY DEF TypeOK, SessionsType, Without
  <1>2. SessionsType(NoSessions)
    BY DEF SessionsType, NoSessions
  <1> QED BY <1>1, <1>2

LEMMA BroadcastType ==
  ASSUME NEW m \in Signal, NEW box \in [Process -> Seq(Signal)]
  PROVE  Broadcast(m, box) \in [Process -> Seq(Signal)]
  <1>1. \A p \in Process : Append(box[p], m) \in Seq(Signal)
    BY AppendFacts
  <1> QED BY <1>1 DEF Broadcast

LEMMA ToldType ==
  ASSUME TypeOK, NEW w \in [App -> SUBSET Name]
  PROVE  Told(w) \in [Process -> Seq(Signal)]
  <1> SUFFICES ASSUME NEW p \in Process
               PROVE  Append(inbox[p], [type |-> "applicationDisconnected",
                                        wallets |-> w[appid[p]]]) \in Seq(Signal)
    BY DEF Told, TypeOK
  <1>1. w[appid[p]] \in SUBSET Name
    BY DEF TypeOK
  <1>2. [type |-> "applicationDisconnected", wallets |-> w[appid[p]]] \in Signal
    BY <1>1 DEF Signal
  <1> QED BY <1>2, AppendFacts DEF TypeOK

LEMMA AfterType ==
  ASSUME NEW o \in WalletObject, NEW m \in Signal
  PROVE  /\ After(o, m) \in WalletObject
         /\ After(o, m).type = o.type /\ After(o, m).tid = o.tid /\ After(o, m).asked = o.asked
  <1>1. Closed(o) \in WalletObject /\ Closed(o).type = o.type /\ Closed(o).tid = o.tid
        /\ Closed(o).asked = o.asked
    BY DEF WalletObject, Closed, Handle
  <1>2. CASE m.type = "walletAsyncOpened"
    <2>1. m.handle \in Handle
      BY <1>2 DEF Signal
    <2>2. [o EXCEPT !.phase = "open", !.handle = m.handle] \in WalletObject
      BY <2>1 DEF WalletObject
    <2> QED BY <1>2, <2>2 DEF After, WalletObject
  <1>3. CASE m.type # "walletAsyncOpened"
    BY <1>1, <1>3 DEF After
  <1> QED BY <1>2, <1>3

LEMMA ClosedType ==
  ASSUME NEW o \in WalletObject
  PROVE  Closed(o) \in WalletObject
  BY DEF WalletObject, Closed, Handle

LEMMA ObjectTypes ==
  ASSUME NEW o \in WalletObject, NEW n \in Name, NEW t \in Nat
  PROVE  /\ DeletedObject \in WalletObject /\ NewObject \in WalletObject
         /\ [o EXCEPT !.phase = "calling", !.asked = n, !.name = n] \in WalletObject
         /\ [o EXCEPT !.phase = "waiting", !.asked = n, !.name = n, !.type = "Asynchronous",
                      !.tid = t] \in WalletObject
         /\ [o EXCEPT !.phase = "open", !.handle = t] \in WalletObject
  BY DEF WalletObject, DeletedObject, NewObject, Closed, Handle

\* A session is added with a new handle.
LEMMA OpenedType ==
  ASSUME TypeOK, NEW j \in Job, Opened(j)
  PROVE  /\ SessionsType(sessions') /\ drawn' \in Nat
         /\ objects' \in [Object -> WalletObject]
         /\ inbox' \in [Process -> Seq(Signal)]
  <1>1. drawn' = drawn + 1 /\ drawn' \in Nat
    BY DEF TypeOK, Opened
  <1>2. SessionsType(sessions')
    <2>1. <<drawn', j.app>> \in Handle \X App /\ j.wallet \in Name
      BY <1>1 DEF Job, Handle
    <2>2. sessions' = [s \in DOMAIN sessions \cup {<<drawn', j.app>>} |->
                         IF s = <<drawn', j.app>> THEN j.wallet ELSE sessions[s]]
      BY <1>1 DEF Opened
    <2> QED BY <2>1, <2>2 DEF SessionsType, TypeOK
  <1>3. objects' \in [Object -> WalletObject]
    <2>1. CASE j.tid = 0
      <3>1. [objects[j.object] EXCEPT !.phase = "open", !.handle = drawn'] \in WalletObject
        <4>1. objects[j.object] \in WalletObject /\ j.wallet \in Name
          BY DEF TypeOK, Job
        <4> QED BY <1>1, <4>1, ObjectTypes
      <3>2. objects' = [objects EXCEPT ![j.object] =
                          [objects[j.object] EXCEPT !.phase = "open", !.handle = drawn']]
        BY <1>1, <2>1 DEF Opened, TypeOK, Job
      <3> QED BY <3>1, <3>2 DEF TypeOK
    <2>2. CASE j.tid # 0
      BY <2>2 DEF Opened, TypeOK
    <2> QED BY <2>1, <2>2
  <1>4. inbox' \in [Process -> Seq(Signal)]
    <2>1. CASE j.tid = 0
      BY <2>1 DEF Opened, TypeOK
    <2>2. CASE j.tid # 0
      <3> DEFINE s == [type |-> "walletAsyncOpened", tid |-> j.tid, handle |-> drawn']
      <3>1. s \in Signal
        BY <1>1 DEF Signal, Job, Handle
      <3>2. inbox' = Broadcast(s, inbox)
        BY <2>2 DEF Opened
      <3> HIDE DEF s
      <3> QED BY <3>1, <3>2, BroadcastType DEF TypeOK
    <2> QED BY <2>1, <2>2
  <1> QED BY <1>1, <1>2, <1>3, <1>4

LEMMA CloseWalletType ==
  ASSUME TypeOK, NEW n \in Name, CloseWallet(n)
  PROVE  /\ SessionsType(sessions') /\ inbox' \in [Process -> Seq(Signal)]
         /\ unheard' \subseteq Handle
  <1>1. SessionsType(sessions')
    BY FewerSessionsType DEF CloseWallet
  <1>2. inbox' \in [Process -> Seq(Signal)]
    BY ToldType DEF CloseWallet
  <1>3. unheard' \subseteq Handle
    <2>1. \A s \in SessionsOf(n) : s[1] \in Handle
      BY DEF SessionsOf, TypeOK
    <2> QED BY <2>1 DEF CloseWallet, TypeOK
  <1> QED BY <1>1, <1>2, <1>3

LEMMA CloseAllWalletsType ==
  ASSUME TypeOK, CloseAllWallets
  PROVE  /\ SessionsType(sessions') /\ inbox' \in [Process -> Seq(Signal)]
         /\ unheard' \subseteq Handle
  <1>1. \A a \in App : {sessions[s] : s \in {t \in DOMAIN sessions : t[2] = a}} \in SUBSET Name
    BY DEF TypeOK
  <1> QED BY <1>1, FewerSessionsType, ToldType DEF CloseAllWallets, TypeOK

LEMMA LockWalletType ==
  ASSUME TypeOK, NEW o \in Object, LockWallet(o)
  PROVE  /\ SessionsType(sessions') /\ inbox' \in [Process -> Seq(Signal)]
         /\ objects' \in [Object -> WalletObject]
  <1>1. objects' \in [Object -> WalletObject]
    <2>1. objects[o] \in WalletObject
      BY DEF TypeOK
    <2>2. Closed(objects[o]) \in WalletObject
      BY <2>1, ClosedType
    <2>3. objects' = [objects EXCEPT ![o] = Closed(objects[o])]
      BY DEF LockWallet, Closed
    <2> QED BY <2>2, <2>3 DEF TypeOK
  <1>2. CASE SessionOf(o) \notin DOMAIN sessions
    <2>1. UNCHANGED <<sessions, inbox>>
      BY <1>2 DEF LockWallet, SessionOf
    <2> QED BY <1>1, <2>1 DEF TypeOK, SessionsType
  <1>3. CASE SessionOf(o) \in DOMAIN sessions
    <2> DEFINE id == [type |-> "walletClosedId", handle |-> SessionOf(o)[1]]
               last == [type |-> "applicationDisconnected", wallets |-> {sessions[SessionOf(o)]}]
               closed == Broadcast(id, inbox)
    <2>1. id \in Signal /\ last \in Signal
      BY <1>3 DEF Signal, TypeOK
    <2>2. closed \in [Process -> Seq(Signal)]
      BY <2>1, BroadcastType DEF TypeOK
    <2>3. \A p \in Process : closed[p] \in Seq(Signal) /\ Append(closed[p], last) \in Seq(Signal)
      BY <2>1, <2>2, AppendFacts
    <2>4. inbox' = [p \in Process |->
            IF appid[p] = SessionOf(o)[2] /\ SessionOf(o)[2] \notin Apps(DOMAIN sessions \ {SessionOf(o)})
            THEN Append(closed[p], last) ELSE closed[p]]
      BY <1>3 DEF LockWallet, SessionOf
    <2>5. sessions' = Without({SessionOf(o)})
      BY <1>3 DEF LockWallet, SessionOf
    <2> HIDE DEF id, last, closed
    <2>6. inbox' \in [Process -> Seq(Signal)]
      BY <2>3, <2>4
    <2> QED BY <1>1, <2>5, <2>6, FewerSessionsType
  <1> QED BY <1>2, <1>3

LEMMA NoticedType ==
  ASSUME notices \in Seq(Name \cup {"gone", "new"}), alive \in BOOLEAN,
         NEW n \in Name \cup {"gone", "new"}
  PROVE  Noticed(n) \in Seq(Name \cup {"gone", "new"})
  BY AppendFacts DEF Noticed

LEMMA TypeStep ==
  ASSUME TypeOK, [Next]_vars
  PROVE  TypeOK'
  <1> USE ConstantsAssumption
  <1> USE DEF TypeOK, SessionsType
  <1>1. ASSUME NEW o \in Object, NEW n \in Name, OpenWallet(o, n) PROVE TypeOK'
    <2>1. objects' \in [Object -> WalletObject]
      <3>1. [objects[o] EXCEPT !.phase = "calling", !.asked = n, !.name = n] \in WalletObject
        BY ObjectTypes
      <3> QED BY <1>1, <3>1 DEF OpenWallet
    <2>2. [wallet |-> n, app |-> AppOf(o), tid |-> 0, object |-> o] \in Job
      BY DEF Job, AppOf
    <2>3. UNCHANGED <<serviceUp, exists, unlocked, notices, alive, sessions, busy, lastTid, drawn,
                      appid, inbox, unheard, outdated, failed>>
      BY <1>1 DEF OpenWallet, service, history
    <2>4. jobs' \subseteq Job
      BY <1>1, <2>2 DEF OpenWallet
    <2> QED BY <2>1, <2>3, <2>4
  <1>2. ASSUME NEW o \in Object, NEW n \in Name, OpenWalletAsync(o, n) PROVE TypeOK'
    <2>1. objects' \in [Object -> WalletObject]
      <3>1. [objects[o] EXCEPT !.phase = "waiting", !.asked = n, !.name = n,
                 !.type = "Asynchronous", !.tid = lastTid + 1] \in WalletObject
        <4>1. lastTid + 1 \in Nat /\ objects[o] \in WalletObject
          OBVIOUS
        <4> QED BY <4>1, ObjectTypes
      <3> QED BY <1>2, <3>1 DEF OpenWalletAsync
    <2>2. [wallet |-> n, app |-> AppOf(o), tid |-> lastTid + 1, object |-> o] \in Job
      BY DEF Job, AppOf
    <2>3. UNCHANGED <<serviceUp, exists, unlocked, notices, alive, sessions, busy, drawn,
                      appid, inbox, unheard, failed>>
      BY <1>2 DEF OpenWalletAsync, service
    <2>4. jobs' \subseteq Job /\ lastTid' \in Nat /\ outdated' \subseteq Object
      BY <1>2, <2>2 DEF OpenWalletAsync
    <2> QED BY <2>1, <2>3, <2>4
  <1>3. ASSUME NEW j \in jobs, OpenUnlocked(j) PROVE TypeOK'
    <2>1. /\ SessionsType(sessions') /\ drawn' \in Nat
          /\ objects' \in [Object -> WalletObject]
          /\ inbox' \in [Process -> Seq(Signal)]
      BY <1>3, OpenedType DEF OpenUnlocked
    <2>2. UNCHANGED <<serviceUp, exists, unlocked, notices, alive, busy, lastTid, appid,
                      unheard, outdated, failed>> /\ jobs' \subseteq Job
      BY <1>3 DEF OpenUnlocked, service, history
    <2> QED BY <2>1, <2>2
  <1>4. ASSUME NEW j \in jobs, ShowPrompt(j) PROVE TypeOK'
    BY <1>4 DEF ShowPrompt, service, clients, history
  <1>5. ASSUME PromptAccepted PROVE TypeOK'
    <2>1. busy \in Job /\ Opened(busy)
      BY <1>5 DEF PromptAccepted
    <2>2. /\ SessionsType(sessions') /\ drawn' \in Nat
          /\ objects' \in [Object -> WalletObject]
          /\ inbox' \in [Process -> Seq(Signal)]
      BY <2>1, OpenedType
    <2>3. busy.wallet \in Name
      BY <2>1 DEF Job
    <2>4. exists' \subseteq Name /\ unlocked' \subseteq exists'
      BY <1>5, <2>3 DEF PromptAccepted
    <2>5. notices' \in Seq(Name \cup {"gone", "new"})
      BY <1>5, <2>3, AppendFacts DEF PromptAccepted
    <2>6. UNCHANGED <<serviceUp, alive, jobs, lastTid, appid, unheard, outdated, failed>>
          /\ busy' = None
      BY <1>5 DEF PromptAccepted, history
    <2> QED BY <2>2, <2>4, <2>5, <2>6
  <1>6. ASSUME PromptRefused PROVE TypeOK'
    <2>1. busy \in Job /\ busy.object \in Object
      BY <1>6 DEF PromptRefused, Job
    <2>2. DeletedObject \in WalletObject
      BY DEF DeletedObject, NewObject, WalletObject, Handle
    <2>3. objects' \in [Object -> WalletObject] /\ failed' \subseteq Object
      <3>1. CASE busy.tid = 0
        <4>1. objects' = [objects EXCEPT ![busy.object] = DeletedObject] /\ failed' = failed
          BY <1>6, <3>1, Zenon DEF PromptRefused, OpenFailed
        <4> QED BY <2>1, <2>2, <4>1
      <3>2. CASE busy.tid # 0
        BY <1>6, <2>1, <3>2 DEF PromptRefused, OpenFailed
      <3> QED BY <3>1, <3>2
    <2>4. UNCHANGED <<serviceUp, exists, unlocked, notices, alive, sessions, jobs, lastTid, drawn,
                      appid, inbox, unheard, outdated>> /\ busy' = None
      BY <1>6 DEF PromptRefused, service
    <2> QED BY <2>3, <2>4
  <1>7. ASSUME NEW o \in Object, LockWallet(o) PROVE TypeOK'
    <2>1. UNCHANGED <<serviceUp, exists, unlocked, notices, alive, jobs, busy, lastTid, drawn, appid,
                      unheard, outdated, failed>>
      BY <1>7 DEF LockWallet, service, history
    <2> QED BY <1>7, <2>1, LockWalletType
  <1>8. ASSUME NEW o \in Object, DeleteObject(o) PROVE TypeOK'
    <2>1. DeletedObject \in WalletObject
      BY DEF DeletedObject, NewObject, WalletObject, Handle
    <2> QED BY <1>8, <2>1 DEF DeleteObject, service, kwalletd, history
  <1>9. ASSUME NEW n \in Name, CallCloseWallet(n) PROVE TypeOK'
    BY <1>9, CloseWalletType DEF CallCloseWallet, service
  <1>10. ASSUME NEW n \in Name, NEW a \in App, DisconnectApplication(n, a) PROVE TypeOK'
    <2>1. SessionsType(sessions') /\ inbox' \in [Process -> Seq(Signal)]
      BY <1>10, FewerSessionsType, ToldType DEF DisconnectApplication
    <2> QED BY <1>10, <2>1 DEF DisconnectApplication, service, history
  <1>11. ASSUME CallCloseAllWallets PROVE TypeOK'
    BY <1>11, CloseAllWalletsType DEF CallCloseAllWallets, service
  <1>12. ASSUME HandleNotice PROVE TypeOK'
    <2>1. /\ SessionsType(sessions') /\ inbox' \in [Process -> Seq(Signal)]
          /\ unheard' \subseteq Handle
      BY <1>12, CloseWalletType, CloseAllWalletsType
        DEF HandleNotice, CollectionChanged, ServiceChanged
    <2>2. notices' \in Seq(Name \cup {"gone", "new"})
      BY <1>12, TailFacts DEF HandleNotice
    <2> QED BY <1>12, <2>1, <2>2 DEF HandleNotice
  <1>13. ASSUME NEW p \in Process, Receive(p) PROVE TypeOK'
    <2>1. Head(inbox[p]) \in Signal /\ Tail(inbox[p]) \in Seq(Signal)
      BY <1>13, TailFacts DEF Receive
    <2>2. \A o \in Object : After(objects[o], Head(inbox[p])) \in WalletObject
      BY <2>1, AfterType
    <2>3. objects' \in [Object -> WalletObject]
      BY <1>13, <2>2 DEF Receive
    <2>4. inbox' \in [Process -> Seq(Signal)]
      BY <1>13, <2>1 DEF Receive
    <2> QED BY <1>13, <2>3, <2>4 DEF Receive, service, kwalletd, history
  <1>14. ASSUME KWalletDDies PROVE TypeOK'
    <2>1. inbox' \in [Process -> Seq(Signal)]
      <3>1. [type |-> "serviceUnregistered"] \in Signal
        BY DEF Signal
      <3> QED BY <1>14, <3>1, BroadcastType DEF KWalletDDies
    <2>2. objects' \in [Object -> WalletObject]
      <3>1. DeletedObject \in WalletObject
        BY DEF DeletedObject, NewObject, WalletObject, Handle
      <3> QED BY <1>14, <3>1 DEF KWalletDDies
    <2>3. SessionsType(sessions') /\ notices' \in Seq(Name \cup {"gone", "new"})
      <3>1. SessionsType(NoSessions)
        BY FewerSessionsType
      <3> QED BY <1>14, <3>1 DEF KWalletDDies
    <2>4. /\ alive' \in BOOLEAN /\ jobs' \subseteq Job /\ busy' = None /\ lastTid' \in Nat
          /\ outdated' \subseteq Object
          /\ UNCHANGED <<serviceUp, exists, unlocked, drawn, appid, unheard, failed>>
      BY <1>14 DEF KWalletDDies
    <2> QED BY <2>1, <2>2, <2>3, <2>4
  <1>15. ASSUME NEW n \in Name, Lock(n) \/ UnlockByOthers(n) \/ DeleteWallet(n) PROVE TypeOK'
    BY <1>15, NoticedType DEF Lock, UnlockByOthers, DeleteWallet, kwalletd, clients, history
  <1>16. ASSUME ServiceDies \/ ServiceStarts \/ KWalletDStarts PROVE TypeOK'
    <2>1. CASE ServiceDies
      BY <2>1, NoticedType DEF ServiceDies, kwalletd, clients, history
    <2>2. CASE ServiceStarts
      BY <2>2, NoticedType DEF ServiceStarts, kwalletd, clients, history
    <2>3. CASE KWalletDStarts
      BY <2>3 DEF KWalletDStarts, service, clients, history
    <2> QED BY <1>16, <2>1, <2>2, <2>3
  <1>17. ASSUME UNCHANGED vars PROVE TypeOK'
    BY <1>17 DEF vars, service, kwalletd, clients, history
  <1> QED
    BY <1>1, <1>2, <1>3, <1>4, <1>5, <1>6, <1>7, <1>8, <1>9, <1>10, <1>11, <1>12, <1>13, <1>14,
       <1>15, <1>16, <1>17 DEF Next, Opening, PromptEnds, Calls, Environment

LEMMA Typing == Spec => []TypeOK
  <1>1. Init => TypeOK
    <2>1. NoSessions \in [DOMAIN NoSessions -> Name] /\ DOMAIN NoSessions \subseteq Handle \X App
      BY DEF NoSessions
    <2>2. NewObject \in WalletObject
      BY DEF NewObject, WalletObject, Handle
    <2> QED BY <2>1, <2>2 DEF Init, TypeOK
  <1> QED BY <1>1, TypeStep, PTL DEF Spec

-----------------------------------------------------------------------------
(* What kwalletd has, and what its service has told it *)

\* A kwalletd that does not run keeps nothing.
Down == ~alive => sessions = NoSessions /\ jobs = {} /\ busy = None /\ lastTid = 0

\* A service that is gone has said so to a kwalletd that has sessions.
Gone == ~serviceUp => sessions = NoSessions \/ "gone" \in Queued(notices)

\* A step that closes sessions at most.
Shrinks ==
  /\ DOMAIN sessions' \subseteq DOMAIN sessions
  /\ \A s \in DOMAIN sessions' : sessions'[s] = sessions[s]

LEMMA CloseWalletShrinks ==
  ASSUME NEW n, CloseWallet(n)
  PROVE  Shrinks /\ \A s \in DOMAIN sessions' : sessions'[s] # n
  <1>1. sessions' = Without(SessionsOf(n))
    BY DEF CloseWallet
  <1>2. /\ DOMAIN sessions' = DOMAIN sessions \ SessionsOf(n)
        /\ \A s \in DOMAIN sessions \ SessionsOf(n) : sessions'[s] = sessions[s]
    BY <1>1, WithoutFacts
  <1> QED BY <1>2 DEF Shrinks, SessionsOf

LEMMA CloseAllWalletsShrinks ==
  ASSUME CloseAllWallets
  PROVE  Shrinks /\ sessions' = NoSessions /\ DOMAIN sessions' = {}
  BY NoSessionsFacts DEF CloseAllWallets, Shrinks

LEMMA HandleNoticeShrinks ==
  ASSUME HandleNotice
  PROVE  Shrinks
  <1>1. CASE Head(notices) \in Name
    BY <1>1, CloseWalletShrinks DEF HandleNotice, CollectionChanged, Shrinks
  <1>2. CASE Head(notices) \notin Name
    BY <1>2, CloseAllWalletsShrinks DEF HandleNotice, ServiceChanged, Shrinks
  <1> QED BY <1>1, <1>2

\* The calls that close sessions of their own, and tell applications at most.
Closing ==
  \/ \E o \in Object : LockWallet(o)
  \/ \E n \in Name : CallCloseWallet(n) \/ \E a \in App : DisconnectApplication(n, a)
  \/ CallCloseAllWallets

LEMMA ClosingShrinks ==
  ASSUME Closing
  PROVE  Shrinks /\ UNCHANGED <<service, alive, jobs, busy, lastTid, drawn, appid, outdated, failed>>
         /\ alive
  <1>1. ASSUME NEW o \in Object, LockWallet(o)
        PROVE  Shrinks /\ alive /\ UNCHANGED <<service, alive, jobs, busy, lastTid, drawn, appid, outdated, failed>>
    <2>1. Shrinks
      <3>1. CASE SessionOf(o) \in DOMAIN sessions
        <4>1. sessions' = Without({SessionOf(o)})
          BY <1>1, <3>1 DEF LockWallet, SessionOf
        <4> QED BY <4>1, WithoutFacts DEF Shrinks
      <3>2. CASE SessionOf(o) \notin DOMAIN sessions
        BY <1>1, <3>2 DEF LockWallet, Shrinks, SessionOf
      <3> QED BY <3>1, <3>2
    <2> QED BY <1>1, <2>1 DEF LockWallet, Free, history
  <1>2. ASSUME NEW n \in Name, CallCloseWallet(n)
        PROVE  Shrinks /\ alive /\ UNCHANGED <<service, alive, jobs, busy, lastTid, drawn, appid, outdated, failed>>
    BY <1>2, CloseWalletShrinks DEF CallCloseWallet, Free
  <1>3. ASSUME NEW n \in Name, NEW a \in App, DisconnectApplication(n, a)
        PROVE  Shrinks /\ alive /\ UNCHANGED <<service, alive, jobs, busy, lastTid, drawn, appid, outdated, failed>>
    BY <1>3, WithoutFacts DEF DisconnectApplication, Free, Shrinks, history
  <1>4. ASSUME CallCloseAllWallets
        PROVE  Shrinks /\ alive /\ UNCHANGED <<service, alive, jobs, busy, lastTid, drawn, appid, outdated, failed>>
    BY <1>4, CloseAllWalletsShrinks DEF CallCloseAllWallets, Free
  <1> QED BY <1>1, <1>2, <1>3, <1>4 DEF Closing

\* Sessions that were of unlocked wallets, or of wallets whose lock is on its way,
\* still are when the service has changed nothing.
LEMMA ShrinksKeepsUnlocked ==
  ASSUME Shrinks, SessionsUnlocked, UNCHANGED service
  PROVE  SessionsUnlocked'
  BY DEF Shrinks, SessionsUnlocked, service, Queued

LEMMA OpenedUnlocked ==
  ASSUME NEW j \in Job, Opened(j), j.wallet \in unlocked' \cup Queued(notices') \/ "gone" \in Queued(notices')
                                   \/ j.wallet \notin exists',
         \A s \in DOMAIN sessions : sessions[s] \in exists' =>
            sessions[s] \in unlocked' \cup Queued(notices') \/ "gone" \in Queued(notices')
  PROVE  SessionsUnlocked'
  <1> DEFINE d == <<drawn + 1, j.app>>
  <1>1. sessions' = [s \in DOMAIN sessions \cup {d} |-> IF s = d THEN j.wallet ELSE sessions[s]]
    BY DEF Opened
  <1> HIDE DEF d
  <1>2. \A s \in DOMAIN sessions' : sessions'[s] = j.wallet \/ (s \in DOMAIN sessions /\ sessions'[s] = sessions[s])
    <2>1. DOMAIN sessions' = DOMAIN sessions \cup {d}
      BY <1>1
    <2> QED BY <1>1, <2>1
  <1> SUFFICES ASSUME NEW s \in DOMAIN sessions', sessions'[s] \in exists'
               PROVE  sessions'[s] \in unlocked' \cup Queued(notices') \/ "gone" \in Queued(notices')
    BY DEF SessionsUnlocked, Queued
  <1> QED BY <1>2

LEMMA NoSessionsUnlocked ==
  ASSUME sessions' = NoSessions
  PROVE  SessionsUnlocked' /\ Gone'
  BY NoSessionsFacts DEF SessionsUnlocked, Gone

\* Nothing that the service tells is forgotten before kwalletd handles it.
LEMMA NoticedQueued ==
  ASSUME TypeOK, Down, NEW n \in Name \cup {"gone", "new"}, notices' = Noticed(n), sessions' = sessions
  PROVE  sessions' = NoSessions \/ Queued(notices') = Queued(notices) \cup {n}
  <1>1. CASE alive
    <2>1. notices' = Append(notices, n) /\ notices \in Seq(Name \cup {"gone", "new"})
      BY <1>1 DEF Noticed, TypeOK
    <2> QED BY <2>1, QueuedAppend
  <1>2. CASE ~alive
    BY <1>2 DEF Down
  <1> QED BY <1>1, <1>2 DEF TypeOK

LEMMA DownStep ==
  ASSUME TypeOK, Down, [Next]_vars
  PROVE  Down'
  <1> USE DEF Down
  <1>1. CASE Opening
    BY <1>1 DEF Opening, OpenUnlocked, ShowPrompt, Free
  <1>2. CASE PromptEnds
    BY <1>2 DEF PromptEnds, PromptAccepted, PromptRefused
  <1>3. CASE Closing
    BY <1>3, ClosingShrinks
  <1>4. CASE HandleNotice
    BY <1>4 DEF HandleNotice, Free
  <1>5. ASSUME NEW o \in Object, NEW n \in Name, OpenWallet(o, n) \/ OpenWalletAsync(o, n)
        PROVE  Down'
    BY <1>5 DEF OpenWallet, OpenWalletAsync, Free
  <1>6. ASSUME NEW o \in Object, DeleteObject(o) PROVE Down'
    BY <1>6 DEF DeleteObject, kwalletd
  <1>7. ASSUME NEW p \in Process, Receive(p) PROVE Down'
    BY <1>7 DEF Receive, kwalletd
  <1>8. CASE Environment
    BY <1>8 DEF Environment, Lock, UnlockByOthers, DeleteWallet, ServiceDies, ServiceStarts,
                KWalletDDies, KWalletDStarts, kwalletd
  <1>9. CASE UNCHANGED vars
    BY <1>9 DEF vars, kwalletd
  <1> QED BY <1>1, <1>2, <1>3, <1>4, <1>5, <1>6, <1>7, <1>8, <1>9 DEF Next, Calls, Closing

LEMMA HandleNoticeUnlocked ==
  ASSUME TypeOK, Gone, SessionsUnlocked, HandleNotice
  PROVE  Gone' /\ SessionsUnlocked'
  <1> DEFINE q == Queued(notices)
             r == Queued(notices')
  <1>1. q = {Head(notices)} \cup r
    BY QueuedTail DEF HandleNotice, TypeOK
  <1>2. Shrinks /\ UNCHANGED <<serviceUp, exists, unlocked>>
    BY HandleNoticeShrinks DEF HandleNotice
  <1> HIDE DEF q, r
  <1>3. CASE Head(notices) \in Name
    <2>1. Head(notices) # "gone"
      BY <1>3, ConstantsAssumption
    <2>2. sessions = NoSessions => sessions' = NoSessions
      BY <1>3, NoSessionsFacts DEF HandleNotice, CollectionChanged, CloseWallet, Without, NoSessions
    <2>3. Gone'
      BY <1>1, <1>2, <2>1, <2>2 DEF Gone, q, r
    <2>4. ASSUME NEW s \in DOMAIN sessions', sessions'[s] \in exists'
          PROVE  sessions'[s] \in unlocked' \cup r \/ "gone" \in r
      <3>1. s \in DOMAIN sessions /\ sessions'[s] = sessions[s]
        BY <1>2 DEF Shrinks
      <3>2. sessions[s] \in unlocked \cup q \/ "gone" \in q
        BY <1>2, <2>4, <3>1 DEF SessionsUnlocked, q
      <3>3. CASE sessions[s] # Head(notices)
        BY <1>1, <1>2, <2>1, <3>1, <3>2, <3>3
      <3>4. CASE sessions[s] = Head(notices)
        <4>1. sessions # NoSessions
          BY <3>1, NoSessionsFacts
        <4>2. CASE ~serviceUp
          BY <1>1, <2>1, <4>1, <4>2 DEF Gone, q
        <4>3. CASE serviceUp /\ sessions[s] \notin unlocked
          <5>1. CloseWallet(sessions[s])
            BY <1>2, <1>3, <2>4, <3>1, <3>4, <4>3 DEF HandleNotice, CollectionChanged
          <5> QED BY <3>1, <5>1, CloseWalletShrinks
        <4>4. CASE sessions[s] \in unlocked
          BY <1>2, <3>1, <4>4
        <4> QED BY <4>2, <4>3, <4>4
      <3> QED BY <3>3, <3>4
    <2>5. SessionsUnlocked'
      BY <2>4 DEF SessionsUnlocked, r, Queued
    <2> QED BY <2>3, <2>5
  <1>4. CASE Head(notices) \notin Name
    <2>1. ServiceChanged(Head(notices))
      BY <1>4 DEF HandleNotice
    <2>2. CASE sessions' = NoSessions
      BY <2>2, NoSessionsUnlocked
    <2>3. CASE sessions' # NoSessions
      <3>1. Head(notices) = "new" /\ sessions' = sessions
        BY <2>1, <2>3 DEF ServiceChanged, CloseAllWallets
      <3>2. \A n \in Name \cup {"gone"} : n \in q => n \in r
        BY <1>1, <3>1, ConstantsAssumption
      <3>3. \A s \in DOMAIN sessions : sessions[s] \in Name
        BY DEF TypeOK
      <3>4. Gone'
        BY <1>2, <3>1, <3>2 DEF Gone, q, r
      <3>5. SessionsUnlocked'
        BY <1>2, <3>1, <3>2, <3>3 DEF SessionsUnlocked, q, r, Queued
      <3> QED BY <3>4, <3>5
    <2> QED BY <2>2, <2>3
  <1> QED BY <1>3, <1>4

LEMMA UnlockedStep ==
  ASSUME TypeOK, Down, Gone, SessionsUnlocked, [Next]_vars
  PROVE  Gone' /\ SessionsUnlocked'
  <1>1. ASSUME NEW j \in jobs, OpenUnlocked(j) PROVE Gone' /\ SessionsUnlocked'
    <2>1. serviceUp /\ SeenUnlocked(j.wallet) /\ Opened(j) /\ UNCHANGED service /\ j \in Job
      BY <1>1 DEF OpenUnlocked, TypeOK
    <2>2. Gone' /\ UNCHANGED <<exists, unlocked>> /\ Queued(notices') = Queued(notices)
      BY <2>1 DEF service, Gone
    <2>3. j.wallet \in unlocked' \cup Queued(notices') \/ "gone" \in Queued(notices')
      BY <2>1, <2>2 DEF SeenUnlocked
    <2>4. \A s \in DOMAIN sessions : sessions[s] \in exists' =>
            sessions[s] \in unlocked' \cup Queued(notices') \/ "gone" \in Queued(notices')
      BY <2>2 DEF SessionsUnlocked
    <2> QED BY <2>1, <2>2, <2>3, <2>4, OpenedUnlocked
  <1>2. CASE PromptAccepted
    <2>1. serviceUp /\ serviceUp' = serviceUp /\ busy \in Job /\ Opened(busy) /\ busy.wallet \in Name
      BY <1>2 DEF PromptAccepted, TypeOK, Job
    <2>2. /\ exists' = exists \cup {busy.wallet} /\ unlocked' = unlocked \cup {busy.wallet}
          /\ notices' = Append(notices, busy.wallet)
      BY <1>2 DEF PromptAccepted
    <2>3. Queued(notices') = Queued(notices) \cup {busy.wallet}
      BY <2>1, <2>2, QueuedAppend DEF TypeOK
    <2>4. Gone'
      BY <2>1 DEF Gone
    <2>5. \A s \in DOMAIN sessions : sessions[s] \in exists' =>
            sessions[s] \in unlocked' \cup Queued(notices') \/ "gone" \in Queued(notices')
      BY <2>2, <2>3 DEF SessionsUnlocked
    <2>6. busy.wallet \in unlocked'
      BY <2>2
    <2> QED BY <2>1, <2>4, <2>5, <2>6, OpenedUnlocked
  <1>3. CASE Closing
    <2>1. Shrinks /\ UNCHANGED service
      BY <1>3, ClosingShrinks
    <2>2. sessions = NoSessions => sessions' = NoSessions
      <3> SUFFICES ASSUME sessions = NoSessions PROVE sessions' = NoSessions
        OBVIOUS
      <3>1. DOMAIN sessions = {}
        BY NoSessionsFacts
      <3>2. \A o \in Object : LockWallet(o) => sessions' = sessions
        BY <3>1 DEF LockWallet
      <3>3. \A n \in Name : SessionsOf(n) = {}
        BY <3>1 DEF SessionsOf
      <3> QED BY <1>3, <3>1, <3>2, <3>3 DEF Closing, CallCloseWallet, DisconnectApplication,
                                         CallCloseAllWallets
    <2>3. Gone'
      BY <2>1, <2>2 DEF Gone, service
    <2> QED BY <2>1, <2>3, ShrinksKeepsUnlocked
  <1>4. CASE HandleNotice
    BY <1>4, HandleNoticeUnlocked
  <1>5. CASE UNCHANGED <<service, sessions>>
    BY <1>5 DEF Gone, SessionsUnlocked, service, Queued
  <1>6. ASSUME NEW o \in Object, NEW n \in Name, OpenWallet(o, n) \/ OpenWalletAsync(o, n)
        PROVE  UNCHANGED <<service, sessions>>
    BY <1>6 DEF OpenWallet, OpenWalletAsync
  <1>7. \/ \E j \in jobs : ShowPrompt(j)
        \/ PromptRefused
        \/ \E o \in Object : DeleteObject(o)
        \/ \E p \in Process : Receive(p)
        \/ KWalletDStarts
        \/ UNCHANGED vars
        => UNCHANGED <<service, sessions>>
    BY DEF ShowPrompt, PromptRefused, DeleteObject, Receive, KWalletDStarts, vars, kwalletd
  <1>8. ASSUME NEW n \in Name, Lock(n) \/ UnlockByOthers(n) PROVE Gone' /\ SessionsUnlocked'
    <2>1. /\ notices' = Noticed(n) /\ sessions' = sessions /\ UNCHANGED <<serviceUp, exists>>
          /\ unlocked \subseteq unlocked' \cup {n}
      BY <1>8 DEF Lock, UnlockByOthers, kwalletd
    <2>2. CASE sessions' = NoSessions
      BY <2>2, NoSessionsUnlocked
    <2>3. CASE Queued(notices') = Queued(notices) \cup {n}
      <3>1. Gone'
        BY <2>1, <2>3 DEF Gone
      <3>2. SessionsUnlocked'
        BY <2>1, <2>3 DEF SessionsUnlocked, Queued
      <3> QED BY <3>1, <3>2
    <2> QED BY <2>1, <2>2, <2>3, NoticedQueued
  <1>9. ASSUME NEW n \in Name, DeleteWallet(n) PROVE Gone' /\ SessionsUnlocked'
    <2>1. UNCHANGED <<serviceUp, notices, sessions>> /\ exists' = exists \ {n} /\ unlocked' = unlocked \ {n}
      BY <1>9 DEF DeleteWallet, kwalletd
    <2>2. Gone'
      BY <2>1 DEF Gone
    <2>3. SessionsUnlocked'
      BY <2>1 DEF SessionsUnlocked, Queued
    <2> QED BY <2>2, <2>3
  <1>10. CASE ServiceDies \/ ServiceStarts
    <2>1. PICK n \in {"gone", "new"} : notices' = Noticed(n)
      BY <1>10 DEF ServiceDies, ServiceStarts
    <2>2. sessions' = sessions /\ exists' = exists
      BY <1>10 DEF ServiceDies, ServiceStarts, kwalletd
    <2>3. CASE sessions' = NoSessions
      BY <2>3, NoSessionsUnlocked
    <2>4. CASE sessions' # NoSessions
      <3>1. Queued(notices') = Queued(notices) \cup {n} /\ alive
        BY <2>1, <2>2, <2>4, NoticedQueued DEF Down
      <3>2. CASE ServiceDies
        <4>1. "gone" \in Queued(notices')
          <5>1. notices' = Append(notices, "gone")
            BY <3>1, <3>2 DEF ServiceDies, Noticed
          <5> QED BY <5>1, QueuedAppend DEF TypeOK
        <4> QED BY <4>1 DEF Gone, SessionsUnlocked
      <3>3. CASE ServiceStarts
        <4>1. serviceUp' /\ unlocked' = unlocked
          BY <3>3 DEF ServiceStarts
        <4>2. SessionsUnlocked'
          BY <2>2, <3>1, <4>1 DEF SessionsUnlocked, Queued
        <4> QED BY <4>1, <4>2 DEF Gone
      <3> QED BY <1>10, <3>2, <3>3
    <2> QED BY <2>3, <2>4
  <1>11. CASE KWalletDDies
    BY <1>11, NoSessionsUnlocked DEF KWalletDDies
  <1> QED BY <1>1, <1>2, <1>3, <1>4, <1>5, <1>6, <1>7, <1>8, <1>9, <1>10, <1>11
          DEF Next, Opening, PromptEnds, Calls, Environment, Closing

\* A session is of an unlocked wallet, or kwalletd will hear that it is locked:
\* onCollectionChanged() reads Locked when the notice comes, and closes the wallet.
THEOREM UnlockedIsKept == Spec => []SessionsUnlocked
  <1> DEFINE I == Down /\ Gone /\ SessionsUnlocked
  <1>1. Init => I
    BY NoSessionsFacts DEF Init, Down, Gone, SessionsUnlocked
  <1>2. TypeOK /\ I /\ [Next]_vars => I'
    BY DownStep, UnlockedStep
  <1> QED BY <1>1, <1>2, Typing, PTL DEF Spec

-----------------------------------------------------------------------------
(* What objects are owed, and what they hold *)

\* Objects whose transaction id can only be their own.
Current == Object \ outdated
Box(o) == inbox[Owner[o]]
JobsOf(o) == {j \in InProgress : j.object = o}

\* Signal m closes an object with handle h of wallet n.
Closes(m, h, n) ==
  \/ m.type = "walletClosedId" /\ m.handle = h
  \/ m.type = "applicationDisconnected" /\ n \in m.wallets
  \/ m.type = "serviceUnregistered"

\* The handles an object has, at 0, or will have, at the place of the signal that
\* brings it.
Claims(o) ==
  (IF objects[o].phase = "open" THEN {0} ELSE {})
  \cup (IF objects[o].tid # 0 THEN Answering(o) ELSE {})
HandleAt(o, i) == IF i = 0 THEN objects[o].handle ELSE Box(o)[i].handle

\* A signal that closes what o claims at i comes after i.
ClosesLater(o, i) ==
  \E k \in DOMAIN Box(o) : k > i /\ Closes(Box(o)[k], HandleAt(o, i), objects[o].asked)
ClaimedSession(o, i) == <<HandleAt(o, i), AppOf(o)>>

\* Handles are drawn once, and for one session.
Handles ==
  /\ \A s \in DOMAIN sessions : s[1] <= drawn
  /\ \A s, t \in DOMAIN sessions : s[1] = t[1] => s = t
  /\ \A o \in Object : objects[o].handle <= drawn
  /\ \A p \in Process : \A i \in DOMAIN inbox[p] :
       inbox[p][i].type \in {"walletAsyncOpened", "walletClosedId"} => inbox[p][i].handle <= drawn

\* Calls of openAsync() have an id; a used object never calls again.
Phases ==
  \A o \in Object :
    /\ objects[o].type = "Asynchronous" <=> objects[o].tid # 0
    /\ objects[o].phase \in {"new", "calling"} => objects[o].tid = 0 /\ o \in Current
    /\ objects[o].phase = "waiting" => objects[o].tid # 0
    /\ objects[o].phase = "new" => JobsOf(o) = {} /\ o \notin failed
    /\ o \in Current /\ objects[o].phase \in {"calling", "waiting", "open"} =>
         objects[o].name = objects[o].asked

\* An id of this kwalletd belongs to one object, and so does the work under it.
JobIsOwners(j) ==
  /\ j.tid <= lastTid
  /\ j.tid = 0 <=> objects[j.object].phase = "calling"
  /\ j.tid = 0 => j.app = AppOf(j.object) /\ j.wallet = objects[j.object].asked
  /\ \A o \in Current : j.tid # 0 /\ objects[o].tid = j.tid =>
       /\ j.object = o /\ j.app = AppOf(o) /\ j.wallet = objects[o].asked
       /\ objects[o].phase = "waiting"
  /\ j.object \in Current /\ objects[j.object].phase = "waiting" => objects[j.object].tid = j.tid
Works ==
  /\ busy \notin jobs
  /\ \A j \in InProgress : JobIsOwners(j)
  /\ \A o \in Current : objects[o].tid <= lastTid
  /\ \A o, q \in Current : objects[o].tid # 0 /\ objects[o].tid = objects[q].tid => o = q

\* Answers of this kwalletd are for objects that wait; older ones come before the
\* news that the kwalletd that sent them has died.
Answers ==
  /\ \A p \in Process : \A i \in DOMAIN inbox[p] :
       inbox[p][i].type = "walletAsyncOpened" =>
         /\ inbox[p][i].tid # 0
         /\ \/ inbox[p][i].tid <= lastTid
            \/ \E k \in DOMAIN inbox[p] : k > i /\ inbox[p][k].type = "serviceUnregistered"
  /\ \A o \in Current : objects[o].tid # 0 =>
       /\ \A i \in DOMAIN Box(o) : Box(o)[i].type # "serviceUnregistered"
       /\ Answering(o) # {} => objects[o].phase = "waiting"

\* What is owed to an object that waits is under way, once.
Owed(o) ==
  IF o \in failed THEN JobsOf(o) = {} /\ Answering(o) = {}
  ELSE \/ (\E j \in InProgress : JobsOf(o) = {j}) /\ Answering(o) = {}
       \/ JobsOf(o) = {} /\ \E i \in DOMAIN Box(o) : Answering(o) = {i}
Accounted == \A o \in Current : objects[o].phase \in {"calling", "waiting"} => Owed(o)

Once ==
  \A o, q \in Current : \A i \in Claims(o), k \in Claims(q) : HandleAt(o, i) = HandleAt(q, k) => o = q

Held ==
  \A o \in Current : \A i \in Claims(o) :
    /\ HandleAt(o, i) \notin unheard => ClaimedSession(o, i) \in DOMAIN sessions \/ ClosesLater(o, i)
    /\ ClaimedSession(o, i) \in DOMAIN sessions => sessions[ClaimedSession(o, i)] = objects[o].asked
    /\ objects[o].tid # 0 /\ ClosesLater(o, i) => ClaimedSession(o, i) \notin DOMAIN sessions

\* A session that is said to be closed is gone.
ClosedIds ==
  \A p \in Process : \A i \in DOMAIN inbox[p] :
    inbox[p][i].type = "walletClosedId" => \A s \in DOMAIN sessions : s[1] # inbox[p][i].handle

Agreement ==
  /\ Handles /\ Phases /\ Works /\ Answers /\ Accounted /\ Once /\ Held /\ ClosedIds

LEMMA QuietStep ==
  ASSUME Agreement, InProgress' = InProgress, busy' \notin jobs',
         UNCHANGED <<sessions, inbox, objects, appid, drawn, lastTid, outdated, failed, unheard>>
  PROVE  Agreement'
  <1>1. /\ Current' = Current /\ \A o : /\ JobsOf(o)' = JobsOf(o) /\ Answering(o)' = Answering(o)
                                        /\ Box(o)' = Box(o) /\ AppOf(o)' = AppOf(o)
    BY DEF Current, JobsOf, Answering, Box, AppOf
  <1>2. \A o, i : /\ HandleAt(o, i)' = HandleAt(o, i) /\ Claims(o)' = Claims(o)
    BY <1>1 DEF HandleAt, Claims
  <1>3. \A o, i : ClosesLater(o, i)' = ClosesLater(o, i) /\ ClaimedSession(o, i)' = ClaimedSession(o, i)
    BY <1>1, <1>2 DEF ClosesLater, ClaimedSession, Closes
  <1>4. Handles' /\ ClosedIds'
    BY DEF Agreement, Handles, ClosedIds
  <1>5. Phases' /\ Works'
    BY <1>1 DEF Agreement, Phases, Works, JobIsOwners
  <1>6. Answers' /\ Accounted'
    BY <1>1 DEF Agreement, Answers, Accounted, Owed
  <1>7. Once' /\ Held'
    BY <1>1, <1>2, <1>3 DEF Agreement, Once, Held
  <1> QED BY <1>4, <1>5, <1>6, <1>7 DEF Agreement

-----------------------------------------------------------------------------
(* Steps that close sessions *)

NewIn(p) == DOMAIN inbox'[p] \ DOMAIN inbox[p]
ClosingNews(p) ==
  \A k \in NewIn(p) :
    LET m == inbox'[p][k] IN
    /\ m.type \in {"walletClosedId", "applicationDisconnected"}
    /\ m.type = "walletClosedId" =>
         m.handle <= drawn /\ \A s \in DOMAIN sessions' : s[1] # m.handle
    /\ m.type = "applicationDisconnected" =>
         \A s \in DOMAIN sessions' : s[2] = appid[p] => sessions'[s] \notin m.wallets
Kept(p) ==
  /\ Len(inbox[p]) <= Len(inbox'[p])
  /\ \A i \in DOMAIN inbox[p] : inbox'[p][i] = inbox[p][i]
News(s, p) == \E k \in NewIn(p) : Closes(inbox'[p][k], s[1], sessions[s])

\* Objects are told of the sessions that are closed, and of no other.
ClosingStep ==
  /\ Shrinks /\ unheard \subseteq unheard'
  /\ UNCHANGED <<alive, jobs, busy, lastTid, drawn, appid, outdated, failed>>
  /\ \A o \in Object :
       \/ objects'[o] = objects[o]
       \/ objects[o].phase = "open" /\ objects'[o] = Closed(objects[o])
  /\ \A p \in Process : Kept(p) /\ ClosingNews(p)
  /\ \A s \in DOMAIN sessions \ DOMAIN sessions' :
       s[1] \in unheard' \/ \A p \in Process : appid[p] = s[2] => News(s, p)

LEMMA NewsComesLast ==
  ASSUME TypeOK, TypeOK', NEW p \in Process, Kept(p)
  PROVE  /\ DOMAIN inbox[p] \subseteq DOMAIN inbox'[p]
         /\ \A i \in DOMAIN inbox'[p] : i \in Nat /\ i > 0
         /\ \A i \in DOMAIN inbox[p] \cup {0}, k \in NewIn(p) : k > i
  <1>1. inbox[p] \in Seq(Signal) /\ inbox'[p] \in Seq(Signal)
    BY DEF TypeOK
  <1>2. /\ Len(inbox[p]) \in Nat /\ DOMAIN inbox[p] = 1 .. Len(inbox[p])
        /\ Len(inbox'[p]) \in Nat /\ DOMAIN inbox'[p] = 1 .. Len(inbox'[p])
    BY <1>1
  <1> QED BY <1>2 DEF Kept, NewIn

LEMMA OwnerIsProcess ==
  ASSUME NEW o \in Object
  PROVE  Owner[o] \in Process
  BY ConstantsAssumption

LEMMA ClosingStepAnswering ==
  ASSUME TypeOK, TypeOK', ClosingStep, NEW o \in Object
  PROVE  /\ Answering(o)' = Answering(o)
         /\ \A i \in Answering(o) : i \in DOMAIN Box(o) /\ i # 0 /\ Box(o)'[i] = Box(o)[i]
         /\ JobsOf(o)' = JobsOf(o) /\ AppOf(o)' = AppOf(o)
         /\ Current' = Current /\ InProgress' = InProgress
         /\ objects'[o].tid = objects[o].tid /\ objects'[o].asked = objects[o].asked
         /\ objects'[o].type = objects[o].type
         /\ objects'[o].phase = objects[o].phase \/ (objects[o].phase = "open" /\ objects'[o].phase = "closed")
         /\ objects'[o].phase # "closed" => objects'[o] = objects[o]
  <1> DEFINE p == Owner[o]
  <1>1. p \in Process /\ Kept(p) /\ ClosingNews(p)
    BY OwnerIsProcess DEF ClosingStep
  <1>2. /\ objects'[o].tid = objects[o].tid /\ objects'[o].asked = objects[o].asked
        /\ objects'[o].type = objects[o].type
        /\ objects'[o].phase = objects[o].phase \/ (objects[o].phase = "open" /\ objects'[o].phase = "closed")
        /\ objects'[o].phase # "closed" => objects'[o] = objects[o]
    <2>1. objects[o] \in WalletObject
      BY DEF TypeOK
    <2>2. /\ Closed(objects[o]).tid = objects[o].tid /\ Closed(objects[o]).asked = objects[o].asked
          /\ Closed(objects[o]).type = objects[o].type /\ Closed(objects[o]).phase = "closed"
      BY <2>1 DEF Closed, WalletObject
    <2> QED BY <2>2 DEF ClosingStep
  <1>3. \A i \in DOMAIN inbox'[p] : inbox'[p][i].type = "walletAsyncOpened" =>
          i \in DOMAIN inbox[p] /\ inbox'[p][i] = inbox[p][i]
    BY <1>1 DEF ClosingNews, NewIn, Kept
  <1>4. \A i \in DOMAIN inbox[p] : i \in DOMAIN inbox'[p] /\ inbox'[p][i] = inbox[p][i] /\ i # 0
    BY <1>1, NewsComesLast DEF Kept
  <1>5. Answering(o)' = Answering(o)
    BY <1>2, <1>3, <1>4 DEF Answering
  <1>6. \A i \in Answering(o) : i \in DOMAIN Box(o) /\ i # 0 /\ Box(o)'[i] = Box(o)[i]
    BY <1>4 DEF Answering, Box
  <1>7. InProgress' = InProgress /\ JobsOf(o)' = JobsOf(o) /\ AppOf(o)' = AppOf(o) /\ Current' = Current
    BY DEF ClosingStep, InProgress, JobsOf, AppOf, Current
  <1> QED BY <1>2, <1>5, <1>6, <1>7

LEMMA ClosingStepClaims ==
  ASSUME TypeOK, TypeOK', ClosingStep, NEW o \in Current', NEW i \in Claims(o)'
  PROVE  /\ o \in Current /\ i \in Claims(o) /\ HandleAt(o, i)' = HandleAt(o, i)
         /\ ClaimedSession(o, i)' = ClaimedSession(o, i)
         /\ i \in DOMAIN Box(o) \cup {0}
         /\ ClosesLater(o, i) => ClosesLater(o, i)'
         /\ ClosesLater(o, i)' =>
              ClosesLater(o, i) \/ \E k \in NewIn(Owner[o]) :
                 Closes(inbox'[Owner[o]][k], HandleAt(o, i), objects[o].asked)
  <1>1. o \in Object /\ o \in Current
    BY ClosingStepAnswering DEF Current, ClosingStep
  <1>2. i \in Claims(o) /\ i \in DOMAIN Box(o) \cup {0} /\ HandleAt(o, i)' = HandleAt(o, i)
    <2>1. CASE objects'[o].phase = "open" /\ i = 0
      BY <1>1, <2>1, ClosingStepAnswering DEF Claims, HandleAt
    <2>2. CASE objects'[o].tid # 0 /\ i \in Answering(o)'
      BY <1>1, <2>2, ClosingStepAnswering DEF Claims, HandleAt
    <2> QED BY <2>1, <2>2 DEF Claims
  <1>3. ClaimedSession(o, i)' = ClaimedSession(o, i)
    BY <1>1, <1>2, ClosingStepAnswering DEF ClaimedSession
  <1>4. Owner[o] \in Process /\ Kept(Owner[o]) /\ objects'[o].asked = objects[o].asked
    BY <1>1, OwnerIsProcess, ClosingStepAnswering DEF ClosingStep
  <1>5. /\ DOMAIN Box(o) \subseteq DOMAIN Box(o)'
        /\ \A k \in DOMAIN Box(o) : Box(o)'[k] = Box(o)[k]
    BY <1>4, NewsComesLast DEF Box, Kept
  <1>6. ClosesLater(o, i) => ClosesLater(o, i)'
    BY <1>2, <1>4, <1>5 DEF ClosesLater, Closes
  <1>7. ClosesLater(o, i)' =>
          ClosesLater(o, i) \/ \E k \in NewIn(Owner[o]) :
             Closes(inbox'[Owner[o]][k], HandleAt(o, i), objects[o].asked)
    BY <1>2, <1>4, <1>5 DEF ClosesLater, Closes, NewIn, Box
  <1> QED BY <1>1, <1>2, <1>3, <1>6, <1>7

LEMMA ClosingStepHeld ==
  ASSUME TypeOK, TypeOK', Held, ClosingStep
  PROVE  Held'
  <1> SUFFICES ASSUME NEW o \in Current', NEW i \in Claims(o)'
               PROVE  /\ HandleAt(o, i)' \notin unheard' =>
                           ClaimedSession(o, i)' \in DOMAIN sessions' \/ ClosesLater(o, i)'
                      /\ ClaimedSession(o, i)' \in DOMAIN sessions' =>
                           sessions'[ClaimedSession(o, i)'] = objects'[o].asked
                      /\ objects'[o].tid # 0 /\ ClosesLater(o, i)' =>
                           ClaimedSession(o, i)' \notin DOMAIN sessions'
    BY DEF Held
  <1> DEFINE h == HandleAt(o, i)
             s == ClaimedSession(o, i)
             p == Owner[o]
             n == objects[o].asked
  <1>1. /\ o \in Object /\ o \in Current /\ i \in Claims(o) /\ HandleAt(o, i)' = h
        /\ ClaimedSession(o, i)' = s
        /\ objects'[o].asked = n /\ objects'[o].tid = objects[o].tid /\ p \in Process
    BY ClosingStepClaims, ClosingStepAnswering, OwnerIsProcess DEF Current
  <1>2. /\ h \notin unheard => s \in DOMAIN sessions \/ ClosesLater(o, i)
        /\ s \in DOMAIN sessions => sessions[s] = n
        /\ objects[o].tid # 0 /\ ClosesLater(o, i) => s \notin DOMAIN sessions
    BY <1>1 DEF Held
  <1>3. s[1] = h /\ s[2] = appid[p]
    BY DEF ClaimedSession, AppOf
  <1>4. i \in DOMAIN inbox[p] \cup {0} /\ Kept(p) /\ ClosingNews(p)
    BY <1>1, ClosingStepClaims DEF Box, ClosingStep
  <1>5. /\ ClosesLater(o, i) => ClosesLater(o, i)'
        /\ ClosesLater(o, i)' =>
              ClosesLater(o, i) \/ \E k \in NewIn(p) : Closes(inbox'[p][k], h, n)
    BY ClosingStepClaims
  <1>6. ASSUME NEW k \in NewIn(p), Closes(inbox'[p][k], h, n) PROVE ClosesLater(o, i)'
    <2>1. k \in DOMAIN Box(o)' /\ k > i /\ Box(o)'[k] = inbox'[p][k]
      BY <1>1, <1>4, NewsComesLast DEF NewIn, Box
    <2>2. Closes(Box(o)[k], HandleAt(o, i), objects[o].asked)'
      BY <1>1, <1>6, <2>1 DEF Closes
    <2> QED BY <2>1, <2>2 DEF ClosesLater
  <1> HIDE DEF h, s, p, n
  <1>7. ASSUME h \notin unheard' PROVE s \in DOMAIN sessions' \/ ClosesLater(o, i)'
    <2>1. h \notin unheard
      BY <1>7 DEF ClosingStep
    <2>2. CASE s \in DOMAIN sessions \ DOMAIN sessions'
      <3>1. News(s, p)
        BY <1>1, <1>3, <1>7, <2>2 DEF ClosingStep
      <3>2. \E k \in NewIn(p) : Closes(inbox'[p][k], h, n)
        BY <1>2, <1>3, <2>2, <3>1 DEF News
      <3> QED BY <1>6, <3>2
    <2> QED BY <1>2, <1>5, <2>1, <2>2
  <1>8. s \in DOMAIN sessions' => s \in DOMAIN sessions /\ sessions'[s] = sessions[s]
    BY DEF ClosingStep, Shrinks
  <1>9. ASSUME objects[o].tid # 0, ClosesLater(o, i)', s \in DOMAIN sessions' PROVE FALSE
    <2>1. PICK k \in NewIn(p) : Closes(inbox'[p][k], h, n)
      BY <1>2, <1>5, <1>8, <1>9
    <2>2. inbox'[p][k].type \in {"walletClosedId", "applicationDisconnected"}
      BY <1>4 DEF ClosingNews
    <2>3. CASE inbox'[p][k].type = "walletClosedId"
      BY <1>3, <1>4, <1>9, <2>1, <2>3 DEF ClosingNews, Closes
    <2>4. CASE inbox'[p][k].type = "applicationDisconnected"
      BY <1>2, <1>3, <1>4, <1>8, <1>9, <2>1, <2>4 DEF ClosingNews, Closes
    <2> QED BY <2>2, <2>3, <2>4
  <1> QED BY <1>1, <1>2, <1>7, <1>8, <1>9

LEMMA ClosingStepAgreement ==
  ASSUME TypeOK, TypeOK', Agreement, ClosingStep
  PROVE  Agreement'
  <1> USE DEF Agreement
  <1>1. \A o \in Object :
          /\ Answering(o)' = Answering(o) /\ JobsOf(o)' = JobsOf(o) /\ AppOf(o)' = AppOf(o)
          /\ objects'[o].tid = objects[o].tid /\ objects'[o].asked = objects[o].asked
          /\ objects'[o].type = objects[o].type
          /\ objects'[o].phase = objects[o].phase
             \/ (objects[o].phase = "open" /\ objects'[o].phase = "closed")
          /\ objects'[o].phase # "closed" => objects'[o] = objects[o]
    BY ClosingStepAnswering
  <1>2. /\ Current' = Current /\ InProgress' = InProgress /\ Current \subseteq Object
        /\ UNCHANGED <<alive, jobs, busy, lastTid, drawn, appid, outdated, failed>>
    BY DEF ClosingStep, Current, InProgress
  <1>3. \A p \in Process :
          /\ \A i \in DOMAIN inbox[p] : i \in DOMAIN inbox'[p] /\ inbox'[p][i] = inbox[p][i]
          /\ \A i \in DOMAIN inbox'[p] : i \in DOMAIN inbox[p] \/ i \in NewIn(p)
          /\ ClosingNews(p)
    BY NewsComesLast DEF ClosingStep, Kept, NewIn
  <1>4. Handles'
    <2>1. \A o \in Object : objects'[o].handle <= drawn
      <3>1. \A o \in Object : objects[o] \in WalletObject
        BY DEF TypeOK
      <3>2. \A o \in Object : Closed(objects[o]).handle = 0
        BY <3>1 DEF Closed, WalletObject
      <3>3. 0 <= drawn
        BY DEF TypeOK
      <3> QED BY <3>2, <3>3 DEF Handles, ClosingStep
    <2>2. \A p \in Process : \A i \in DOMAIN inbox'[p] :
            inbox'[p][i].type \in {"walletAsyncOpened", "walletClosedId"} => inbox'[p][i].handle <= drawn
      BY <1>3 DEF Handles, ClosingNews
    <2>3. DOMAIN sessions' \subseteq DOMAIN sessions
      BY DEF ClosingStep, Shrinks
    <2> QED BY <1>2, <2>1, <2>2, <2>3 DEF Handles
  <1>5. Phases'
    BY <1>1, <1>2 DEF Phases
  <1>6. Works'
    <2>1. \A j \in InProgress : j.object \in Object
      BY DEF InProgress, TypeOK, Job
    <2>2. \A j \in InProgress : JobIsOwners(j)'
      BY <1>1, <1>2, <2>1 DEF Works, JobIsOwners
    <2> QED BY <1>1, <1>2, <2>2 DEF Works
  <1>7. Answers'
    <2>1. \A p \in Process : \A i \in DOMAIN inbox'[p] :
            inbox'[p][i].type = "walletAsyncOpened" =>
              /\ inbox'[p][i].tid # 0
              /\ \/ inbox'[p][i].tid <= lastTid
                 \/ \E k \in DOMAIN inbox'[p] : k > i /\ inbox'[p][k].type = "serviceUnregistered"
      <3> SUFFICES ASSUME NEW p \in Process, NEW i \in DOMAIN inbox'[p],
                          inbox'[p][i].type = "walletAsyncOpened"
                   PROVE  /\ inbox'[p][i].tid # 0
                          /\ \/ inbox'[p][i].tid <= lastTid
                             \/ \E k \in DOMAIN inbox'[p] : k > i /\ inbox'[p][k].type = "serviceUnregistered"
        OBVIOUS
      <3>1. i \in DOMAIN inbox[p] /\ inbox'[p][i] = inbox[p][i]
        BY <1>3 DEF ClosingNews
      <3> QED BY <1>3, <3>1 DEF Answers
    <2>2. \A o \in Current : objects'[o].tid # 0 =>
            /\ \A i \in DOMAIN Box(o)' : Box(o)'[i].type # "serviceUnregistered"
            /\ Answering(o)' # {} => objects'[o].phase = "waiting"
      <3> SUFFICES ASSUME NEW o \in Current, objects'[o].tid # 0
                   PROVE  /\ \A i \in DOMAIN Box(o)' : Box(o)'[i].type # "serviceUnregistered"
                          /\ Answering(o)' # {} => objects'[o].phase = "waiting"
        OBVIOUS
      <3>1. Owner[o] \in Process /\ o \in Object
        BY <1>2, OwnerIsProcess
      <3>2. \A i \in DOMAIN Box(o)' : Box(o)'[i].type # "serviceUnregistered"
        BY <1>1, <1>3, <3>1 DEF Answers, ClosingNews, Box
      <3> QED BY <1>1, <3>1, <3>2 DEF Answers
    <2> QED BY <1>2, <2>1, <2>2 DEF Answers
  <1>8. Accounted'
    <2> SUFFICES ASSUME NEW o \in Current, objects'[o].phase \in {"calling", "waiting"} PROVE Owed(o)'
      BY <1>2 DEF Accounted
    <2>1. Owed(o) /\ o \in Object /\ Owner[o] \in Process
      BY <1>1, <1>2, OwnerIsProcess DEF Accounted
    <2>2. DOMAIN Box(o) \subseteq DOMAIN Box(o)'
      BY <1>3, <2>1 DEF Box
    <2> QED BY <1>1, <1>2, <2>1, <2>2 DEF Owed
  <1>9. Once'
    BY <1>2, ClosingStepClaims DEF Once
  <1>10. ClosedIds'
    BY <1>3 DEF ClosedIds, ClosingNews, ClosingStep, Shrinks
  <1> QED BY <1>4, <1>5, <1>6, <1>7, <1>8, <1>9, <1>10, ClosingStepHeld

LEMMA ToldFacts ==
  ASSUME TypeOK, NEW w \in [App -> SUBSET Name], inbox' = Told(w), NEW p \in Process
  PROVE  /\ Kept(p)
         /\ \A k \in NewIn(p) : /\ inbox'[p][k].type = "applicationDisconnected"
                                /\ inbox'[p][k].wallets = w[appid[p]]
         /\ w[appid[p]] # {} => NewIn(p) # {}
  <1> DEFINE m == [type |-> "applicationDisconnected", wallets |-> w[appid[p]]]
  <1>1. inbox[p] \in Seq(Signal) /\ m \in Signal
    BY DEF TypeOK, Signal
  <1>2. CASE w[appid[p]] = {}
    <2>1. inbox'[p] = inbox[p] /\ Len(inbox[p]) \in Nat
      BY <1>1, <1>2 DEF Told
    <2> QED BY <1>2, <2>1 DEF Kept, NewIn
  <1>3. CASE w[appid[p]] # {}
    <2>1. inbox'[p] = Append(inbox[p], m)
      BY <1>3 DEF Told
    <2> HIDE DEF m
    <2>2. NewIn(p) = {Len(inbox[p]) + 1} /\ Kept(p) /\ inbox'[p][Len(inbox[p]) + 1] = m
      BY <1>1, <2>1, AppendFacts DEF NewIn, Kept
    <2>3. m.type = "applicationDisconnected" /\ m.wallets = w[appid[p]]
      BY DEF m
    <2> QED BY <2>2, <2>3
  <1> QED BY <1>2, <1>3

\* Telling applications that they have lost the wallets w.
LEMMA TellingClosesSessions ==
  ASSUME TypeOK, NEW w \in [App -> SUBSET Name], inbox' = Told(w), Shrinks,
         \A s \in DOMAIN sessions' : sessions'[s] \notin w[s[2]],
         \A s \in DOMAIN sessions \ DOMAIN sessions' : s[1] \in unheard' \/ sessions[s] \in w[s[2]],
         unheard \subseteq unheard', objects' = objects,
         UNCHANGED <<alive, jobs, busy, lastTid, drawn, appid, outdated, failed>>
  PROVE  ClosingStep
  <1>1. ASSUME NEW p \in Process PROVE Kept(p) /\ ClosingNews(p)
    <2>1. \A k \in NewIn(p) : /\ inbox'[p][k].type = "applicationDisconnected"
                              /\ inbox'[p][k].wallets = w[appid[p]]
      BY ToldFacts
    <2> QED BY <2>1, ToldFacts DEF ClosingNews
  <1>2. ASSUME NEW s \in DOMAIN sessions \ DOMAIN sessions', s[1] \notin unheard',
               NEW p \in Process, appid[p] = s[2]
        PROVE  News(s, p)
    <2>1. sessions[s] \in w[appid[p]]
      BY <1>2
    <2>2. PICK k \in NewIn(p) : inbox'[p][k].type = "applicationDisconnected"
                                /\ inbox'[p][k].wallets = w[appid[p]]
      BY <2>1, ToldFacts
    <2> QED BY <2>1, <2>2 DEF News, Closes
  <1> QED BY <1>1, <1>2 DEF ClosingStep

LEMMA CloseWalletCloses ==
  ASSUME TypeOK, NEW n \in Name, CloseWallet(n), objects' = objects,
         UNCHANGED <<alive, jobs, busy, lastTid, drawn, appid, outdated, failed>>
  PROVE  ClosingStep
  <1> DEFINE S == SessionsOf(n)
             left == Apps(DOMAIN sessions \ S)
             w == [a \in App |-> IF a \in Apps(S) \ left THEN {n} ELSE {}]
  <1>1. /\ sessions' = Without(S) /\ inbox' = Told(w)
        /\ unheard' = unheard \cup {s[1] : s \in {t \in S : t[2] \in left}}
    BY DEF CloseWallet
  <1>2. w \in [App -> SUBSET Name]
    OBVIOUS
  <1>3. DOMAIN sessions' = DOMAIN sessions \ S /\ Shrinks
    BY <1>1, WithoutFacts, CloseWalletShrinks
  <1>4. \A s \in DOMAIN sessions : s[2] \in App
    BY DEF TypeOK
  <1>5. \A s \in DOMAIN sessions' : s[2] \in left
    BY <1>3 DEF Apps
  <1>6. \A s \in DOMAIN sessions' : sessions'[s] \notin w[s[2]]
    BY <1>3, <1>4, <1>5
  <1>7. ASSUME NEW s \in DOMAIN sessions \ DOMAIN sessions'
        PROVE  s[1] \in unheard' \/ sessions[s] \in w[s[2]]
    <2>1. s \in S /\ sessions[s] = n /\ s[2] \in App /\ s[2] \in Apps(S)
      BY <1>3, <1>4 DEF SessionsOf, Apps
    <2> QED BY <1>1, <2>1
  <1> HIDE DEF w, S, left
  <1>8. unheard \subseteq unheard'
    BY <1>1
  <1> QED BY <1>1, <1>2, <1>3, <1>6, <1>7, <1>8, TellingClosesSessions

LEMMA CloseAllWalletsCloses ==
  ASSUME TypeOK, CloseAllWallets, objects' = objects,
         UNCHANGED <<alive, jobs, busy, lastTid, drawn, appid, outdated, failed>>
  PROVE  ClosingStep
  <1> DEFINE w == [a \in App |-> {sessions[s] : s \in {t \in DOMAIN sessions : t[2] = a}}]
  <1>1. inbox' = Told(w) /\ unheard' = unheard
    BY DEF CloseAllWallets
  <1>2. w \in [App -> SUBSET Name]
    BY DEF TypeOK
  <1>3. Shrinks /\ DOMAIN sessions' = {}
    BY CloseAllWalletsShrinks
  <1>4. \A s \in DOMAIN sessions : sessions[s] \in w[s[2]]
    BY DEF TypeOK
  <1> HIDE DEF w
  <1> QED BY <1>1, <1>2, <1>3, <1>4, TellingClosesSessions

LEMMA DisconnectApplicationCloses ==
  ASSUME TypeOK, NEW n \in Name, NEW a \in App, DisconnectApplication(n, a)
  PROVE  ClosingStep
  <1> DEFINE S == {s \in SessionsOf(n) : s[2] = a}
             w == [b \in App |-> IF b = a THEN {n} ELSE {}]
  <1>1. sessions' = Without(S) /\ inbox' = Told(w)
    BY DEF DisconnectApplication
  <1>2. w \in [App -> SUBSET Name]
    OBVIOUS
  <1>3. /\ DOMAIN sessions' = DOMAIN sessions \ S
        /\ \A s \in DOMAIN sessions' : sessions'[s] = sessions[s]
    <2> HIDE DEF S
    <2> QED BY <1>1, WithoutFacts
  <1>4. \A s \in DOMAIN sessions : s[2] \in App
    BY DEF TypeOK
  <1>5. \A s \in DOMAIN sessions' : sessions'[s] \notin w[s[2]]
    BY <1>3, <1>4 DEF SessionsOf
  <1>6. \A s \in DOMAIN sessions \ DOMAIN sessions' : sessions[s] \in w[s[2]]
    BY <1>3, <1>4 DEF SessionsOf
  <1>7. Shrinks
    BY <1>3 DEF Shrinks
  <1>8. unheard' = unheard /\ objects' = objects
        /\ UNCHANGED <<alive, jobs, busy, lastTid, drawn, appid, outdated, failed>>
    BY DEF DisconnectApplication, history
  <1> HIDE DEF w
  <1> QED BY <1>1, <1>2, <1>5, <1>6, <1>7, <1>8, TellingClosesSessions

LEMMA LockWalletTells ==
  ASSUME TypeOK, NEW o \in Object, LockWallet(o), SessionOf(o) \in DOMAIN sessions, NEW p \in Process
  PROVE  /\ Kept(p)
         /\ \E k \in NewIn(p) : /\ inbox'[p][k].type = "walletClosedId"
                                /\ inbox'[p][k].handle = objects[o].handle
         /\ \A k \in NewIn(p) :
              \/ /\ inbox'[p][k].type = "walletClosedId"
                 /\ inbox'[p][k].handle = objects[o].handle
              \/ /\ inbox'[p][k].type = "applicationDisconnected"
                 /\ appid[p] \notin Apps(DOMAIN sessions')
  <1> DEFINE s == SessionOf(o)
             id == [type |-> "walletClosedId", handle |-> s[1]]
             last == [type |-> "applicationDisconnected", wallets |-> {sessions[s]}]
             both == appid[p] = s[2] /\ s[2] \notin Apps(DOMAIN sessions \ {s})
             L == Len(inbox[p])
  <1>1. /\ id \in Signal /\ last \in Signal
        /\ id.type = "walletClosedId" /\ id.handle = objects[o].handle
        /\ last.type = "applicationDisconnected"
    BY DEF Signal, TypeOK, SessionOf
  <1>2. Broadcast(id, inbox)[p] = Append(inbox[p], id)
    BY DEF Broadcast
  <1>3. inbox'[p] = IF both THEN Append(Append(inbox[p], id), last) ELSE Append(inbox[p], id)
    BY <1>2 DEF LockWallet, SessionOf
  <1>4. DOMAIN sessions' = DOMAIN sessions \ {s}
    <2>1. sessions' = Without({s})
      BY DEF LockWallet, SessionOf
    <2> QED BY <2>1, WithoutFacts
  <1>5. inbox[p] \in Seq(Signal)
    BY DEF TypeOK
  <1> HIDE DEF id, last
  <1>6. Append(inbox[p], id) \in Seq(Signal)
    BY <1>1, <1>5, AppendFacts
  <1>7. CASE ~both
    <2> HIDE DEF both
    <2>1. /\ NewIn(p) = {L + 1} /\ Kept(p) /\ inbox'[p][L + 1] = id
      BY <1>1, <1>3, <1>5, <1>7, AppendFacts DEF NewIn, Kept
    <2> QED BY <1>1, <2>1
  <1>8. CASE both
    <2>1. appid[p] \notin Apps(DOMAIN sessions')
      BY <1>4, <1>8
    <2> HIDE DEF both
    <2>2. inbox'[p] = Append(Append(inbox[p], id), last)
      BY <1>3, <1>8
    <2>3. /\ DOMAIN inbox[p] = 1 .. L /\ L \in Nat
          /\ DOMAIN Append(inbox[p], id) = 1 .. L + 1
          /\ Len(Append(inbox[p], id)) = L + 1
          /\ \A i \in 1 .. L : Append(inbox[p], id)[i] = inbox[p][i]
          /\ Append(inbox[p], id)[L + 1] = id
      BY <1>1, <1>5, AppendFacts
    <2>4. /\ DOMAIN inbox'[p] = 1 .. L + 2
          /\ Len(inbox'[p]) = L + 2
          /\ \A i \in 1 .. L + 1 : inbox'[p][i] = Append(inbox[p], id)[i]
          /\ inbox'[p][L + 2] = last
      BY <1>1, <1>6, <2>2, <2>3, AppendFacts
    <2>5. NewIn(p) = {L + 1, L + 2}
      BY <2>3, <2>4 DEF NewIn
    <2>6. Kept(p) /\ inbox'[p][L + 1] = id
      BY <2>3, <2>4 DEF Kept
    <2> QED BY <1>1, <2>1, <2>4, <2>5, <2>6
  <1> QED BY <1>7, <1>8

LEMMA LockWalletCloses ==
  ASSUME TypeOK, Handles, NEW o \in Object, LockWallet(o)
  PROVE  ClosingStep
  <1> DEFINE s == SessionOf(o)
  <1>1. /\ unheard' = unheard
        /\ UNCHANGED <<alive, jobs, busy, lastTid, drawn, appid, outdated, failed>>
    BY DEF LockWallet, history
  <1>2. Shrinks
    <2>1. Closing
      BY DEF Closing
    <2> QED BY <2>1, ClosingShrinks
  <1>3. \A q \in Object :
          \/ objects'[q] = objects[q]
          \/ objects[q].phase = "open" /\ objects'[q] = Closed(objects[q])
    <2>1. objects' = [objects EXCEPT ![o] = Closed(objects[o])] /\ objects[o].phase = "open"
      BY DEF LockWallet, Closed
    <2> QED BY <2>1 DEF TypeOK
  <1>4. CASE s \notin DOMAIN sessions
    <2>1. UNCHANGED <<sessions, inbox>>
      BY <1>4 DEF LockWallet, SessionOf
    <2>2. \A p \in Process : Kept(p) /\ NewIn(p) = {}
      BY <2>1 DEF TypeOK, Kept, NewIn
    <2>3. \A p \in Process : ClosingNews(p)
      BY <2>2 DEF ClosingNews
    <2> QED BY <1>1, <1>2, <1>3, <2>1, <2>2, <2>3 DEF ClosingStep
  <1>5. CASE s \in DOMAIN sessions
    <2>1. s[1] = objects[o].handle
      BY DEF SessionOf
    <2>2. DOMAIN sessions' = DOMAIN sessions \ {s}
      <3>1. sessions' = Without({s})
        BY <1>5 DEF LockWallet, SessionOf
      <3> QED BY <3>1, WithoutFacts
    <2>3. objects[o].handle <= drawn /\ \A t \in DOMAIN sessions' : t[1] # objects[o].handle
      BY <1>5, <2>1, <2>2 DEF Handles
    <2>4. ASSUME NEW p \in Process PROVE Kept(p) /\ ClosingNews(p) /\ News(s, p)
      <3>1. News(s, p)
        BY <1>5, <2>1, LockWalletTells DEF News, Closes
      <3>2. \A t \in DOMAIN sessions' : t[2] \in Apps(DOMAIN sessions')
        BY DEF Apps
      <3>3. ClosingNews(p)
        BY <1>5, <2>3, <3>2, LockWalletTells DEF ClosingNews
      <3> QED BY <1>5, <3>1, <3>3, LockWalletTells
    <2>5. \A t \in DOMAIN sessions \ DOMAIN sessions' : t = s
      BY <2>2
    <2> QED BY <1>1, <1>2, <1>3, <2>4, <2>5 DEF ClosingStep
  <1> QED BY <1>4, <1>5

LEMMA ClosingAgreement ==
  ASSUME TypeOK, TypeOK', Agreement, Closing
  PROVE  Agreement'
  <1>1. ASSUME NEW o \in Object, LockWallet(o) PROVE ClosingStep
    BY <1>1, LockWalletCloses DEF Agreement
  <1>2. ASSUME NEW n \in Name, CallCloseWallet(n) PROVE ClosingStep
    BY <1>2, CloseWalletCloses DEF CallCloseWallet
  <1>3. ASSUME NEW n \in Name, NEW a \in App, DisconnectApplication(n, a) PROVE ClosingStep
    BY <1>3, DisconnectApplicationCloses
  <1>4. ASSUME CallCloseAllWallets PROVE ClosingStep
    BY <1>4, CloseAllWalletsCloses DEF CallCloseAllWallets
  <1> QED BY <1>1, <1>2, <1>3, <1>4, ClosingStepAgreement DEF Closing

LEMMA HandleNoticeAgreement ==
  ASSUME TypeOK, TypeOK', Agreement, HandleNotice
  PROVE  Agreement'
  <1>1. UNCHANGED <<alive, jobs, busy, lastTid, drawn, appid, objects, outdated, failed>>
    BY DEF HandleNotice
  <1>2. CASE UNCHANGED <<sessions, inbox, unheard>>
    <2>1. InProgress' = InProgress /\ busy' \notin jobs'
      BY <1>1 DEF InProgress, Agreement, Works
    <2> QED BY <1>1, <1>2, <2>1, QuietStep
  <1>3. CASE CloseAllWallets
    BY <1>1, <1>3, CloseAllWalletsCloses, ClosingStepAgreement
  <1>4. ASSUME NEW n \in Name, CloseWallet(n) PROVE Agreement'
    BY <1>1, <1>4, CloseWalletCloses, ClosingStepAgreement
  <1> QED BY <1>2, <1>3, <1>4 DEF HandleNotice, CollectionChanged, ServiceChanged

-----------------------------------------------------------------------------
(* Steps of one object, with no signal *)

LEMMA SameObject ==
  ASSUME NEW q, objects'[q] = objects[q], inbox'[Owner[q]] = inbox[Owner[q]], appid' = appid
  PROVE  /\ Answering(q)' = Answering(q) /\ Box(q)' = Box(q) /\ AppOf(q)' = AppOf(q)
         /\ Claims(q)' = Claims(q)
         /\ \A i : /\ HandleAt(q, i)' = HandleAt(q, i)
                   /\ ClaimedSession(q, i)' = ClaimedSession(q, i)
                   /\ ClosesLater(q, i)' = ClosesLater(q, i)
  <1>1. Answering(q)' = Answering(q) /\ Box(q)' = Box(q) /\ AppOf(q)' = AppOf(q)
    BY DEF Answering, Box, AppOf
  <1>2. Claims(q)' = Claims(q) /\ \A i : HandleAt(q, i)' = HandleAt(q, i)
    BY <1>1 DEF Claims, HandleAt
  <1>3. \A i : /\ ClaimedSession(q, i)' = ClaimedSession(q, i)
               /\ ClosesLater(q, i)' = ClosesLater(q, i)
    BY <1>1, <1>2 DEF ClaimedSession, ClosesLater, Closes
  <1> QED BY <1>1, <1>2, <1>3

LEMMA NoNewClaims ==
  ASSUME Agreement, NEW o \in Object, Current' \subseteq Current,
         UNCHANGED <<sessions, inbox, appid, drawn, unheard>>,
         \A q \in Object \ {o} : objects'[q] = objects[q],
         objects'[o].handle = 0 \/ objects'[o].handle = objects[o].handle, drawn \in Nat,
         o \in Current' => Claims(o)' = {}
  PROVE  Handles' /\ Once' /\ Held' /\ ClosedIds'
  <1>1. Handles' /\ ClosedIds'
    BY DEF Agreement, Handles, ClosedIds
  <1>2. \A q \in Current' \ {o} :
          /\ q \in Current /\ Claims(q)' = Claims(q) /\ objects'[q] = objects[q]
          /\ \A i : /\ HandleAt(q, i)' = HandleAt(q, i)
                    /\ ClaimedSession(q, i)' = ClaimedSession(q, i)
                    /\ ClosesLater(q, i)' = ClosesLater(q, i)
    BY SameObject DEF Current
  <1>3. Once'
    BY <1>2 DEF Agreement, Once
  <1>4. Held'
    BY <1>2 DEF Agreement, Held
  <1> QED BY <1>1, <1>3, <1>4

LEMMA NoAnswerWithoutId ==
  ASSUME TypeOK, Answers, NEW o \in Object, objects[o].tid = 0
  PROVE  Answering(o) = {}
  BY OwnerIsProcess DEF Answers, Answering

LEMMA DeletedFacts ==
  /\ DeletedObject.phase = "deleted" /\ DeletedObject.tid = 0 /\ DeletedObject.handle = 0
  /\ DeletedObject.type = "Synchronous"
  BY DEF DeletedObject, NewObject

LEMMA DeleteObjectAgreement ==
  ASSUME TypeOK, TypeOK', Agreement, NEW o \in Object, DeleteObject(o)
  PROVE  Agreement'
  <1> USE DEF Agreement
  <1>1. /\ objects[o].phase \notin {"new", "calling"}
        /\ UNCHANGED <<alive, sessions, jobs, busy, lastTid, drawn, appid, inbox, unheard, outdated, failed>>
        /\ objects'[o] = DeletedObject
        /\ \A q \in Object \ {o} : objects'[q] = objects[q]
    BY DEF DeleteObject, TypeOK, kwalletd, history
  <1>2. /\ objects'[o].phase = "deleted" /\ objects'[o].tid = 0 /\ objects'[o].handle = 0
        /\ objects'[o].type = "Synchronous"
    BY <1>1, DeletedFacts
  <1>3. /\ InProgress' = InProgress /\ Current' = Current /\ Current \subseteq Object
        /\ \A q : JobsOf(q)' = JobsOf(q) /\ AppOf(q)' = AppOf(q) /\ Box(q)' = Box(q)
        /\ \A q \in Object \ {o} : Answering(q)' = Answering(q)
    BY <1>1 DEF InProgress, Current, JobsOf, AppOf, Box, Answering
  <1>4. Claims(o)' = {}
    BY <1>2 DEF Claims
  <1>5. Handles' /\ Once' /\ Held' /\ ClosedIds'
    BY <1>1, <1>2, <1>3, <1>4, NoNewClaims DEF TypeOK
  <1>6. Phases'
    BY <1>1, <1>2, <1>3 DEF Phases
  <1>7. Works'
    <2>1. \A j \in InProgress : j.object \in Object
      BY DEF InProgress, TypeOK, Job
    <2>2. ASSUME NEW j \in InProgress PROVE JobIsOwners(j)'
      <3>1. JobIsOwners(j)
        BY DEF Works
      <3>2. j.tid = 0 => j.object # o
        BY <1>1, <3>1 DEF JobIsOwners
      <3> QED BY <1>1, <1>2, <1>3, <2>1, <3>1, <3>2 DEF JobIsOwners
    <2>3. lastTid \in Nat
      BY DEF TypeOK
    <2> QED BY <1>1, <1>2, <1>3, <2>2, <2>3 DEF Works
  <1>8. Answers'
    BY <1>1, <1>2, <1>3 DEF Answers
  <1>9. Accounted'
    BY <1>1, <1>2, <1>3 DEF Accounted, Owed
  <1> QED BY <1>5, <1>6, <1>7, <1>8, <1>9

LEMMA NoneIsNoJob == None \notin Job
  BY ConstantsAssumption DEF Job

LEMMA NewJob ==
  ASSUME TypeOK, NEW o \in Object, JobsOf(o) = {}, NEW j \in Job, j.object = o,
         jobs' = jobs \cup {j}, busy' = busy, busy \notin jobs
  PROVE  /\ InProgress' = InProgress \cup {j} /\ busy' \notin jobs'
         /\ JobsOf(o)' = {j}
         /\ \A q \in Object \ {o} : JobsOf(q)' = JobsOf(q)
         /\ \A k \in InProgress : k.object \in Object \ {o}
  <1>1. InProgress' = InProgress \cup {j}
    BY DEF InProgress
  <1>2. \A k \in InProgress : k.object \in Object \ {o}
    BY DEF JobsOf, InProgress, TypeOK, Job
  <1>3. busy # j
    BY <1>2, NoneIsNoJob DEF InProgress
  <1>4. JobsOf(o)' = {j} /\ \A q \in Object \ {o} : JobsOf(q)' = JobsOf(q)
    BY <1>1, <1>2 DEF JobsOf
  <1> QED BY <1>1, <1>2, <1>3, <1>4

LEMMA OpenWalletAgreement ==
  ASSUME TypeOK, TypeOK', Agreement, NEW o \in Object, NEW n \in Name, OpenWallet(o, n)
  PROVE  Agreement'
  <1> USE DEF Agreement
  <1>0. PICK j \in Job : /\ jobs' = jobs \cup {j}
                         /\ j.object = o /\ j.tid = 0 /\ j.app = AppOf(o) /\ j.wallet = n
    <2> DEFINE k == [wallet |-> n, app |-> AppOf(o), tid |-> 0, object |-> o]
    <2>1. k \in Job /\ k.object = o /\ k.tid = 0 /\ k.app = AppOf(o) /\ k.wallet = n
      BY OwnerIsProcess DEF Job, AppOf, TypeOK
    <2>2. jobs' = jobs \cup {k}
      BY DEF OpenWallet
    <2> QED BY <2>1, <2>2
  <1>1. /\ objects[o].phase = "new"
        /\ UNCHANGED <<alive, sessions, busy, lastTid, drawn, appid, inbox, unheard, outdated, failed>>
        /\ \A q \in Object \ {o} : objects'[q] = objects[q]
    BY DEF OpenWallet, TypeOK, history
  <1>2. /\ objects'[o].phase = "calling" /\ objects'[o].tid = objects[o].tid
        /\ objects'[o].handle = objects[o].handle /\ objects'[o].type = objects[o].type
        /\ objects'[o].asked = n /\ objects'[o].name = n
    <2>1. objects[o] \in WalletObject
      BY DEF TypeOK
    <2>2. objects'[o] = [objects[o] EXCEPT !.phase = "calling", !.asked = n, !.name = n]
      BY DEF OpenWallet, TypeOK
    <2> QED BY <2>1, <2>2 DEF WalletObject
  <1>3. objects[o].tid = 0 /\ JobsOf(o) = {} /\ o \notin failed
    BY <1>1 DEF Phases
  <1>4. j \in Job /\ j.object = o /\ j.tid = 0 /\ j.app = AppOf(o) /\ j.wallet = n
    BY <1>0
  <1>5. /\ InProgress' = InProgress \cup {j} /\ busy' \notin jobs'
        /\ JobsOf(o)' = {j}
        /\ \A q \in Object \ {o} : JobsOf(q)' = JobsOf(q)
        /\ \A k \in InProgress : k.object \in Object \ {o}
    BY <1>0, <1>1, <1>3, <1>4, NewJob DEF Works
  <1>6. /\ Current' = Current /\ Current \subseteq Object
        /\ \A q : AppOf(q)' = AppOf(q) /\ Box(q)' = Box(q)
        /\ \A q \in Object : Answering(q)' = Answering(q)
    BY <1>1, <1>2 DEF Current, AppOf, Box, Answering
  <1>7. Claims(o)' = {}
    BY <1>2, <1>3 DEF Claims
  <1>8. Handles' /\ Once' /\ Held' /\ ClosedIds'
    BY <1>1, <1>2, <1>6, <1>7, NoNewClaims DEF TypeOK
  <1>9. Phases'
    BY <1>1, <1>2, <1>3, <1>5, <1>6 DEF Phases
  <1>10. Works'
    <2>1. \A k \in InProgress : JobIsOwners(k)'
      BY <1>1, <1>2, <1>3, <1>5, <1>6 DEF Works, JobIsOwners
    <2>2. JobIsOwners(j)'
      <3>1. lastTid' \in Nat
        BY DEF TypeOK
      <3>2. j.tid <= lastTid'
        BY <1>4, <3>1
      <3> QED BY <1>2, <1>4, <1>6, <3>1, <3>2 DEF JobIsOwners
    <2>3. \A q \in Current' : objects'[q].tid <= lastTid' /\ objects'[q].tid = objects[q].tid
      BY <1>1, <1>2, <1>6 DEF Works
    <2>4. \A q, r \in Current' : objects'[q].tid # 0 /\ objects'[q].tid = objects'[r].tid => q = r
      BY <1>6, <2>3 DEF Works
    <2>5. \A k \in InProgress' : JobIsOwners(k)'
      BY <1>5, <2>1, <2>2
    <2> QED BY <1>5, <2>3, <2>4, <2>5 DEF Works
  <1>11. Answers'
    BY <1>1, <1>2, <1>3, <1>6 DEF Answers
  <1>12. Accounted'
    <2>1. Owed(o)'
      <3>1. Answering(o)' = {}
        BY <1>3, <1>6, NoAnswerWithoutId
      <3> QED BY <1>1, <1>3, <1>5, <3>1 DEF Owed
    <2>2. \A q \in Current \ {o} : Owed(q) => Owed(q)'
      BY <1>1, <1>5, <1>6 DEF Owed
    <2> QED BY <1>1, <1>6, <2>1, <2>2 DEF Accounted
  <1> QED BY <1>5, <1>8, <1>9, <1>10, <1>11, <1>12

LEMMA OpenWalletAsyncAgreement ==
  ASSUME TypeOK, TypeOK', Agreement, NEW o \in Object, NEW n \in Name, OpenWalletAsync(o, n)
  PROVE  Agreement'
  <1> USE DEF Agreement
  <1>0. PICK t \in Nat, j \in Job :
          /\ lastTid' = t /\ t = lastTid + 1 /\ jobs' = jobs \cup {j}
          /\ j.object = o /\ j.tid = t /\ j.app = AppOf(o) /\ j.wallet = n
    <2> DEFINE u == lastTid + 1
               k == [wallet |-> n, app |-> AppOf(o), tid |-> u, object |-> o]
    <2>1. k \in Job /\ k.object = o /\ k.tid = u /\ k.app = AppOf(o) /\ k.wallet = n /\ u \in Nat
      BY OwnerIsProcess DEF Job, AppOf, TypeOK
    <2>2. jobs' = jobs \cup {k} /\ lastTid' = u
      BY DEF OpenWalletAsync
    <2> QED BY <2>1, <2>2
  <1>1. /\ objects[o].phase = "new"
        /\ UNCHANGED <<alive, sessions, busy, drawn, appid, inbox, unheard, failed>>
        /\ \A q \in Object \ {o} : objects'[q] = objects[q]
        /\ outdated' = IF [type |-> "serviceUnregistered"] \in Queued(inbox[Owner[o]])
                       THEN outdated \cup {o} ELSE outdated
    BY DEF OpenWalletAsync, TypeOK
  <1>2. /\ objects'[o].phase = "waiting" /\ objects'[o].tid = t
        /\ objects'[o].handle = objects[o].handle /\ objects'[o].type = "Asynchronous"
        /\ objects'[o].asked = n /\ objects'[o].name = n
    <2>1. objects[o] \in WalletObject
      BY DEF TypeOK
    <2>2. objects'[o] = [objects[o] EXCEPT !.phase = "waiting", !.asked = n, !.name = n,
                           !.type = "Asynchronous", !.tid = t]
      BY <1>0 DEF OpenWalletAsync, TypeOK
    <2> QED BY <2>1, <2>2 DEF WalletObject
  <1>3. objects[o].tid = 0 /\ JobsOf(o) = {} /\ o \notin failed
    BY <1>1 DEF Phases
  <1>4. /\ j \in Job /\ j.object = o /\ j.tid = t /\ j.app = AppOf(o) /\ j.wallet = n
        /\ lastTid' = t
    BY <1>0
  <1>5. lastTid \in Nat /\ t \in Nat /\ t # 0 /\ t > lastTid
    BY <1>0 DEF TypeOK
  <1>6. /\ InProgress' = InProgress \cup {j} /\ busy' \notin jobs'
        /\ JobsOf(o)' = {j}
        /\ \A q \in Object \ {o} : JobsOf(q)' = JobsOf(q)
        /\ \A k \in InProgress : k.object \in Object \ {o}
    BY <1>0, <1>1, <1>3, <1>4, NewJob DEF Works
  <1>7. /\ Current' \subseteq Current /\ Current \subseteq Object
        /\ \A q \in Current \ {o} : q \in Current'
        /\ \A q : AppOf(q)' = AppOf(q) /\ Box(q)' = Box(q)
        /\ \A q \in Object \ {o} : Answering(q)' = Answering(q)
    BY <1>1 DEF Current, AppOf, Box, Answering
  <1>8. o \in Current' => \A i \in DOMAIN Box(o) : Box(o)[i].type # "serviceUnregistered"
    <2> SUFFICES ASSUME o \in Current', NEW i \in DOMAIN Box(o), Box(o)[i].type = "serviceUnregistered"
                 PROVE  FALSE
      OBVIOUS
    <2>1. Box(o)[i] \in Signal /\ Box(o)[i] \in Queued(inbox[Owner[o]])
      BY OwnerIsProcess DEF Box, TypeOK, Queued
    <2>2. Box(o)[i] = [type |-> "serviceUnregistered"]
      BY <2>1 DEF Signal
    <2> QED BY <1>1, <2>1, <2>2 DEF Current
  <1>9. o \in Current' => Answering(o)' = {}
    <2> SUFFICES ASSUME o \in Current', NEW i \in DOMAIN Box(o), Box(o)[i].type = "walletAsyncOpened",
                        Box(o)[i].tid = t
                 PROVE  FALSE
      BY <1>1, <1>2 DEF Answering, Box
    <2>1. Box(o)[i].tid <= lastTid
      BY <1>8, OwnerIsProcess DEF Answers, Box
    <2> QED BY <1>5, <2>1
  <1>10. o \in Current' => Claims(o)' = {}
    BY <1>2, <1>9 DEF Claims
  <1>11. Handles' /\ Once' /\ Held' /\ ClosedIds'
    BY <1>1, <1>2, <1>7, <1>10, NoNewClaims DEF TypeOK
  <1>12. Phases'
    BY <1>1, <1>2, <1>3, <1>5, <1>6, <1>7 DEF Phases
  <1>13. Works'
    <2>1. \A q \in Current : objects[q].tid <= lastTid /\ objects[q].tid \in Nat
      BY <1>7 DEF Works, TypeOK, WalletObject
    <2>2. \A k \in InProgress : k.tid \in Nat /\ k.tid <= lastTid
      BY DEF Works, JobIsOwners, InProgress, TypeOK, Job
    <2>3. ASSUME NEW k \in InProgress PROVE JobIsOwners(k)'
      <3>1. JobIsOwners(k) /\ k.tid # t /\ k.tid <= t
        BY <1>5, <2>2 DEF Works
      <3> QED BY <1>1, <1>2, <1>4, <1>6, <1>7, <3>1 DEF JobIsOwners
    <2>4. \A q \in Current' : q # o => objects'[q].tid <= t /\ objects'[q].tid # t
      BY <1>1, <1>5, <1>7, <2>1
    <2>5. JobIsOwners(j)'
      <3>1. j.tid # 0 /\ j.tid <= lastTid' /\ lastTid' = t
        BY <1>1, <1>4, <1>5
      <3>2. \A q \in Current' : objects'[q].tid = j.tid => q = o
        BY <1>4, <2>4
      <3> QED BY <1>2, <1>4, <1>7, <3>1, <3>2 DEF JobIsOwners
    <2>6. \A q \in Current' : objects'[q].tid <= t
      BY <1>2, <1>5, <2>4
    <2>7. \A q, r \in Current' : objects'[q].tid # 0 /\ objects'[q].tid = objects'[r].tid => q = r
      BY <1>1, <1>2, <1>7, <2>4 DEF Works
    <2>8. \A k \in InProgress' : JobIsOwners(k)'
      BY <1>6, <2>3, <2>5
    <2> QED BY <1>4, <1>6, <2>6, <2>7, <2>8 DEF Works
  <1>14. Answers'
    <2>1. \A p \in Process : \A i \in DOMAIN inbox[p] :
            inbox[p][i].type = "walletAsyncOpened" => inbox[p][i].tid \in Nat
      <3>1. \A p \in Process : \A i \in DOMAIN inbox[p] : inbox[p][i] \in Signal
        BY DEF TypeOK
      <3> QED BY <3>1 DEF Signal
    <2>2. \A p \in Process : \A i \in DOMAIN inbox[p] :
            inbox[p][i].type = "walletAsyncOpened" =>
              /\ inbox[p][i].tid # 0
              /\ \/ inbox[p][i].tid <= t
                 \/ \E k \in DOMAIN inbox[p] : k > i /\ inbox[p][k].type = "serviceUnregistered"
      BY <1>5, <2>1 DEF Answers
    <2>3. \A q \in Current' : objects'[q].tid # 0 =>
            /\ \A i \in DOMAIN Box(q)' : Box(q)'[i].type # "serviceUnregistered"
            /\ Answering(q)' # {} => objects'[q].phase = "waiting"
      BY <1>1, <1>2, <1>7, <1>8 DEF Answers
    <2> QED BY <1>1, <1>4, <2>2, <2>3 DEF Answers
  <1>15. Accounted'
    <2>1. o \in Current' => Owed(o)'
      BY <1>1, <1>3, <1>6, <1>9 DEF Owed
    <2>2. \A q \in Current \ {o} : Owed(q) => Owed(q)'
      BY <1>1, <1>6, <1>7 DEF Owed
    <2> QED BY <1>1, <1>7, <2>1, <2>2 DEF Accounted
  <1> QED BY <1>11, <1>12, <1>13, <1>14, <1>15

-----------------------------------------------------------------------------
(* Steps that answer *)

JobEnds(j) == j \in InProgress /\ InProgress' = InProgress \ {j} /\ busy' \notin jobs'

LEMMA JobEndsFacts ==
  ASSUME TypeOK, Agreement, NEW j, JobEnds(j)
  PROVE  /\ j \in Job /\ j.object \in Object /\ JobIsOwners(j)
         /\ \A q \in Object \ {j.object} : JobsOf(q)' = JobsOf(q)
         /\ JobsOf(j.object)' = JobsOf(j.object) \ {j}
         /\ \A o \in Current : j.object = o /\ objects[o].phase \in {"calling", "waiting"} =>
              o \notin failed /\ JobsOf(o) = {j} /\ Answering(o) = {}
  <1>1. j \in Job /\ j.object \in Object /\ j \in JobsOf(j.object)
    BY DEF JobEnds, InProgress, TypeOK, Job, JobsOf
  <1>2. JobIsOwners(j)
    BY DEF Agreement, Works, JobEnds
  <1>3. \A q \in Object \ {j.object} : JobsOf(q)' = JobsOf(q)
    BY DEF JobsOf, JobEnds
  <1>4. JobsOf(j.object)' = JobsOf(j.object) \ {j}
    BY DEF JobsOf, JobEnds
  <1>5. ASSUME NEW o \in Current, j.object = o, objects[o].phase \in {"calling", "waiting"}
        PROVE  o \notin failed /\ JobsOf(o) = {j} /\ Answering(o) = {}
    <2>1. Owed(o) /\ j \in JobsOf(o)
      BY <1>1, <1>5 DEF Agreement, Accounted
    <2> QED BY <2>1 DEF Owed
  <1> QED BY <1>1, <1>2, <1>3, <1>4, <1>5

LEMMA OpenFailedAgreement ==
  ASSUME TypeOK, TypeOK', Agreement, NEW j, JobEnds(j), OpenFailed(j),
         UNCHANGED <<sessions, lastTid, drawn, appid, inbox, unheard, outdated>>
  PROVE  Agreement'
  <1> USE DEF Agreement
  <1> DEFINE o == j.object
  <1>1. /\ j \in Job /\ o \in Object /\ JobIsOwners(j)
        /\ \A q \in Object \ {o} : JobsOf(q)' = JobsOf(q)
        /\ JobsOf(o)' = JobsOf(o) \ {j}
        /\ \A q \in Current : o = q /\ objects[q].phase \in {"calling", "waiting"} =>
              q \notin failed /\ JobsOf(q) = {j} /\ Answering(q) = {}
    BY JobEndsFacts
  <1>2. /\ \A q \in Object \ {o} : objects'[q] = objects[q]
        /\ objects'[o] = IF j.tid = 0 THEN DeletedObject ELSE objects[o]
        /\ failed' = IF j.tid = 0 THEN failed ELSE failed \cup {o}
    <2>1. CASE j.tid = 0
      <3>1. objects' = [objects EXCEPT ![o] = DeletedObject] /\ failed' = failed
        BY <2>1, Zenon DEF OpenFailed
      <3> QED BY <1>1, <2>1, <3>1 DEF TypeOK
    <2>2. CASE j.tid # 0
      BY <2>2 DEF OpenFailed
    <2> QED BY <2>1, <2>2
  <1>3. /\ InProgress' = InProgress \ {j} /\ busy' \notin jobs' /\ j \in InProgress
        /\ Current' = Current /\ Current \subseteq Object
        /\ \A q : AppOf(q)' = AppOf(q) /\ Box(q)' = Box(q)
    BY DEF JobEnds, Current, AppOf, Box
  <1> HIDE DEF o
  <1>4. \A q \in Object : objects'[q] # objects[q] =>
          q = o /\ j.tid = 0 /\ objects[o].phase = "calling" /\ objects'[o] = DeletedObject
    BY <1>1, <1>2 DEF JobIsOwners, o
  <1>5. \A q \in Object : objects'[q] = objects[q] => Answering(q)' = Answering(q)
    BY SameObject
  <1>6. objects'[o] # objects[o] =>
          /\ objects'[o].phase = "deleted" /\ objects'[o].tid = 0 /\ objects'[o].handle = 0
          /\ objects'[o].type = "Synchronous" /\ Claims(o)' = {}
    BY <1>1, <1>4, DeletedFacts DEF Claims
  <1>7. Handles' /\ Once' /\ Held' /\ ClosedIds'
    <2>1. CASE objects'[o] # objects[o]
      BY <1>1, <1>2, <1>3, <1>6, <2>1, NoNewClaims DEF TypeOK
    <2>2. CASE objects'[o] = objects[o]
      <3>1. objects' = objects
        BY <1>2, <2>2 DEF TypeOK
      <3>2. \A q : /\ Claims(q)' = Claims(q)
                   /\ \A i : /\ HandleAt(q, i)' = HandleAt(q, i)
                             /\ ClaimedSession(q, i)' = ClaimedSession(q, i)
                             /\ ClosesLater(q, i)' = ClosesLater(q, i)
        BY <3>1, SameObject
      <3>3. Handles' /\ ClosedIds'
        BY <3>1 DEF Handles, ClosedIds
      <3>4. Once'
        BY <1>3, <3>2 DEF Once
      <3>5. Held'
        BY <1>3, <3>1, <3>2 DEF Held
      <3> QED BY <3>3, <3>4, <3>5
    <2> QED BY <2>1, <2>2
  <1>8. Phases'
    <2>1. objects[o].phase # "new"
      BY <1>1, <1>3 DEF Phases, JobsOf, o
    <2> QED BY <1>1, <1>2, <1>3, <1>4, <1>6, <2>1 DEF Phases
  <1>9. Works'
    <2>1. \A k \in InProgress : k.object \in Object
      BY DEF InProgress, TypeOK, Job
    <2>2. ASSUME NEW k \in InProgress \ {j} PROVE JobIsOwners(k)'
      <3>1. JobIsOwners(k)
        BY DEF Works
      <3>2. k.object = o => objects'[o] = objects[o]
        <4> SUFFICES ASSUME k.object = o, objects'[o] # objects[o] PROVE FALSE
          OBVIOUS
        <4>1. objects[o].phase = "calling" /\ k.tid = 0 /\ j.tid = 0
          BY <1>1, <1>4, <3>1 DEF JobIsOwners
        <4>2. o \in Current => JobsOf(o) = {j}
          BY <1>1, <4>1
        <4>3. o \in Current
          BY <1>1, <4>1 DEF Phases
        <4> QED BY <4>2, <4>3 DEF JobsOf
      <3> QED BY <1>2, <1>3, <1>4, <1>6, <2>1, <3>1, <3>2 DEF JobIsOwners
    <2>3. lastTid \in Nat
      BY DEF TypeOK
    <2> QED BY <1>1, <1>3, <1>4, <1>6, <2>2, <2>3 DEF Works
  <1>10. Answers'
    BY <1>1, <1>3, <1>4, <1>5, <1>6 DEF Answers
  <1>11. Accounted'
    <2> SUFFICES ASSUME NEW q \in Current, objects'[q].phase \in {"calling", "waiting"} PROVE Owed(q)'
      BY <1>3 DEF Accounted
    <2>1. q \in Object /\ objects'[q] = objects[q] /\ Answering(q)' = Answering(q)
      BY <1>3, <1>4, <1>5, <1>6
    <2>2. CASE q = o
      <3>1. JobsOf(q) = {j} /\ Answering(q) = {}
        BY <1>1, <2>1, <2>2
      <3>2. j.tid # 0
        BY <1>2, <1>6, <2>1, <2>2, DeletedFacts
      <3> QED BY <1>1, <1>2, <2>1, <2>2, <3>1, <3>2 DEF Owed
    <2>3. CASE q # o
      <3>1. Owed(q) /\ JobsOf(q)' = JobsOf(q)
        BY <1>1, <2>1, <2>3 DEF Accounted
      <3>2. j \notin JobsOf(q)
        BY <2>3 DEF JobsOf, o
      <3>3. q \in failed' <=> q \in failed
        BY <1>2, <2>3
      <3>4. \A k \in InProgress : JobsOf(q) = {k} => k \in InProgress'
        BY <1>3, <3>2
      <3> QED BY <1>3, <2>1, <3>1, <3>3, <3>4 DEF Owed
    <2> QED BY <2>2, <2>3
  <1> QED BY <1>7, <1>8, <1>9, <1>10, <1>11

NewSession(j) == <<drawn + 1, j.app>>

LEMMA OpenedSessions ==
  ASSUME TypeOK, Agreement, NEW j \in Job, Opened(j)
  PROVE  /\ drawn \in Nat /\ drawn' = drawn + 1
         /\ DOMAIN sessions' = DOMAIN sessions \cup {NewSession(j)}
         /\ sessions'[NewSession(j)] = j.wallet
         /\ \A s \in DOMAIN sessions : s[1] <= drawn /\ s # NewSession(j) /\ sessions'[s] = sessions[s]
         /\ NewSession(j)[1] = drawn'
         /\ \A s \in DOMAIN sessions' : s[1] <= drawn'
         /\ \A s, t \in DOMAIN sessions' : s[1] = t[1] => s = t
  <1> DEFINE d == NewSession(j)
  <1>1. drawn \in Nat /\ drawn' = drawn + 1 /\ d[1] = drawn'
    BY DEF TypeOK, Opened, NewSession
  <1>2. sessions' = [s \in DOMAIN sessions \cup {d} |-> IF s = d THEN j.wallet ELSE sessions[s]]
    BY DEF Opened, NewSession
  <1>3. \A s \in DOMAIN sessions : s[1] \in Nat /\ s[1] <= drawn
    BY DEF TypeOK, Handle, Agreement, Handles
  <1>4. \A s \in DOMAIN sessions : s # d
    BY <1>1, <1>3
  <1> HIDE DEF d
  <1>5. DOMAIN sessions' = DOMAIN sessions \cup {d} /\ sessions'[d] = j.wallet
    BY <1>2
  <1>6. \A s \in DOMAIN sessions : sessions'[s] = sessions[s]
    BY <1>2, <1>4
  <1>7. \A s \in DOMAIN sessions' : s[1] <= drawn'
    BY <1>1, <1>3, <1>5
  <1>8. \A s, t \in DOMAIN sessions' : s[1] = t[1] => s = t
    <2>1. \A s \in DOMAIN sessions : s[1] # d[1]
      BY <1>1, <1>3
    <2> QED BY <1>5, <2>1 DEF Agreement, Handles
  <1> QED BY <1>1, <1>3, <1>4, <1>5, <1>6, <1>7, <1>8 DEF d

LEMMA ClaimsFacts ==
  ASSUME TypeOK, Handles, NEW o \in Object, NEW i \in Claims(o)
  PROVE  /\ HandleAt(o, i) \in Nat /\ HandleAt(o, i) <= drawn /\ drawn \in Nat
         /\ i \in DOMAIN Box(o) \cup {0} /\ i \in Nat
         /\ i = 0 => objects[o].phase = "open"
         /\ i # 0 => objects[o].tid # 0 /\ i \in Answering(o)
  <1>1. Owner[o] \in Process /\ objects[o] \in WalletObject /\ inbox[Owner[o]] \in Seq(Signal)
    BY OwnerIsProcess DEF TypeOK
  <1>2. \A k \in DOMAIN Box(o) : k \in Nat /\ k # 0 /\ Box(o)[k] \in Signal
    BY <1>1 DEF Box
  <1>3. CASE i = 0
    <2>1. i \notin Answering(o)
      BY <1>2, <1>3 DEF Answering, Box
    <2>2. objects[o].phase = "open"
      BY <2>1 DEF Claims
    <2>3. HandleAt(o, i) \in Nat /\ HandleAt(o, i) <= drawn /\ drawn \in Nat
      BY <1>1, <1>3 DEF HandleAt, Handles, WalletObject, Handle, TypeOK
    <2> QED BY <1>3, <2>2, <2>3
  <1>4. CASE i # 0
    <2>1. objects[o].tid # 0 /\ i \in Answering(o)
      BY <1>4 DEF Claims
    <2>2. i \in DOMAIN Box(o) /\ Box(o)[i].type = "walletAsyncOpened"
      BY <2>1 DEF Answering, Box
    <2>3. Box(o)[i].handle \in Nat
      BY <1>2, <2>2 DEF Signal, Handle
    <2>4. Box(o)[i].handle <= drawn
      BY <1>1, <2>2 DEF Handles, Box
    <2> QED BY <1>2, <1>4, <2>1, <2>2, <2>3, <2>4 DEF HandleAt, TypeOK
  <1> QED BY <1>3, <1>4

\* What held of a claim holds after a session was added to it.
LEMMA OldClaimHeld ==
  ASSUME TypeOK, Agreement, NEW j \in Job, Opened(j), NEW q \in Current, NEW i \in Claims(q),
         UNCHANGED <<unheard, appid>>, HandleAt(q, i)' = HandleAt(q, i),
         ClosesLater(q, i)' <=> ClosesLater(q, i), objects'[q] = objects[q]
  PROVE  /\ HandleAt(q, i)' \notin unheard' =>
              ClaimedSession(q, i)' \in DOMAIN sessions' \/ ClosesLater(q, i)'
         /\ ClaimedSession(q, i)' \in DOMAIN sessions' =>
              sessions'[ClaimedSession(q, i)'] = objects'[q].asked
         /\ objects'[q].tid # 0 /\ ClosesLater(q, i)' =>
              ClaimedSession(q, i)' \notin DOMAIN sessions'
  <1>1. HandleAt(q, i) \in Nat /\ HandleAt(q, i) <= drawn
    BY ClaimsFacts DEF Agreement, Current
  <1>2. ClaimedSession(q, i)' = ClaimedSession(q, i) /\ ClaimedSession(q, i)[1] = HandleAt(q, i)
    BY DEF ClaimedSession, AppOf
  <1>3. ClaimedSession(q, i) # NewSession(j)
    <2>1. NewSession(j)[1] = drawn + 1 /\ drawn \in Nat
      BY DEF NewSession, TypeOK
    <2>2. HandleAt(q, i) # drawn + 1
      BY <1>1, <2>1
    <2> QED BY <1>2, <2>1, <2>2
  <1>4. /\ ClaimedSession(q, i) \in DOMAIN sessions' <=> ClaimedSession(q, i) \in DOMAIN sessions
        /\ ClaimedSession(q, i) \in DOMAIN sessions =>
             sessions'[ClaimedSession(q, i)] = sessions[ClaimedSession(q, i)]
    BY <1>3, OpenedSessions
  <1> QED BY <1>2, <1>4 DEF Agreement, Held

LEMMA ReplyAgreement ==
  ASSUME TypeOK, TypeOK', Agreement, NEW j, JobEnds(j), Opened(j), j.tid = 0,
         UNCHANGED <<lastTid, appid, unheard, outdated, failed>>
  PROVE  Agreement'
  <1> USE DEF Agreement
  <1> DEFINE o == j.object
             h == drawn + 1
  <1>1. /\ j \in Job /\ o \in Object /\ JobIsOwners(j)
        /\ \A q \in Object \ {o} : JobsOf(q)' = JobsOf(q)
        /\ JobsOf(o)' = JobsOf(o) \ {j}
        /\ \A q \in Current : o = q /\ objects[q].phase \in {"calling", "waiting"} =>
              q \notin failed /\ JobsOf(q) = {j} /\ Answering(q) = {}
    BY JobEndsFacts
  <1>2. /\ objects[o].phase = "calling" /\ j.app = AppOf(o) /\ j.wallet = objects[o].asked
        /\ objects[o].tid = 0 /\ o \in Current
    BY <1>1 DEF JobIsOwners, Phases
  <1>3. /\ inbox' = inbox
        /\ \A q \in Object \ {o} : objects'[q] = objects[q]
        /\ objects'[o].phase = "open" /\ objects'[o].handle = h /\ objects'[o].tid = 0
        /\ objects'[o].type = objects[o].type /\ objects'[o].asked = objects[o].asked
        /\ objects'[o].name = objects[o].name
    <2>1. inbox' = inbox /\ objects' = [objects EXCEPT ![o].phase = "open", ![o].handle = h]
      BY DEF Opened
    <2>2. objects[o] \in WalletObject
      BY <1>1 DEF TypeOK
    <2> QED BY <1>1, <1>2, <2>1, <2>2 DEF TypeOK, WalletObject
  <1>4. /\ InProgress' = InProgress \ {j} /\ busy' \notin jobs' /\ j \in InProgress
        /\ Current' = Current /\ Current \subseteq Object
        /\ \A q : AppOf(q)' = AppOf(q) /\ Box(q)' = Box(q)
    BY <1>3 DEF JobEnds, Current, AppOf, Box
  <1>5. \A q \in Object : Answering(q)' = Answering(q) /\ objects'[q].tid = objects[q].tid
    BY <1>2, <1>3 DEF Answering
  <1>6. /\ drawn \in Nat /\ drawn' = h /\ h > drawn
        /\ DOMAIN sessions' = DOMAIN sessions \cup {NewSession(j)}
        /\ sessions'[NewSession(j)] = j.wallet
        /\ NewSession(j)[1] = h
    <2>1. drawn \in Nat /\ drawn' = h /\ NewSession(j)[1] = h
      BY <1>1, OpenedSessions DEF NewSession
    <2>2. h > drawn
      BY <2>1
    <2> QED BY <1>1, <2>1, <2>2, OpenedSessions
  <1>7. Claims(o)' = {0} /\ HandleAt(o, 0)' = h /\ ClaimedSession(o, 0)' = NewSession(j)
    BY <1>2, <1>3, <1>4, <1>6 DEF Claims, HandleAt, ClaimedSession, NewSession
  <1>8. \A q \in Current \ {o} :
          /\ Claims(q)' = Claims(q) /\ objects'[q] = objects[q] /\ q \in Object
          /\ \A i : HandleAt(q, i)' = HandleAt(q, i) /\ ClosesLater(q, i)' = ClosesLater(q, i)
    BY <1>3, <1>4, SameObject
  <1>9. \A q \in Current : \A i \in Claims(q) : HandleAt(q, i) # h
    <2>1. \A q \in Current : \A i \in Claims(q) : HandleAt(q, i) \in Nat /\ HandleAt(q, i) <= drawn
      BY ClaimsFacts DEF Current
    <2> QED BY <1>6, <2>1
  <1> HIDE DEF o, h
  <1>10. Handles'
    <2>1. /\ \A s \in DOMAIN sessions' : s[1] <= drawn'
          /\ \A s, t \in DOMAIN sessions' : s[1] = t[1] => s = t
      BY <1>1, OpenedSessions
    <2>2. \A q \in Object : objects'[q].handle <= drawn'
      <3>1. \A q \in Object : objects[q].handle \in Nat /\ objects[q].handle <= drawn
        BY DEF Handles, TypeOK, WalletObject, Handle
      <3> QED BY <1>3, <1>6, <3>1 DEF h
    <2>3. \A p \in Process : \A i \in DOMAIN inbox[p] :
            inbox[p][i].type \in {"walletAsyncOpened", "walletClosedId"} => inbox[p][i].handle \in Nat
      <3>1. \A p \in Process : \A i \in DOMAIN inbox[p] : inbox[p][i] \in Signal
        BY DEF TypeOK
      <3> QED BY <3>1 DEF Signal, Handle
    <2>4. \A p \in Process : \A i \in DOMAIN inbox[p] :
            inbox[p][i].type \in {"walletAsyncOpened", "walletClosedId"} => inbox[p][i].handle <= drawn'
      <3>1. \A k \in Nat : k <= drawn => k <= drawn'
        BY <1>6 DEF h
      <3> QED BY <2>3, <3>1 DEF Handles
    <2> QED BY <1>3, <2>1, <2>2, <2>4 DEF Handles
  <1>11. Phases'
    BY <1>1, <1>2, <1>3, <1>4, <1>5 DEF Phases
  <1>12. Works'
    <2>1. \A k \in InProgress \ {j} : k.object \in Object \ {o} /\ JobIsOwners(k)
      <3>1. \A k \in InProgress : k.object \in Object
        BY DEF InProgress, TypeOK, Job
      <3>2. JobsOf(o) = {j}
        BY <1>1, <1>2
      <3> QED BY <3>1, <3>2 DEF JobsOf, Works
    <2>2. ASSUME NEW k \in InProgress \ {j} PROVE JobIsOwners(k)'
      BY <1>2, <1>3, <1>4, <1>5, <2>1 DEF JobIsOwners
    <2> QED BY <1>4, <1>5, <2>2 DEF Works
  <1>13. Answers'
    BY <1>2, <1>3, <1>4, <1>5 DEF Answers
  <1>14. Accounted'
    <2> SUFFICES ASSUME NEW q \in Current, objects'[q].phase \in {"calling", "waiting"} PROVE Owed(q)'
      BY <1>4 DEF Accounted
    <2>1. q # o
      BY <1>3
    <2>2. Owed(q) /\ JobsOf(q)' = JobsOf(q)
      BY <1>1, <1>3, <1>4, <2>1 DEF Accounted
    <2>3. \A k \in InProgress : JobsOf(q) = {k} => k \in InProgress'
      BY <1>4, <2>1 DEF JobsOf, o
    <2> QED BY <1>4, <1>5, <2>2, <2>3 DEF Owed
  <1>15. Once'
    BY <1>4, <1>7, <1>8, <1>9 DEF Once
  <1>16. Held'
    <2>1. ASSUME NEW q \in Current \ {o}, NEW i \in Claims(q)
          PROVE  /\ HandleAt(q, i)' \notin unheard' =>
                      ClaimedSession(q, i)' \in DOMAIN sessions' \/ ClosesLater(q, i)'
                 /\ ClaimedSession(q, i)' \in DOMAIN sessions' =>
                      sessions'[ClaimedSession(q, i)'] = objects'[q].asked
                 /\ objects'[q].tid # 0 /\ ClosesLater(q, i)' =>
                      ClaimedSession(q, i)' \notin DOMAIN sessions'
      BY <1>1, <1>8, OldClaimHeld
    <2> QED BY <1>2, <1>3, <1>4, <1>6, <1>7, <1>8, <2>1 DEF Held
  <1>17. ClosedIds'
    <2>1. \A p \in Process : \A i \in DOMAIN inbox[p] :
            inbox[p][i].type = "walletClosedId" => inbox[p][i].handle \in Nat /\ inbox[p][i].handle <= drawn
      <3>1. \A p \in Process : \A i \in DOMAIN inbox[p] : inbox[p][i] \in Signal
        BY DEF TypeOK
      <3> QED BY <3>1 DEF Signal, Handle, Handles
    <2> QED BY <1>3, <1>6, <2>1 DEF ClosedIds
  <1> QED BY <1>10, <1>11, <1>12, <1>13, <1>14, <1>15, <1>16, <1>17

\* An answer of openAsync() goes to every process, after what is already there.
LEMMA SignalFacts ==
  ASSUME TypeOK, NEW j \in Job, Opened(j), j.tid # 0, NEW p \in Process
  PROVE  /\ Len(inbox[p]) \in Nat /\ DOMAIN inbox[p] = 1 .. Len(inbox[p])
         /\ DOMAIN inbox'[p] = DOMAIN inbox[p] \cup {Len(inbox[p]) + 1}
         /\ \A i \in DOMAIN inbox[p] : inbox'[p][i] = inbox[p][i] /\ i # Len(inbox[p]) + 1 /\ i # 0
         /\ inbox'[p][Len(inbox[p]) + 1].type = "walletAsyncOpened"
         /\ inbox'[p][Len(inbox[p]) + 1].tid = j.tid
         /\ inbox'[p][Len(inbox[p]) + 1].handle = drawn'
         /\ Len(inbox[p]) + 1 # 0
  <1> DEFINE m == [type |-> "walletAsyncOpened", tid |-> j.tid, handle |-> drawn + 1]
  <1>1. m \in Signal /\ inbox[p] \in Seq(Signal)
    BY DEF Signal, Job, TypeOK, Handle
  <1>2. inbox' = Broadcast(m, inbox) /\ drawn' = drawn + 1
    BY DEF Opened
  <1>3. inbox'[p] = Append(inbox[p], m)
    BY <1>2 DEF Broadcast
  <1>4. m.type = "walletAsyncOpened" /\ m.tid = j.tid /\ m.handle = drawn'
    BY <1>2
  <1> HIDE DEF m
  <1>5. /\ Len(inbox[p]) \in Nat /\ DOMAIN inbox[p] = 1 .. Len(inbox[p])
        /\ DOMAIN inbox'[p] = 1 .. Len(inbox[p]) + 1
        /\ \A i \in 1 .. Len(inbox[p]) : inbox'[p][i] = inbox[p][i]
        /\ inbox'[p][Len(inbox[p]) + 1] = m
    BY <1>1, <1>3, AppendFacts
  <1> QED BY <1>4, <1>5

LEMMA SignalClaims ==
  ASSUME TypeOK, Agreement, NEW j, JobEnds(j), Opened(j), j.tid # 0,
         UNCHANGED <<lastTid, appid, unheard, outdated, failed>>, NEW q \in Current
  PROVE  /\ q \in Object /\ objects' = objects /\ Current' = Current /\ AppOf(q)' = AppOf(q)
         /\ objects[q].tid # j.tid => Answering(q)' = Answering(q)
         /\ objects[q].tid = j.tid =>
              /\ q = j.object /\ objects[q].phase = "waiting" /\ q \notin failed
              /\ JobsOf(q) = {j} /\ Answering(q) = {}
              /\ j.wallet = objects[q].asked
              /\ \E l \in DOMAIN Box(q)' :
                   /\ Answering(q)' = {l} /\ Claims(q)' = {l} /\ HandleAt(q, l)' = drawn'
                   /\ ClaimedSession(q, l)' = NewSession(j) /\ ~ClosesLater(q, l)'
         /\ objects[q].tid # j.tid =>
              /\ Claims(q)' = Claims(q)
              /\ \A i \in Claims(q) : HandleAt(q, i)' = HandleAt(q, i)
                                      /\ (ClosesLater(q, i)' <=> ClosesLater(q, i))
  <1> USE DEF Agreement
  <1> DEFINE p == Owner[q]
  <1>0. PICK l : l = Len(Box(q)) + 1
    OBVIOUS
  <1>1. j \in Job /\ q \in Object /\ p \in Process /\ Box(q) = inbox[p] /\ Box(q)' = inbox'[p]
    BY JobEndsFacts, OwnerIsProcess DEF Current, Box
  <1>2. objects' = objects /\ Current' = Current /\ AppOf(q)' = AppOf(q)
    BY DEF Opened, Current, AppOf
  <1>3. /\ Len(inbox[p]) \in Nat /\ DOMAIN inbox[p] = 1 .. Len(inbox[p])
        /\ DOMAIN inbox'[p] = DOMAIN inbox[p] \cup {l}
        /\ \A i \in DOMAIN inbox[p] : inbox'[p][i] = inbox[p][i] /\ i # l /\ i # 0
        /\ inbox'[p][l].type = "walletAsyncOpened" /\ inbox'[p][l].tid = j.tid
        /\ inbox'[p][l].handle = drawn' /\ l # 0
    BY <1>0, <1>1, SignalFacts
  <1> HIDE DEF p
  <1>4. objects[q].tid # j.tid => Answering(q)' = Answering(q)
    BY <1>2, <1>3 DEF Answering, p
  <1>5. objects[q].tid = j.tid => Answering(q)' = Answering(q) \cup {l}
    BY <1>2, <1>3 DEF Answering, p
  <1>6. ASSUME NEW i \in DOMAIN Box(q) \cup {0}
        PROVE  HandleAt(q, i)' = HandleAt(q, i) /\ (ClosesLater(q, i)' <=> ClosesLater(q, i))
    <2>1. HandleAt(q, i)' = HandleAt(q, i)
      BY <1>1, <1>2, <1>3 DEF HandleAt
    <2>2. \A k \in DOMAIN Box(q) : k \in DOMAIN Box(q)' /\ Box(q)'[k] = Box(q)[k]
      BY <1>1, <1>3
    <2>3. \A k \in DOMAIN Box(q)' : k \in DOMAIN Box(q) \/ k = l
      BY <1>1, <1>3
    <2>4. \A h, n : ~Closes(Box(q)'[l], h, n)
      BY <1>1, <1>3 DEF Closes
    <2>5. ClosesLater(q, i)' <=>
            \E k \in DOMAIN Box(q)' : k > i /\ Closes(Box(q)'[k], HandleAt(q, i), objects[q].asked)
      BY <1>2, <2>1 DEF ClosesLater, Closes
    <2>6. ClosesLater(q, i) <=>
            \E k \in DOMAIN Box(q) : k > i /\ Closes(Box(q)[k], HandleAt(q, i), objects[q].asked)
      BY DEF ClosesLater
    <2>7. ASSUME NEW k \in DOMAIN Box(q), k > i, Closes(Box(q)[k], HandleAt(q, i), objects[q].asked)
          PROVE  k \in DOMAIN Box(q)' /\ Closes(Box(q)'[k], HandleAt(q, i), objects[q].asked)
      BY <2>2, <2>7
    <2>8. ASSUME NEW k \in DOMAIN Box(q)', k > i, Closes(Box(q)'[k], HandleAt(q, i), objects[q].asked)
          PROVE  k \in DOMAIN Box(q) /\ Closes(Box(q)[k], HandleAt(q, i), objects[q].asked)
      BY <2>2, <2>3, <2>4, <2>8
    <2> QED BY <2>1, <2>5, <2>6, <2>7, <2>8
  <1>7. CASE objects[q].tid = j.tid
    <2>1. /\ q = j.object /\ objects[q].phase = "waiting" /\ j.wallet = objects[q].asked
          /\ j.app = AppOf(q)
      BY <1>7, JobEndsFacts DEF JobIsOwners
    <2>2. q \notin failed /\ JobsOf(q) = {j} /\ Answering(q) = {}
      BY <2>1, JobEndsFacts
    <2>3. Answering(q)' = {l}
      BY <1>5, <1>7, <2>2
    <2>4. Claims(q)' = {l}
      BY <1>2, <1>7, <2>1, <2>3 DEF Claims
    <2>5. HandleAt(q, l)' = drawn'
      BY <1>1, <1>3 DEF HandleAt
    <2>6. ClaimedSession(q, l)' = NewSession(j)
      <3>1. drawn' = drawn + 1
        BY DEF Opened
      <3> QED BY <1>2, <2>1, <2>5, <3>1 DEF ClaimedSession, NewSession
    <2>7. ~ClosesLater(q, l)'
      <3>1. \A k \in DOMAIN Box(q)' : ~(k > l)
        BY <1>0, <1>1, <1>3
      <3> QED BY <3>1 DEF ClosesLater
    <2>8. l \in DOMAIN Box(q)'
      BY <1>1, <1>3
    <2> QED BY <1>1, <1>2, <1>7, <2>1, <2>2, <2>3, <2>4, <2>5, <2>6, <2>7, <2>8
  <1>8. CASE objects[q].tid # j.tid
    <2>1. Claims(q)' = Claims(q)
      BY <1>2, <1>4, <1>8 DEF Claims
    <2>2. \A i \in Claims(q) : i \in DOMAIN Box(q) \cup {0}
      BY <1>1, ClaimsFacts
    <2> QED BY <1>1, <1>2, <1>4, <1>6, <1>8, <2>1, <2>2
  <1> QED BY <1>7, <1>8

LEMMA SignalAgreement ==
  ASSUME TypeOK, TypeOK', Agreement, NEW j, JobEnds(j), Opened(j), j.tid # 0,
         UNCHANGED <<lastTid, appid, unheard, outdated, failed>>
  PROVE  Agreement'
  <1> USE DEF Agreement
  <1> DEFINE o == j.object
  <1>1. /\ j \in Job /\ o \in Object /\ JobIsOwners(j)
        /\ \A q \in Object \ {o} : JobsOf(q)' = JobsOf(q)
        /\ JobsOf(o)' = JobsOf(o) \ {j}
    BY JobEndsFacts
  <1>2. /\ objects' = objects /\ Current' = Current /\ Current \subseteq Object
        /\ InProgress' = InProgress \ {j} /\ busy' \notin jobs' /\ j \in InProgress
        /\ \A q : AppOf(q)' = AppOf(q)
    BY DEF Opened, Current, JobEnds, AppOf
  <1>3. /\ drawn \in Nat /\ drawn' = drawn + 1
        /\ DOMAIN sessions' = DOMAIN sessions \cup {NewSession(j)}
        /\ sessions'[NewSession(j)] = j.wallet
        /\ NewSession(j)[1] = drawn'
        /\ \A s \in DOMAIN sessions : s[1] <= drawn
    BY <1>1, OpenedSessions
  <1>4. \A p \in Process : \A i \in DOMAIN inbox'[p] :
          \/ i \in DOMAIN inbox[p] /\ inbox'[p][i] = inbox[p][i]
          \/ /\ inbox'[p][i].type = "walletAsyncOpened" /\ inbox'[p][i].tid = j.tid
             /\ inbox'[p][i].handle = drawn'
    BY <1>1, SignalFacts
  <1>5. \A p \in Process : \A i \in DOMAIN inbox[p] :
          /\ i \in DOMAIN inbox'[p] /\ inbox'[p][i] = inbox[p][i]
          /\ inbox[p][i].type \in {"walletAsyncOpened", "walletClosedId"} =>
               inbox[p][i].handle \in Nat /\ inbox[p][i].handle <= drawn
    <2>1. \A p \in Process : \A i \in DOMAIN inbox[p] : inbox[p][i] \in Signal
      BY DEF TypeOK
    <2>2. \A p \in Process : \A i \in DOMAIN inbox[p] :
            inbox[p][i].type \in {"walletAsyncOpened", "walletClosedId"} => inbox[p][i].handle \in Nat
      BY <2>1 DEF Signal, Handle
    <2> QED BY <1>1, <2>2, SignalFacts DEF Handles
  <1> HIDE DEF o
  <1>6. \A k \in Nat : k <= drawn => k <= drawn' /\ k # drawn'
    BY <1>3
  <1>7. Handles'
    <2>1. /\ \A s \in DOMAIN sessions' : s[1] <= drawn'
          /\ \A s, t \in DOMAIN sessions' : s[1] = t[1] => s = t
      BY <1>1, OpenedSessions
    <2>2. \A q \in Object : objects'[q].handle <= drawn'
      <3>1. \A q \in Object : objects[q].handle \in Nat /\ objects[q].handle <= drawn
        BY DEF Handles, TypeOK, WalletObject, Handle
      <3> QED BY <1>2, <1>6, <3>1
    <2>3. \A p \in Process : \A i \in DOMAIN inbox'[p] :
            inbox'[p][i].type \in {"walletAsyncOpened", "walletClosedId"} => inbox'[p][i].handle <= drawn'
      <3>1. drawn' <= drawn'
        BY <1>3
      <3> QED BY <1>4, <1>5, <1>6, <3>1
    <2> QED BY <2>1, <2>2, <2>3 DEF Handles
  <1>8. Phases'
    BY <1>1, <1>2 DEF Phases
  <1>9. Works'
    <2>1. \A k \in InProgress : JobIsOwners(k)'
      BY <1>2 DEF Works, JobIsOwners
    <2> QED BY <1>2, <2>1 DEF Works
  <1>10. Answers'
    <2>1. ASSUME NEW p \in Process, NEW i \in DOMAIN inbox'[p], inbox'[p][i].type = "walletAsyncOpened"
          PROVE  /\ inbox'[p][i].tid # 0
                 /\ \/ inbox'[p][i].tid <= lastTid
                    \/ \E k \in DOMAIN inbox'[p] : k > i /\ inbox'[p][k].type = "serviceUnregistered"
      <3>1. CASE i \in DOMAIN inbox[p] /\ inbox'[p][i] = inbox[p][i]
        BY <1>5, <2>1, <3>1 DEF Answers
      <3>2. CASE inbox'[p][i].tid = j.tid
        BY <1>1, <3>2 DEF JobIsOwners
      <3> QED BY <1>4, <3>1, <3>2
    <2>2. ASSUME NEW q \in Current, objects[q].tid # 0
          PROVE  /\ \A i \in DOMAIN Box(q)' : Box(q)'[i].type # "serviceUnregistered"
                 /\ Answering(q)' # {} => objects[q].phase = "waiting"
      <3>1. Owner[q] \in Process
        BY <1>2, OwnerIsProcess
      <3>2. \A i \in DOMAIN Box(q)' : Box(q)'[i].type # "serviceUnregistered"
        BY <1>4, <2>2, <3>1 DEF Answers, Box
      <3>3. Answering(q)' # {} => objects[q].phase = "waiting"
        BY <2>2, SignalClaims DEF Answers
      <3> QED BY <3>2, <3>3
    <2> QED BY <1>2, <2>1, <2>2 DEF Answers
  <1>11. Accounted'
    <2> SUFFICES ASSUME NEW q \in Current, objects[q].phase \in {"calling", "waiting"} PROVE Owed(q)'
      BY <1>2 DEF Accounted
    <2>1. CASE objects[q].tid = j.tid
      <3>1. /\ q = o /\ q \notin failed /\ JobsOf(q) = {j}
            /\ \E l \in DOMAIN Box(q)' : Answering(q)' = {l}
        BY <2>1, SignalClaims DEF o
      <3>2. JobsOf(q)' = {}
        BY <1>1, <3>1
      <3> QED BY <3>1, <3>2 DEF Owed
    <2>2. CASE objects[q].tid # j.tid
      <3>1. q # o
        BY <1>1, <2>2 DEF JobIsOwners, o
      <3>2. Answering(q)' = Answering(q) /\ JobsOf(q)' = JobsOf(q) /\ Owed(q)
        BY <1>1, <1>2, <2>2, <3>1, SignalClaims DEF Accounted
      <3>3. \A k \in InProgress : JobsOf(q) = {k} => k \in InProgress'
        BY <1>2, <3>1 DEF JobsOf, o
      <3>4. DOMAIN Box(q) \subseteq DOMAIN Box(q)'
        BY <1>2, <1>5, OwnerIsProcess DEF Box
      <3> QED BY <1>2, <3>2, <3>3, <3>4 DEF Owed
    <2> QED BY <2>1, <2>2
  <1>12. \A q \in Current : \A i \in Claims(q)' :
           \/ /\ i \in Claims(q) /\ HandleAt(q, i)' = HandleAt(q, i) /\ HandleAt(q, i) # drawn'
              /\ ClosesLater(q, i)' <=> ClosesLater(q, i)
           \/ /\ HandleAt(q, i)' = drawn' /\ q = o /\ ClaimedSession(q, i)' = NewSession(j)
              /\ j.wallet = objects[q].asked /\ ~ClosesLater(q, i)'
    <2> SUFFICES ASSUME NEW q \in Current, NEW i \in Claims(q)'
                 PROVE  \/ /\ i \in Claims(q) /\ HandleAt(q, i)' = HandleAt(q, i) /\ HandleAt(q, i) # drawn'
                           /\ ClosesLater(q, i)' <=> ClosesLater(q, i)
                        \/ /\ HandleAt(q, i)' = drawn' /\ q = o /\ ClaimedSession(q, i)' = NewSession(j)
                           /\ j.wallet = objects[q].asked /\ ~ClosesLater(q, i)'
      OBVIOUS
    <2>1. CASE objects[q].tid = j.tid
      BY <2>1, SignalClaims DEF o
    <2>2. CASE objects[q].tid # j.tid
      <3>1. /\ i \in Claims(q) /\ HandleAt(q, i)' = HandleAt(q, i)
            /\ ClosesLater(q, i)' <=> ClosesLater(q, i)
        BY <2>2, SignalClaims
      <3>2. HandleAt(q, i) \in Nat /\ HandleAt(q, i) <= drawn
        BY <1>2, <3>1, ClaimsFacts
      <3> QED BY <1>6, <3>1, <3>2
    <2> QED BY <2>1, <2>2
  <1>13. Once'
    BY <1>2, <1>12 DEF Once
  <1>14. Held'
    <2> SUFFICES ASSUME NEW q \in Current, NEW i \in Claims(q)'
                 PROVE  /\ HandleAt(q, i)' \notin unheard' =>
                             ClaimedSession(q, i)' \in DOMAIN sessions' \/ ClosesLater(q, i)'
                        /\ ClaimedSession(q, i)' \in DOMAIN sessions' =>
                             sessions'[ClaimedSession(q, i)'] = objects'[q].asked
                        /\ objects'[q].tid # 0 /\ ClosesLater(q, i)' =>
                             ClaimedSession(q, i)' \notin DOMAIN sessions'
      BY <1>2 DEF Held
    <2>1. CASE /\ i \in Claims(q) /\ HandleAt(q, i)' = HandleAt(q, i)
               /\ ClosesLater(q, i)' <=> ClosesLater(q, i)
      BY <1>1, <1>2, <2>1, OldClaimHeld
    <2>2. CASE /\ ClaimedSession(q, i)' = NewSession(j)
               /\ j.wallet = objects[q].asked /\ ~ClosesLater(q, i)'
      BY <1>2, <1>3, <2>2
    <2> QED BY <1>12, <2>1, <2>2
  <1>15. ClosedIds'
    <2> SUFFICES ASSUME NEW p \in Process, NEW i \in DOMAIN inbox'[p],
                        inbox'[p][i].type = "walletClosedId", NEW s \in DOMAIN sessions'
                 PROVE  s[1] # inbox'[p][i].handle
      BY DEF ClosedIds
    <2>1. i \in DOMAIN inbox[p] /\ inbox'[p][i] = inbox[p][i]
      BY <1>4
    <2>2. inbox[p][i].handle # drawn'
      BY <1>5, <1>6, <2>1
    <2> QED BY <1>3, <2>1, <2>2 DEF ClosedIds
  <1> QED BY <1>7, <1>8, <1>9, <1>10, <1>11, <1>13, <1>14, <1>15

-----------------------------------------------------------------------------
(* A process handles a signal *)

LEMMA ReceivedBox ==
  ASSUME TypeOK, NEW p \in Process, Receive(p)
  PROVE  /\ \A q \in Process \ {p} : inbox'[q] = inbox[q]
         /\ \A i \in DOMAIN inbox'[p] :
              i \in Nat /\ i # 0 /\ i + 1 \in DOMAIN inbox[p] /\ inbox'[p][i] = inbox[p][i + 1]
         /\ \A i \in DOMAIN inbox[p] :
              i \in Nat /\ i # 0 /\ (i # 1 => i - 1 \in DOMAIN inbox'[p] /\ inbox'[p][i - 1] = inbox[p][i])
         /\ 1 \in DOMAIN inbox[p] /\ Head(inbox[p]) = inbox[p][1] /\ inbox[p][1] \in Signal
  <1>1. inbox[p] \in Seq(Signal) /\ inbox[p] # <<>>
    BY DEF TypeOK, Receive
  <1>2. inbox' = [inbox EXCEPT ![p] = Tail(inbox[p])]
    BY DEF Receive
  <1>3. inbox'[p] = Tail(inbox[p]) /\ \A q \in Process \ {p} : inbox'[q] = inbox[q]
    BY <1>2 DEF TypeOK
  <1> QED BY <1>1, <1>3, TailFacts

\* Signals after a place, before and after the first one is taken.
LEMMA ReceivedCloses ==
  ASSUME TypeOK, NEW p \in Process, Receive(p), NEW i \in Nat, NEW h, NEW n
  PROVE  (\E k \in DOMAIN inbox'[p] : k > i /\ Closes(inbox'[p][k], h, n))
           <=> (\E k \in DOMAIN inbox[p] : k > i + 1 /\ Closes(inbox[p][k], h, n))
  <1>1. ASSUME NEW k \in DOMAIN inbox'[p], k > i, Closes(inbox'[p][k], h, n)
        PROVE  \E l \in DOMAIN inbox[p] : l > i + 1 /\ Closes(inbox[p][l], h, n)
    <2>1. k \in Nat /\ k + 1 \in DOMAIN inbox[p] /\ inbox'[p][k] = inbox[p][k + 1]
      BY ReceivedBox
    <2>2. k + 1 > i + 1
      BY <1>1, <2>1
    <2>3. Closes(inbox[p][k + 1], h, n)
      BY <1>1, <2>1
    <2> QED BY <2>1, <2>2, <2>3
  <1>2. ASSUME NEW k \in DOMAIN inbox[p], k > i + 1, Closes(inbox[p][k], h, n)
        PROVE  \E l \in DOMAIN inbox'[p] : l > i /\ Closes(inbox'[p][l], h, n)
    <2>1. k \in Nat /\ k # 1
      BY <1>2, ReceivedBox
    <2>2. k - 1 \in DOMAIN inbox'[p] /\ inbox'[p][k - 1] = inbox[p][k]
      BY <2>1, ReceivedBox
    <2>3. k - 1 > i
      BY <1>2, <2>1
    <2>4. Closes(inbox'[p][k - 1], h, n)
      BY <1>2, <2>2
    <2> QED BY <2>2, <2>3, <2>4
  <1> QED BY <1>1, <1>2

\* An object that is current is opened by its own answer, closed by what it hears,
\* or left alone.
LEMMA ReceivedObject ==
  ASSUME TypeOK, Agreement, NEW p \in Process, Receive(p), NEW o \in Current, Owner[o] = p
  PROVE  /\ o \in Object /\ objects[o].phase # "calling"
         /\ objects'[o].type = objects[o].type /\ objects'[o].tid = objects[o].tid
         /\ objects'[o].asked = objects[o].asked
         /\ \/ /\ objects[o].tid # 0 /\ 1 \in Answering(o) /\ objects[o].phase = "waiting"
               /\ objects'[o].phase = "open" /\ objects'[o].handle = inbox[p][1].handle
               /\ objects'[o].name = objects[o].name
               /\ Answering(o) = {1} /\ JobsOf(o) = {} /\ o \notin failed
            \/ /\ ~(objects[o].tid # 0 /\ 1 \in Answering(o))
               /\ \/ objects'[o] = objects[o]
                     /\ (objects[o].phase = "open" =>
                           ~Closes(inbox[p][1], objects[o].handle, objects[o].asked))
                  \/ /\ objects[o].phase = "open" /\ objects'[o] = Closed(objects[o])
                     /\ Closes(inbox[p][1], objects[o].handle, objects[o].asked)
  <1> USE DEF Agreement
  <1> DEFINE m == inbox[p][1]
             ob == objects[o]
  <1>1. o \in Object /\ ob \in WalletObject /\ m \in Signal
    BY ReceivedBox DEF Current, TypeOK
  <1>2. objects'[o] = After(ob, m)
    BY <1>1, ReceivedBox DEF Receive
  <1>3. objects'[o].type = ob.type /\ objects'[o].tid = ob.tid /\ objects'[o].asked = ob.asked
    BY <1>1, <1>2, AfterType
  <1>4. ob.phase # "calling"
    BY <1>1 DEF Receive, Runs
  <1>5. 1 \in Answering(o) <=> m.type = "walletAsyncOpened" /\ m.tid = ob.tid
    BY ReceivedBox DEF Answering
  <1>6. ob.type = "Asynchronous" <=> ob.tid # 0
    BY <1>1 DEF Phases
  <1>7. CASE ob.tid # 0 /\ 1 \in Answering(o)
    <2>1. ob.phase = "waiting"
      BY <1>7 DEF Answers
    <2>2. Owed(o)
      BY <2>1 DEF Accounted
    <2>3. Answering(o) = {1} /\ JobsOf(o) = {} /\ o \notin failed
      BY <1>7, <2>2 DEF Owed
    <2>4. objects'[o] = [ob EXCEPT !.phase = "open", !.handle = m.handle]
      BY <1>2, <1>5, <1>6, <1>7, <2>1 DEF After
    <2>5. objects'[o].phase = "open" /\ objects'[o].handle = m.handle /\ objects'[o].name = ob.name
      BY <1>1, <2>4 DEF WalletObject
    <2> QED BY <1>1, <1>3, <1>4, <1>7, <2>1, <2>3, <2>5
  <1>8. CASE ~(ob.tid # 0 /\ 1 \in Answering(o))
    <2>1. ~(m.type = "walletAsyncOpened" /\ ob.type = "Asynchronous"
            /\ ob.phase \in {"waiting", "closed"} /\ ob.tid = m.tid)
      BY <1>5, <1>6, <1>8
    <2>2. ob.phase = "open" => ob.name = ob.asked
      BY <1>1 DEF Phases
    <2>3. m.type \in {"walletAsyncOpened", "walletClosedId", "applicationDisconnected",
                      "serviceUnregistered"}
      BY <1>1 DEF Signal
    <2> HIDE DEF m, ob
    <2>4. CASE ob.phase = "open" /\ Closes(m, ob.handle, ob.asked)
      <3>1. After(ob, m) = Closed(ob)
        BY <2>2, <2>4 DEF After, Closes
      <3> QED BY <1>1, <1>2, <1>3, <1>4, <1>8, <2>4, <3>1 DEF ob, m
    <2>5. CASE ~(ob.phase = "open" /\ Closes(m, ob.handle, ob.asked))
      <3>1. After(ob, m) = ob
        BY <2>1, <2>2, <2>3, <2>5 DEF After, Closes
      <3> QED BY <1>1, <1>2, <1>3, <1>4, <1>8, <2>5, <3>1 DEF ob, m
    <2> QED BY <2>4, <2>5
  <1> QED BY <1>7, <1>8

LEMMA ReceivedAnswering ==
  ASSUME TypeOK, NEW p \in Process, Receive(p), NEW o \in Object, Owner[o] = p,
         objects'[o].tid = objects[o].tid
  PROVE  /\ \A i \in Answering(o)' : i \in Nat /\ i # 0 /\ i + 1 \in Answering(o)
         /\ \A i \in Answering(o) : i \in Nat /\ (i # 1 => i - 1 \in Answering(o)')
  BY ReceivedBox DEF Answering

\* A claim that an object has after a signal is one it had, a place later.
LEMMA ReceivedClaims ==
  ASSUME TypeOK, TypeOK', Agreement, NEW p \in Process, Receive(p), NEW o \in Current, Owner[o] = p,
         NEW i \in Claims(o)'
  PROVE  \E k \in Claims(o) : /\ HandleAt(o, i)' = HandleAt(o, k)
                              /\ ClosesLater(o, i)' <=> ClosesLater(o, k)
  <1> DEFINE h == HandleAt(o, i)'
             n == objects[o].asked
             CL(k) == \E l \in DOMAIN inbox[p] : l > k /\ Closes(inbox[p][l], h, n)
  <1>1. /\ o \in Object /\ objects'[o].tid = objects[o].tid /\ objects'[o].asked = objects[o].asked
        /\ Box(o)' = inbox'[p] /\ Box(o) = inbox[p]
    BY ReceivedObject DEF Box
  <1>2. i \in Nat
    <2>1. Owner[o] \in Process
      BY <1>1, OwnerIsProcess
    <2>2. inbox'[p] \in Seq(Signal)
      BY DEF TypeOK
    <2> QED BY <1>1, <2>2 DEF Claims, Answering, Box
  <1>3. ClosesLater(o, i)' <=> \E l \in DOMAIN inbox'[p] : l > i /\ Closes(inbox'[p][l], h, n)
    BY <1>1 DEF ClosesLater, Closes
  <1> HIDE DEF h
  <1>4. ClosesLater(o, i)' <=> CL(i + 1)
    BY <1>2, <1>3, ReceivedCloses
  <1>5. ASSUME NEW k, HandleAt(o, k) = h PROVE ClosesLater(o, k) <=> CL(k)
    BY <1>1, <1>5 DEF ClosesLater
  <1> HIDE DEF CL
  <1>6. ASSUME i # 0
        PROVE  i + 1 \in Claims(o) /\ HandleAt(o, i + 1) = h
    <2>1. objects[o].tid # 0 /\ i \in Answering(o)'
      BY <1>1, <1>6 DEF Claims
    <2>2. i + 1 \in Answering(o)
      BY <1>1, <2>1, ReceivedAnswering
    <2>3. i \in DOMAIN inbox'[p] /\ i + 1 # 0
      BY <1>1, <1>2, <2>1 DEF Answering, Box
    <2>4. inbox'[p][i] = inbox[p][i + 1]
      BY <2>3, ReceivedBox
    <2> QED BY <1>1, <1>6, <2>1, <2>2, <2>3, <2>4 DEF Claims, HandleAt, h
  <1>7. ASSUME i = 0
        PROVE  \/ 1 \in Claims(o) /\ HandleAt(o, 1) = h
               \/ 0 \in Claims(o) /\ HandleAt(o, 0) = h /\ ~Closes(inbox[p][1], h, n)
    <2>1. 0 \notin Answering(o)'
      BY <1>1, ReceivedAnswering
    <2>2. objects'[o].phase = "open"
      BY <1>7, <2>1 DEF Claims
    <2>3. h = objects'[o].handle
      BY <1>7 DEF h, HandleAt
    <2>4. CASE objects[o].tid # 0 /\ 1 \in Answering(o)
      <3>1. objects'[o].handle = inbox[p][1].handle
        BY <2>4, ReceivedObject
      <3>2. 1 \in Claims(o) /\ HandleAt(o, 1) = inbox[p][1].handle
        BY <1>1, <2>4 DEF Claims, HandleAt
      <3> QED BY <2>3, <3>1, <3>2
    <2>5. CASE ~(objects[o].tid # 0 /\ 1 \in Answering(o))
      <3>1. objects[o] \in WalletObject
        BY <1>1 DEF TypeOK
      <3>2. Closed(objects[o]).phase = "closed"
        BY <3>1 DEF Closed, WalletObject
      <3>3. objects'[o] = objects[o] /\ (objects[o].phase = "open" =>
                           ~Closes(inbox[p][1], objects[o].handle, objects[o].asked))
        BY <2>2, <2>5, <3>2, ReceivedObject
      <3>4. 0 \in Claims(o) /\ HandleAt(o, 0) = h
        BY <2>2, <2>3, <3>3 DEF Claims, HandleAt
      <3> QED BY <2>2, <2>3, <3>3, <3>4
    <2> QED BY <2>4, <2>5
  <1>8. ~Closes(inbox[p][1], h, n) => (CL(0) <=> CL(1))
    <2>1. \A l \in DOMAIN inbox[p] : l \in Nat /\ l # 0
      BY ReceivedBox
    <2>2. \A l \in DOMAIN inbox[p] : l > 0 <=> l = 1 \/ l > 1
      BY <2>1
    <2> QED BY <2>2 DEF CL
  <1>9. CASE i = 0
    <2>1. i + 1 = 1
      BY <1>9
    <2> QED BY <1>4, <1>5, <1>7, <1>8, <1>9, <2>1 DEF h
  <1>10. CASE i # 0
    BY <1>4, <1>5, <1>6, <1>10 DEF h
  <1> QED BY <1>9, <1>10

\* Of any object of the process.
LEMMA ReceivedFields ==
  ASSUME TypeOK, NEW p \in Process, Receive(p), NEW o \in Object, Owner[o] = p
  PROVE  /\ objects'[o].type = objects[o].type /\ objects'[o].tid = objects[o].tid
         /\ objects'[o].asked = objects[o].asked /\ objects[o].phase # "calling"
         /\ \/ objects'[o].handle \in {0, objects[o].handle}
            \/ /\ inbox[p][1].type = "walletAsyncOpened"
               /\ objects'[o].handle = inbox[p][1].handle
         /\ \/ objects'[o] = objects[o]
            \/ /\ objects[o].phase \in {"waiting", "open", "closed"}
               /\ objects'[o].phase \in {"open", "closed"}
               /\ objects'[o].phase = "open" => objects'[o].name = objects[o].name
  <1> DEFINE m == inbox[p][1]
             ob == objects[o]
  <1>1. ob \in WalletObject /\ m \in Signal
    BY ReceivedBox DEF TypeOK
  <1>2. objects'[o] = After(ob, m)
    BY ReceivedBox DEF Receive
  <1>3. ob.phase # "calling"
    BY DEF Receive, Runs
  <1>4. objects'[o].type = ob.type /\ objects'[o].tid = ob.tid /\ objects'[o].asked = ob.asked
    BY <1>1, <1>2, AfterType
  <1>5. /\ Closed(ob).handle = 0 /\ Closed(ob).phase = "closed"
        /\ [ob EXCEPT !.phase = "open", !.handle = m.handle].handle = m.handle
        /\ [ob EXCEPT !.phase = "open", !.handle = m.handle].phase = "open"
        /\ [ob EXCEPT !.phase = "open", !.handle = m.handle].name = ob.name
    BY <1>1 DEF Closed, WalletObject
  <1> HIDE DEF m, ob
  <1>6. \/ /\ m.type = "walletAsyncOpened" /\ ob.phase \in {"waiting", "closed"}
           /\ After(ob, m) = [ob EXCEPT !.phase = "open", !.handle = m.handle]
        \/ ob.phase = "open" /\ After(ob, m) = Closed(ob)
        \/ After(ob, m) = ob
    BY DEF After
  <1>7. CASE /\ m.type = "walletAsyncOpened" /\ ob.phase \in {"waiting", "closed"}
             /\ After(ob, m) = [ob EXCEPT !.phase = "open", !.handle = m.handle]
    <2>1. /\ objects'[o].handle = m.handle /\ objects'[o].phase = "open"
          /\ objects'[o].name = ob.name
      BY <1>2, <1>5, <1>7
    <2> QED BY <1>3, <1>4, <1>7, <2>1 DEF m, ob
  <1>8. CASE ob.phase = "open" /\ After(ob, m) = Closed(ob)
    <2>1. objects'[o].handle = 0 /\ objects'[o].phase = "closed"
      BY <1>2, <1>5, <1>8
    <2> QED BY <1>3, <1>4, <1>8, <2>1 DEF m, ob
  <1>9. CASE After(ob, m) = ob
    BY <1>2, <1>3, <1>4, <1>9 DEF m, ob
  <1> QED BY <1>6, <1>7, <1>8, <1>9

LEMMA ReceiveAgreement ==
  ASSUME TypeOK, TypeOK', Agreement, NEW p \in Process, Receive(p)
  PROVE  Agreement'
  <1> USE DEF Agreement
  <1>1. /\ UNCHANGED <<alive, sessions, jobs, busy, lastTid, drawn, appid, unheard, outdated, failed>>
        /\ \A o \in Object : Owner[o] # p => objects'[o] = objects[o]
    BY DEF Receive, kwalletd, history
  <1>2. /\ InProgress' = InProgress /\ Current' = Current /\ Current \subseteq Object
        /\ \A q : JobsOf(q)' = JobsOf(q) /\ AppOf(q)' = AppOf(q)
    BY <1>1 DEF InProgress, Current, JobsOf, AppOf
  <1>3. /\ \A q \in Process \ {p} : inbox'[q] = inbox[q]
        /\ \A i \in DOMAIN inbox'[p] :
              i \in Nat /\ i # 0 /\ i + 1 \in DOMAIN inbox[p] /\ inbox'[p][i] = inbox[p][i + 1]
        /\ \A i \in DOMAIN inbox[p] :
              i \in Nat /\ i # 0 /\ (i # 1 => i - 1 \in DOMAIN inbox'[p] /\ inbox'[p][i - 1] = inbox[p][i])
        /\ 1 \in DOMAIN inbox[p]
    BY ReceivedBox
  <1>4. \A o \in Object : Owner[o] # p =>
          /\ Answering(o)' = Answering(o) /\ Box(o)' = Box(o) /\ Claims(o)' = Claims(o)
          /\ \A i : /\ HandleAt(o, i)' = HandleAt(o, i)
                    /\ ClosesLater(o, i)' = ClosesLater(o, i)
    BY <1>1, <1>3, OwnerIsProcess, SameObject
  <1>5. \A o \in Object :
          /\ objects'[o].type = objects[o].type /\ objects'[o].tid = objects[o].tid
          /\ objects'[o].asked = objects[o].asked
          /\ \/ objects'[o] = objects[o]
             \/ /\ objects[o].phase \in {"waiting", "open", "closed"}
                /\ objects'[o].phase \in {"open", "closed"}
                /\ objects'[o].phase = "open" => objects'[o].name = objects[o].name
    BY <1>1, ReceivedFields
  <1>6. \A o \in Object, j \in InProgress :
          o \in Current /\ j.object = o /\ objects[o].phase = "waiting" => objects'[o] = objects[o]
    <2> SUFFICES ASSUME NEW o \in Object, NEW j \in InProgress,
                        o \in Current, j.object = o, objects[o].phase = "waiting"
                 PROVE  objects'[o] = objects[o]
      OBVIOUS
    <2>1. CASE Owner[o] = p
      <3>1. JobsOf(o) # {}
        BY DEF JobsOf
      <3> QED BY <2>1, <3>1, ReceivedObject
    <2> QED BY <1>1, <2>1
  <1>7. Handles'
    <2>1. \A o \in Object : objects'[o].handle <= drawn
      <3>1. 0 <= drawn
        BY DEF TypeOK
      <3>2. inbox[p][1].type = "walletAsyncOpened" => inbox[p][1].handle <= drawn
        BY <1>3 DEF Handles
      <3> QED BY <1>1, <3>1, <3>2, ReceivedFields DEF Handles
    <2>2. \A q \in Process : \A i \in DOMAIN inbox'[q] :
            inbox'[q][i].type \in {"walletAsyncOpened", "walletClosedId"} => inbox'[q][i].handle <= drawn
      BY <1>3 DEF Handles
    <2> QED BY <1>1, <2>1, <2>2 DEF Handles
  <1>8. Phases'
    <2>1. ASSUME NEW o \in Current, objects'[o].phase = "open"
          PROVE  objects[o].phase \in {"waiting", "open"}
      <3>1. CASE Owner[o] # p
        BY <1>1, <1>2, <2>1, <3>1
      <3>2. CASE Owner[o] = p
        <4>1. objects[o] \in WalletObject
          BY <1>2 DEF TypeOK
        <4>2. Closed(objects[o]).phase = "closed"
          BY <4>1 DEF Closed, WalletObject
        <4> QED BY <2>1, <3>2, <4>2, ReceivedObject
      <3> QED BY <3>1, <3>2
    <2> QED BY <1>1, <1>2, <1>5, <2>1 DEF Phases
  <1>9. Works'
    <2>1. ASSUME NEW j \in InProgress PROVE JobIsOwners(j)'
      <3>1. JobIsOwners(j) /\ j.object \in Object
        BY DEF Works, InProgress, TypeOK, Job
      <3>2. objects'[j.object].phase = "calling" <=> objects[j.object].phase = "calling"
        BY <1>5, <3>1
      <3>3. objects'[j.object].phase = "waiting" => objects[j.object].phase = "waiting"
        BY <1>5, <3>1
      <3> QED BY <1>1, <1>2, <1>5, <1>6, <3>1, <3>2, <3>3 DEF JobIsOwners
    <2> QED BY <1>1, <1>2, <1>5, <2>1 DEF Works
  <1>10. Answers'
    <2>1. ASSUME NEW q \in Process, NEW i \in DOMAIN inbox'[q], inbox'[q][i].type = "walletAsyncOpened"
          PROVE  /\ inbox'[q][i].tid # 0
                 /\ \/ inbox'[q][i].tid <= lastTid
                    \/ \E k \in DOMAIN inbox'[q] : k > i /\ inbox'[q][k].type = "serviceUnregistered"
      <3>1. CASE q # p
        BY <1>3, <2>1, <3>1 DEF Answers
      <3>2. CASE q = p
        <4>1. i \in Nat /\ i + 1 \in DOMAIN inbox[p] /\ inbox'[p][i] = inbox[p][i + 1]
          BY <1>3, <3>2
        <4>2. ASSUME NEW k \in DOMAIN inbox[p], k > i + 1, inbox[p][k].type = "serviceUnregistered"
              PROVE  \E l \in DOMAIN inbox'[p] : l > i /\ inbox'[p][l].type = "serviceUnregistered"
          <5>1. k \in Nat /\ k # 1
            BY <1>3, <4>1, <4>2
          <5>2. k - 1 \in DOMAIN inbox'[p] /\ inbox'[p][k - 1] = inbox[p][k] /\ k - 1 > i
            BY <1>3, <4>1, <4>2, <5>1
          <5> QED BY <4>2, <5>2
        <4> QED BY <2>1, <3>2, <4>1, <4>2 DEF Answers
      <3> QED BY <3>1, <3>2
    <2>2. ASSUME NEW o \in Current, objects[o].tid # 0
          PROVE  /\ \A i \in DOMAIN Box(o)' : Box(o)'[i].type # "serviceUnregistered"
                 /\ Answering(o)' # {} => objects'[o].phase = "waiting"
      <3>1. CASE Owner[o] # p
        BY <1>1, <1>2, <1>4, <2>2, <3>1 DEF Answers
      <3>2. CASE Owner[o] = p
        <4>1. \A i \in DOMAIN Box(o)' : Box(o)'[i].type # "serviceUnregistered"
          BY <1>3, <2>2, <3>2 DEF Answers, Box
        <4>2. ASSUME NEW i \in Answering(o)' PROVE objects'[o].phase = "waiting"
          <5>1. i \in Nat /\ i # 0 /\ i + 1 \in Answering(o)
            BY <1>2, <1>5, <3>2, ReceivedAnswering
          <5>2. i + 1 # 1
            BY <5>1
          <5>3. objects[o].phase = "waiting"
            BY <2>2, <5>1 DEF Answers
          <5> QED BY <3>2, <5>1, <5>2, <5>3, ReceivedObject
        <4> QED BY <4>1, <4>2
      <3> QED BY <3>1, <3>2
    <2> QED BY <1>1, <1>2, <1>5, <2>1, <2>2 DEF Answers
  <1>11. Accounted'
    <2> SUFFICES ASSUME NEW o \in Current, objects'[o].phase \in {"calling", "waiting"} PROVE Owed(o)'
      BY <1>2 DEF Accounted
    <2>1. o \in Object /\ objects'[o] = objects[o] /\ Owed(o)
      BY <1>2, <1>5 DEF Accounted
    <2>2. CASE Owner[o] # p
      BY <1>1, <1>2, <1>4, <2>1, <2>2 DEF Owed
    <2>3. CASE Owner[o] = p
      <3>1. \A i \in Answering(o)' : i \in Nat /\ i + 1 \in Answering(o)
        BY <2>1, <2>3, ReceivedAnswering
      <3>2. \A i \in Answering(o) : i \in Nat /\ (i # 1 => i - 1 \in Answering(o)')
        BY <2>1, <2>3, ReceivedAnswering
      <3>3. 1 \notin Answering(o)
        <4>1. objects[o].phase = "waiting"
          BY <2>1, <2>3 DEF Receive, Runs
        <4>2. objects[o].tid # 0
          BY <2>1, <4>1 DEF Phases
        <4> QED BY <2>1, <2>3, <4>1, <4>2, ReceivedObject
      <3>4. ASSUME NEW i \in DOMAIN Box(o), Answering(o) = {i}
            PROVE  \E l \in DOMAIN Box(o)' : Answering(o)' = {l}
        <4>1. i \in Nat /\ i - 1 \in Answering(o)'
          BY <3>2, <3>3, <3>4
        <4>2. \A l \in Answering(o)' : l = i - 1
          BY <3>1, <3>4, <4>1
        <4>3. i - 1 \in DOMAIN Box(o)'
          BY <4>1 DEF Answering, Box
        <4> QED BY <4>1, <4>2, <4>3
      <3>5. Answering(o) = {} => Answering(o)' = {}
        BY <3>1
      <3> QED BY <1>1, <1>2, <2>1, <3>4, <3>5 DEF Owed
    <2> QED BY <2>2, <2>3
  <1>12. \A o \in Current : \A i \in Claims(o)' : \E k \in Claims(o) :
           /\ HandleAt(o, i)' = HandleAt(o, k)
           /\ ClosesLater(o, i)' <=> ClosesLater(o, k)
    <2> SUFFICES ASSUME NEW o \in Current, NEW i \in Claims(o)'
                 PROVE  \E k \in Claims(o) : /\ HandleAt(o, i)' = HandleAt(o, k)
                                             /\ ClosesLater(o, i)' <=> ClosesLater(o, k)
      OBVIOUS
    <2>1. CASE Owner[o] = p
      BY <2>1, ReceivedClaims
    <2>2. CASE Owner[o] # p
      BY <1>2, <1>4, <2>2
    <2> QED BY <2>1, <2>2
  <1>13. Once'
    BY <1>2, <1>12 DEF Once
  <1>14. Held'
    <2> SUFFICES ASSUME NEW o \in Current, NEW i \in Claims(o)'
                 PROVE  /\ HandleAt(o, i)' \notin unheard' =>
                             ClaimedSession(o, i)' \in DOMAIN sessions' \/ ClosesLater(o, i)'
                        /\ ClaimedSession(o, i)' \in DOMAIN sessions' =>
                             sessions'[ClaimedSession(o, i)'] = objects'[o].asked
                        /\ objects'[o].tid # 0 /\ ClosesLater(o, i)' =>
                             ClaimedSession(o, i)' \notin DOMAIN sessions'
      BY <1>2 DEF Held
    <2>1. PICK k \in Claims(o) : /\ HandleAt(o, i)' = HandleAt(o, k)
                                 /\ ClosesLater(o, i)' <=> ClosesLater(o, k)
      BY <1>12
    <2>2. ClaimedSession(o, i)' = ClaimedSession(o, k)
      BY <1>2, <2>1 DEF ClaimedSession
    <2>3. objects'[o].tid = objects[o].tid /\ objects'[o].asked = objects[o].asked
      BY <1>2, <1>5
    <2> QED BY <1>1, <2>1, <2>2, <2>3 DEF Held
  <1>15. ClosedIds'
    BY <1>1, <1>3 DEF ClosedIds
  <1> QED BY <1>7, <1>8, <1>9, <1>10, <1>11, <1>13, <1>14, <1>15

-----------------------------------------------------------------------------
(* kwalletd dies *)

\* Its sessions and jobs go with it, and what it has sent is outdated.
LEMMA KWalletDDiesAgreement ==
  ASSUME TypeOK, TypeOK', Agreement, KWalletDDies
  PROVE  Agreement'
  <1> USE DEF Agreement
  <1> DEFINE last(q) == Len(inbox[q]) + 1
  <1>1. /\ InProgress' = {} /\ busy' \notin jobs' /\ lastTid' = 0 /\ DOMAIN sessions' = {}
        /\ UNCHANGED <<drawn, appid, unheard, failed>>
        /\ \A o \in Object : objects'[o] = IF objects[o].phase = "calling" THEN DeletedObject ELSE objects[o]
    BY NoSessionsFacts DEF KWalletDDies, InProgress
  <1>2. /\ Current' \subseteq Object
        /\ \A o \in Current' : o \in Current /\ objects[o].tid = 0 /\ objects'[o].tid = 0
        /\ \A o \in Current : objects[o].tid = 0 => o \in Current'
    <2>1. \A o \in Object : objects[o].tid = 0 => objects'[o].tid = 0
      BY <1>1, DeletedFacts
    <2> QED BY <2>1 DEF KWalletDDies, Current
  <1>3. \A q \in Process :
          /\ \A i \in DOMAIN inbox[q] : i \in DOMAIN inbox'[q] /\ inbox'[q][i] = inbox[q][i]
          /\ \A i \in DOMAIN inbox'[q] : i \in DOMAIN inbox[q] \/ i = last(q)
          /\ last(q) \in DOMAIN inbox'[q] /\ inbox'[q][last(q)].type = "serviceUnregistered"
          /\ \A i \in DOMAIN inbox[q] \cup {0} : last(q) > i
    <2> SUFFICES ASSUME NEW q \in Process
                 PROVE  /\ \A i \in DOMAIN inbox[q] : i \in DOMAIN inbox'[q] /\ inbox'[q][i] = inbox[q][i]
                        /\ \A i \in DOMAIN inbox'[q] : i \in DOMAIN inbox[q] \/ i = last(q)
                        /\ last(q) \in DOMAIN inbox'[q]
                        /\ inbox'[q][last(q)].type = "serviceUnregistered"
                        /\ \A i \in DOMAIN inbox[q] \cup {0} : last(q) > i
      OBVIOUS
    <2> DEFINE m == [type |-> "serviceUnregistered"]
    <2>1. m \in Signal /\ m.type = "serviceUnregistered"
      BY DEF Signal
    <2>2. inbox'[q] = Append(inbox[q], m) /\ inbox[q] \in Seq(Signal)
      BY DEF KWalletDDies, Broadcast, TypeOK
    <2> HIDE DEF m
    <2>3. /\ Len(inbox[q]) \in Nat
          /\ DOMAIN inbox[q] = 1 .. Len(inbox[q])
          /\ DOMAIN inbox'[q] = 1 .. Len(inbox[q]) + 1
          /\ \A i \in 1 .. Len(inbox[q]) : inbox'[q][i] = inbox[q][i]
          /\ inbox'[q][Len(inbox[q]) + 1] = m
      BY <2>1, <2>2, AppendFacts
    <2> QED BY <2>1, <2>3
  <1> HIDE DEF last
  <1>4. Handles'
    <2>1. \A o \in Object : objects'[o].handle <= drawn
      <3>1. 0 <= drawn
        BY DEF TypeOK
      <3> QED BY <1>1, <3>1, DeletedFacts DEF Handles
    <2>2. \A p \in Process : \A i \in DOMAIN inbox'[p] :
            inbox'[p][i].type \in {"walletAsyncOpened", "walletClosedId"} => inbox'[p][i].handle <= drawn
      BY <1>3 DEF Handles
    <2> QED BY <1>1, <2>1, <2>2 DEF Handles
  <1>5. Phases'
    <2>1. \A o \in Object : \/ objects'[o] = objects[o] /\ objects[o].phase # "calling"
                            \/ objects'[o] = DeletedObject
      BY <1>1
    <2>2. \A o : JobsOf(o)' = {}
      BY <1>1 DEF JobsOf
    <2> QED BY <1>1, <1>2, <2>1, <2>2, DeletedFacts DEF Phases
  <1>6. Works'
    BY <1>1, <1>2 DEF Works
  <1>7. Answers'
    <2>1. ASSUME NEW p \in Process, NEW i \in DOMAIN inbox'[p], inbox'[p][i].type = "walletAsyncOpened"
          PROVE  /\ inbox'[p][i].tid # 0
                 /\ \E k \in DOMAIN inbox'[p] : k > i /\ inbox'[p][k].type = "serviceUnregistered"
      <3>1. i \in DOMAIN inbox[p] /\ inbox'[p][i] = inbox[p][i]
        BY <1>3, <2>1
      <3>2. inbox'[p][i].tid # 0
        BY <2>1, <3>1 DEF Answers
      <3>3. last(p) \in DOMAIN inbox'[p] /\ last(p) > i /\ inbox'[p][last(p)].type = "serviceUnregistered"
        BY <1>3, <3>1
      <3> QED BY <3>2, <3>3
    <2> QED BY <1>2, <2>1 DEF Answers
  <1>8. Accounted'
    <2>1. \A o \in Object : objects'[o].phase \notin {"calling"} /\
                            (objects'[o].phase = "waiting" => objects'[o].tid # 0)
      BY <1>1, DeletedFacts DEF Phases
    <2> QED BY <1>2, <2>1 DEF Accounted
  <1>9. \A o \in Current' : \A i \in Claims(o)' :
          i = 0 /\ 0 \in Claims(o) /\ HandleAt(o, 0)' = HandleAt(o, 0)
    <2> SUFFICES ASSUME NEW o \in Current', NEW i \in Claims(o)'
                 PROVE  i = 0 /\ 0 \in Claims(o) /\ HandleAt(o, 0)' = HandleAt(o, 0)
      OBVIOUS
    <2>1. i = 0 /\ objects'[o].phase = "open"
      BY <1>2 DEF Claims
    <2>2. objects'[o] = objects[o]
      BY <1>1, <1>2, <2>1, DeletedFacts
    <2> QED BY <2>1, <2>2 DEF Claims, HandleAt
  <1>10. Once'
    BY <1>2, <1>9 DEF Once
  <1>11. Held'
    <2>1. ASSUME NEW o \in Current' PROVE ClosesLater(o, 0)'
      <3>1. Owner[o] \in Process
        BY <1>2, OwnerIsProcess
      <3>2. last(Owner[o]) \in DOMAIN Box(o)' /\ last(Owner[o]) > 0
            /\ Box(o)'[last(Owner[o])].type = "serviceUnregistered"
        BY <1>3, <3>1 DEF Box
      <3> QED BY <3>2 DEF ClosesLater, Closes
    <2> QED BY <1>1, <1>9, <2>1 DEF Held
  <1>12. ClosedIds'
    BY <1>1 DEF ClosedIds
  <1> QED BY <1>4, <1>5, <1>6, <1>7, <1>8, <1>10, <1>11, <1>12

-----------------------------------------------------------------------------
(* The invariant *)

LEMMA AgreementInit == Init => TypeOK /\ Down /\ Agreement
  <1> SUFFICES ASSUME Init PROVE Down /\ Agreement /\ TypeOK
    OBVIOUS
  <1>1. DOMAIN sessions = {} /\ InProgress = {} /\ Down
    BY NoSessionsFacts DEF Init, InProgress, Down
  <1>2. /\ NewObject.phase = "new" /\ NewObject.type = "Synchronous" /\ NewObject.tid = 0
        /\ NewObject.handle = 0
    BY DEF NewObject
  <1>3. \A o \in Object : objects[o] = NewObject /\ o \in Current
    BY DEF Init, Current
  <1>4. \A p \in Process : DOMAIN inbox[p] = {}
    BY DEF Init
  <1>5. \A o \in Object : JobsOf(o) = {} /\ Answering(o) = {} /\ Claims(o) = {}
    BY <1>1, <1>2, <1>3, <1>4, OwnerIsProcess DEF JobsOf, Answering, Claims
  <1>6. Handles /\ ClosedIds
    BY <1>1, <1>2, <1>3, <1>4 DEF Handles, ClosedIds, Init
  <1>7. Phases /\ Accounted
    BY <1>2, <1>3, <1>5 DEF Phases, Accounted, Init, Current
  <1>8. Works
    BY <1>1, <1>2, <1>3 DEF Works, Init, Current
  <1>9. Answers
    BY <1>2, <1>3, <1>4 DEF Answers, Current
  <1>10. Once /\ Held
    BY <1>5 DEF Once, Held, Current
  <1>11. TypeOK
    <2>1. NoSessions \in [DOMAIN NoSessions -> Name] /\ DOMAIN NoSessions \subseteq Handle \X App
      BY DEF NoSessions
    <2>2. NewObject \in WalletObject
      BY DEF NewObject, WalletObject, Handle
    <2> QED BY <2>1, <2>2 DEF Init, TypeOK
  <1> QED BY <1>1, <1>6, <1>7, <1>8, <1>9, <1>10, <1>11 DEF Agreement

LEMMA AnsweredAgreement ==
  ASSUME TypeOK, TypeOK', Agreement, NEW j, JobEnds(j), Opened(j),
         UNCHANGED <<lastTid, appid, failed, outdated, unheard>>
  PROVE  Agreement'
  BY ReplyAgreement, SignalAgreement

LEMMA AgreementStep ==
  ASSUME TypeOK, Down, Agreement, [Next]_vars
  PROVE  Agreement'
  <1>0. TypeOK' /\ busy \notin jobs
    BY TypeStep DEF Agreement, Works
  <1>1. ASSUME NEW j \in jobs, OpenUnlocked(j) PROVE Agreement'
    <2>1. JobEnds(j)
      BY <1>0, <1>1, NoneIsNoJob DEF JobEnds, InProgress, OpenUnlocked, Free, TypeOK
    <2>2. Opened(j) /\ UNCHANGED <<lastTid, appid, failed, outdated, unheard>>
      BY <1>1 DEF OpenUnlocked, history
    <2> QED BY <1>0, <2>1, <2>2, AnsweredAgreement
  <1>2. ASSUME NEW j \in jobs, ShowPrompt(j) PROVE Agreement'
    <2>1. jobs' = jobs \ {j} /\ busy' = j /\ busy = None /\ j # None
      BY <1>2, NoneIsNoJob DEF ShowPrompt, Free, TypeOK
    <2>2. InProgress' = InProgress /\ busy' \notin jobs'
      BY <2>1 DEF InProgress
    <2> QED BY <1>2, <2>2, QuietStep DEF ShowPrompt, clients, history
  <1>3. ASSUME PromptAccepted PROVE Agreement'
    <2>1. JobEnds(busy)
      BY <1>0, <1>3, NoneIsNoJob DEF JobEnds, InProgress, PromptAccepted, TypeOK
    <2>2. Opened(busy) /\ UNCHANGED <<lastTid, appid, failed, outdated, unheard>>
      BY <1>3 DEF PromptAccepted, history
    <2>3. PICK j : j = busy
      OBVIOUS
    <2>4. JobEnds(j) /\ Opened(j)
      BY <2>1, <2>2, <2>3
    <2> QED BY <1>0, <2>2, <2>4, AnsweredAgreement
  <1>4. ASSUME PromptRefused PROVE Agreement'
    <2>1. JobEnds(busy)
      BY <1>0, <1>4, NoneIsNoJob DEF JobEnds, InProgress, PromptRefused, TypeOK
    <2>2. /\ OpenFailed(busy)
          /\ UNCHANGED <<sessions, lastTid, drawn, appid, inbox, unheard, outdated>>
      BY <1>4 DEF PromptRefused
    <2>3. PICK j : j = busy
      OBVIOUS
    <2>4. JobEnds(j) /\ OpenFailed(j)
      BY <2>1, <2>2, <2>3
    <2> QED BY <1>0, <2>2, <2>4, OpenFailedAgreement
  <1>5. ASSUME NEW o \in Object, NEW n \in Name, OpenWallet(o, n) PROVE Agreement'
    BY <1>0, <1>5, OpenWalletAgreement
  <1>6. ASSUME NEW o \in Object, NEW n \in Name, OpenWalletAsync(o, n) PROVE Agreement'
    BY <1>0, <1>6, OpenWalletAsyncAgreement
  <1>7. ASSUME NEW o \in Object, DeleteObject(o) PROVE Agreement'
    BY <1>0, <1>7, DeleteObjectAgreement
  <1>8. CASE Closing
    BY <1>0, <1>8, ClosingAgreement
  <1>9. CASE HandleNotice
    BY <1>0, <1>9, HandleNoticeAgreement
  <1>10. ASSUME NEW p \in Process, Receive(p) PROVE Agreement'
    BY <1>0, <1>10, ReceiveAgreement
  <1>11. CASE KWalletDDies
    BY <1>0, <1>11, KWalletDDiesAgreement
  <1>12. ASSUME UNCHANGED <<sessions, inbox, objects, appid, drawn, lastTid, outdated, failed, unheard,
                            jobs, busy>>
         PROVE  Agreement'
    <2>1. InProgress' = InProgress /\ busy' \notin jobs'
      BY <1>0, <1>12 DEF InProgress
    <2> QED BY <1>12, <2>1, QuietStep
  <1>13. ASSUME NEW n \in Name, Lock(n) \/ UnlockByOthers(n) \/ DeleteWallet(n) PROVE Agreement'
    BY <1>12, <1>13 DEF Lock, UnlockByOthers, DeleteWallet, kwalletd, clients, history
  <1>14. CASE ServiceDies \/ ServiceStarts \/ KWalletDStarts
    BY <1>12, <1>14 DEF ServiceDies, ServiceStarts, KWalletDStarts, kwalletd, clients, history
  <1>15. CASE UNCHANGED vars
    BY <1>12, <1>15 DEF vars, kwalletd, clients, history
  <1> QED
    BY <1>1, <1>2, <1>3, <1>4, <1>5, <1>6, <1>7, <1>8, <1>9, <1>10, <1>11, <1>13, <1>14, <1>15
       DEF Next, Opening, PromptEnds, Calls, Environment, Closing

Invariant == TypeOK /\ Down /\ Agreement

LEMMA InvariantHolds == Spec => []Invariant
  <1>1. Init => Invariant
    BY AgreementInit DEF Invariant
  <1>2. Invariant /\ [Next]_vars => Invariant'
    BY TypeStep, DownStep, AgreementStep DEF Invariant
  <1> QED BY <1>1, <1>2, PTL DEF Spec


-----------------------------------------------------------------------------
(* Theorems *)

\* A call or timer, or one answer on its way, for each object that waits: none is
\* answered twice, and none is forgotten but by a failed openAsync() and by a
\* kwalletd that died.  A kwalletd that does not run has no sessions and no work.
THEOREM WaitingIsAccounted == Spec => []Structure
  <1>1. ASSUME Invariant PROVE Structure
    <2> USE <1>1 DEF Invariant, Agreement
    <2>1. ASSUME NEW o \in Current, objects[o].phase \in {"calling", "waiting"}
          PROVE  Cardinality(JobsOf(o)) + Cardinality(Answering(o)) = IF o \in failed THEN 0 ELSE 1
      <3>1. Owed(o)
        BY <2>1 DEF Accounted
      <3>2. Cardinality({}) = 0 /\ \A x : Cardinality({x}) = 1
        BY FS_EmptySet, FS_Singleton
      <3>3. CASE JobsOf(o) = {} /\ Answering(o) = {} /\ o \in failed
        BY <3>2, <3>3
      <3>4. CASE o \notin failed /\ (\E j : JobsOf(o) = {j}) /\ Answering(o) = {}
        BY <3>2, <3>4
      <3>5. CASE o \notin failed /\ JobsOf(o) = {} /\ \E i : Answering(o) = {i}
        <4>1. Cardinality(JobsOf(o)) = 0 /\ Cardinality(Answering(o)) = 1
          BY <3>2, <3>5
        <4> QED BY <3>5, <4>1
      <3> QED BY <3>1, <3>3, <3>4, <3>5 DEF Owed
    <2>2. ~alive => sessions = NoSessions /\ InProgress = {}
      BY DEF Down, InProgress
    <2>3. \A s \in DOMAIN sessions : s[1] =< drawn
      BY DEF Handles
    <2> QED BY <2>1, <2>2, <2>3 DEF Structure, Current, JobsOf
  <1> QED BY <1>1, InvariantHolds, PTL

\* A Wallet object that believes itself open has a session, or a signal that will
\* tell it otherwise is on its way: no forced close, lock, dead service or call of
\* another process leaves it mistaken for good, with the exceptions named by
\* unheard and outdated.
THEOREM NoneIsMistaken == Spec => []OpenIsASession
  <1>1. ASSUME Invariant PROVE OpenIsASession
    <2> USE <1>1 DEF Invariant, Agreement
    <2> SUFFICES ASSUME NEW o \in Current, objects[o].phase = "open", objects[o].handle \notin unheard,
                        SessionOf(o) \notin DOMAIN sessions
                 PROVE  Heard(o)
      BY DEF OpenIsASession, Current
    <2>1. 0 \in Claims(o) /\ HandleAt(o, 0) = objects[o].handle /\ ClaimedSession(o, 0) = SessionOf(o)
      BY DEF Claims, HandleAt, ClaimedSession, SessionOf
    <2>2. ClosesLater(o, 0)
      BY <2>1 DEF Held
    <2>3. objects[o].name = objects[o].asked
      BY DEF Phases, Current
    <2>4. PICK k \in DOMAIN Box(o) : Closes(Box(o)[k], objects[o].handle, objects[o].name)
      BY <2>1, <2>2, <2>3 DEF ClosesLater
    <2>5. Box(o)[k] \in Queued(inbox[Owner[o]])
      BY <2>4 DEF Queued, Box
    <2> QED BY <2>4, <2>5 DEF Heard, Closes
  <1> QED BY <1>1, InvariantHolds, PTL

\* What a Wallet object reads and writes under its session is in the wallet it
\* asked for, and no other object that believes itself open shares the session.
THEOREM SessionsAreTheirOwn == Spec => []SessionIsTheWallet
  <1>1. ASSUME Invariant PROVE SessionIsTheWallet
    <2> USE <1>1 DEF Invariant, Agreement
    <2>1. \A o \in Current : objects[o].phase = "open" =>
            /\ 0 \in Claims(o) /\ HandleAt(o, 0) = objects[o].handle
            /\ ClaimedSession(o, 0) = SessionOf(o)
      BY DEF Claims, HandleAt, ClaimedSession, SessionOf
    <2>2. \A o \in Current : objects[o].phase = "open" /\ SessionOf(o) \in DOMAIN sessions =>
            sessions[SessionOf(o)] = objects[o].asked
      BY <2>1 DEF Held
    <2>3. \A o, q \in Current : objects[o].phase = "open" /\ objects[q].phase = "open"
            /\ objects[o].handle = objects[q].handle => o = q
      BY <2>1 DEF Once
    <2> QED BY <2>2, <2>3 DEF SessionIsTheWallet, Current
  <1> QED BY <1>1, InvariantHolds, PTL

\* An object opened with openAsync() that turns to closed has no session left: the
\* signal it heard was not about the session of another object or an earlier one.
THEOREM ClosedIsMeant == Spec => ClosedIsClosed
  <1> DEFINE Meant(o) ==
        /\ objects[o].type = "Asynchronous"
        /\ objects[o].phase = "open" /\ objects'[o].phase = "closed"
        => SessionOf(o) \notin DOMAIN sessions'
  <1>1. ASSUME Invariant, [Next]_vars PROVE [\A o \in Object \ outdated : Meant(o)]_vars
    <2> USE <1>1 DEF Invariant, Agreement
    <2> SUFFICES ASSUME NEW o \in Current, objects[o].type = "Asynchronous",
                        objects[o].phase = "open", objects'[o].phase = "closed"
                 PROVE  SessionOf(o) \notin DOMAIN sessions'
      BY DEF Current
    <2>1. o \in Object /\ objects[o] \in WalletObject
      BY DEF Current, TypeOK
    <2>2. ASSUME NEW q \in Object, LockWallet(q) PROVE SessionOf(o) \notin DOMAIN sessions'
      <3>1. q = o
        BY <2>1, <2>2 DEF LockWallet, TypeOK
      <3>2. CASE SessionOf(q) \in DOMAIN sessions
        <4>1. sessions' = Without({SessionOf(q)})
          BY <2>2, <3>2 DEF LockWallet, SessionOf
        <4> QED BY <3>1, <4>1, WithoutFacts
      <3>3. CASE SessionOf(q) \notin DOMAIN sessions
        BY <2>2, <3>1, <3>3 DEF LockWallet, SessionOf
      <3> QED BY <3>2, <3>3
    <2>3. ASSUME NEW p \in Process, Receive(p) PROVE SessionOf(o) \notin DOMAIN sessions'
      <3>1. Owner[o] = p
        BY <2>1, <2>3 DEF Receive
      <3>2. Closes(inbox[p][1], objects[o].handle, objects[o].asked)
        BY <2>3, <3>1, ReceivedObject
      <3>3. 1 \in DOMAIN Box(o)
        BY <2>3, <3>1, ReceivedBox DEF Box
      <3>4. ClosesLater(o, 0)
        BY <3>1, <3>2, <3>3 DEF ClosesLater, HandleAt, Box
      <3>5. objects[o].tid # 0
        BY <2>1 DEF Phases
      <3>6. 0 \in Claims(o) /\ ClaimedSession(o, 0) = SessionOf(o)
        BY DEF Claims, ClaimedSession, SessionOf, HandleAt
      <3>7. SessionOf(o) \notin DOMAIN sessions
        BY <3>4, <3>5, <3>6 DEF Held
      <3> QED BY <2>3, <3>7 DEF Receive, kwalletd
    <2>4. objects' # objects
      OBVIOUS
    <2>5. ASSUME NEW j \in Job, Opened(j) PROVE FALSE
      <3>1. CASE j.tid = 0
        <4> DEFINE q == [objects[j.object] EXCEPT !.phase = "open", !.handle = drawn + 1]
        <4>1. j.object \in Object /\ objects[j.object] \in WalletObject
          BY DEF Job, TypeOK
        <4>2. q.phase = "open"
          BY <4>1 DEF WalletObject
        <4>3. objects' = [objects EXCEPT ![j.object] = q]
          BY <2>5, <3>1, <4>1 DEF Opened, TypeOK
        <4> HIDE DEF q
        <4>4. objects'[o] = objects[o] \/ objects'[o] = q
          BY <2>1, <4>1, <4>3 DEF TypeOK
        <4> QED BY <4>2, <4>4
      <3>2. CASE j.tid # 0
        BY <2>4, <2>5, <3>2 DEF Opened
      <3> QED BY <3>1, <3>2
    <2>6. ASSUME NEW q \in Object, NEW n \in Name, OpenWallet(q, n) \/ OpenWalletAsync(q, n) PROVE FALSE
      BY <2>1, <2>6 DEF OpenWallet, OpenWalletAsync, TypeOK
    <2>7. ASSUME NEW q \in Object, DeleteObject(q) PROVE FALSE
      BY <2>1, <2>7, DeletedFacts DEF DeleteObject, TypeOK
    <2>8. ASSUME PromptRefused PROVE FALSE
      BY <2>1, <2>4, <2>8, DeletedFacts DEF PromptRefused, OpenFailed, TypeOK
    <2>9. ASSUME KWalletDDies PROVE FALSE
      BY <2>1, <2>9, DeletedFacts DEF KWalletDDies
    <2>10. ASSUME Opening \/ PromptAccepted PROVE FALSE
      <3>1. jobs \subseteq Job /\ (busy # None => busy \in Job)
        BY DEF TypeOK
      <3>2. ASSUME NEW j \in jobs, ShowPrompt(j) PROVE FALSE
        BY <2>4, <3>2 DEF ShowPrompt, clients
      <3> QED BY <2>5, <2>10, <3>1, <3>2 DEF Opening, OpenUnlocked, PromptAccepted
    <2>11. ~(UNCHANGED objects)
      BY <2>4
    <2> QED
      BY <1>1, <2>2, <2>3, <2>6, <2>7, <2>8, <2>9, <2>10, <2>11
         DEF Next, PromptEnds, Calls, CallCloseWallet, DisconnectApplication, CallCloseAllWallets,
             HandleNotice, Environment, Lock, UnlockByOthers, DeleteWallet, ServiceDies, ServiceStarts,
             KWalletDStarts, vars, clients
  <1> QED BY <1>1, InvariantHolds, PTL DEF Spec, ClosedIsClosed
=============================================================================
