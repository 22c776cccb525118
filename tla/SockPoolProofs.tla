--------------------------- MODULE SockPoolProofs ---------------------------
(***************************************************************************)
(* Proofs about module SockPool, for any number of threads and any initial *)
(* size, growth and maximum.  What SockPool states of users and ids is     *)
(* joined by what a thread between two locks may rely on: Holding, Growth  *)
(* and Ids.                                                                *)
(***************************************************************************)
EXTENDS SockPool, TLAPS

Locations == {"idle", "alloc", "grow", "refetch", "load", "store"}

TypeOK ==
  /\ m_dwNowAllCount \in Nat
  /\ m_ListFree \in Seq(1 .. m_dwNowAllCount)
  /\ m_byRef \in [1 .. m_dwNowAllCount -> {0, 1}]
  /\ m_dwNextId \in Nat
  /\ pc \in [Threads -> Locations]
  /\ obj \in [Threads -> 0 .. m_dwNowAllCount]
  /\ load \in [Threads -> Nat]
  /\ DOMAIN dwSockId \subseteq 1 .. m_dwNowAllCount
  /\ \A o \in DOMAIN dwSockId : dwSockId[o] \in Nat
  /\ stolen \subseteq Threads

\* A thread has an object from FetchObj to SetSockId.
Holding == \A t \in Threads : obj[t] # None <=> pc[t] \in {"load", "store"}

\* The object o is in the list.
Free(o) == \E i \in 1 .. Len(m_ListFree) : m_ListFree[i] = o

\* A thread that _AllocT let through finds the list filled, or room to fill it,
\* or was robbed: all of a pool's growth goes into the list, and whoever takes
\* objects from it robs those who wait.
Growth ==
  /\ m_dwNowAllCount <= MaxCount
  /\ \A t \in Threads :
       pc[t] = "grow" =>
         /\ GrowCount # 0
         /\ m_dwNowAllCount < MaxCount \/ m_ListFree # <<>> \/ t \in stolen
  /\ EmptyOnlyIfStolen

\* While no increments overlap, one thread at most is in the middle of one, what
\* it has read is still the counter, and the counter is past every id in use.
Ids ==
  ~overlapped =>
    /\ \A t \in Threads : pc[t] = "store" => load[t] = m_dwNextId
    /\ \A t, u \in Threads : pc[t] = "store" /\ pc[u] = "store" => t = u
    /\ \A o \in DOMAIN dwSockId : dwSockId[o] < m_dwNextId
    /\ \A o, p \in DOMAIN dwSockId : dwSockId[o] = dwSockId[p] => o = p

IInv == TypeOK /\ Holding /\ PoolConserved /\ Growth /\ Ids

-----------------------------------------------------------------------------
(* Sequences                                                                *)

\* What pop_front leaves.
LEMMA PopFacts ==
  ASSUME NEW S, NEW q \in Seq(S), q # <<>>
  PROVE  /\ Len(q) \in Nat \ {0}
         /\ Head(q) = q[1] /\ Head(q) \in S
         /\ Tail(q) \in Seq(S)
         /\ Len(Tail(q)) = Len(q) - 1
         /\ \A i \in 1 .. Len(q) - 1 : Tail(q)[i] = q[i + 1]
  OBVIOUS

\* What push_back makes.
LEMMA PushFacts ==
  ASSUME NEW S, NEW q \in Seq(S), NEW x \in S
  PROVE  /\ Len(q) \in Nat
         /\ Append(q, x) \in Seq(S)
         /\ Len(Append(q, x)) = Len(q) + 1
         /\ \A i \in 1 .. Len(q) : Append(q, x)[i] = q[i]
         /\ Append(q, x)[Len(q) + 1] = x
         /\ Append(q, x) # <<>>
  OBVIOUS

\* A list is empty when its length is 0.
LEMMA EmptyList ==
  ASSUME NEW S, NEW q \in Seq(S)
  PROVE  /\ Len(q) \in Nat
         /\ q = <<>> <=> Len(q) = 0
  OBVIOUS

-----------------------------------------------------------------------------
(* The initial state                                                        *)

\* A new pool satisfies the invariant.
LEMMA InitInv == Init => IInv
<1> SUFFICES ASSUME Init PROVE IInv
  OBVIOUS
<1> USE PoolAssumption DEF Init
<1>1. /\ m_ListFree \in Seq(1 .. m_dwNowAllCount)
      /\ Len(m_ListFree) = InitCount
      /\ \A i \in 1 .. InitCount : m_ListFree[i] = i
  OBVIOUS
<1>2. DOMAIN dwSockId = {}
  OBVIOUS
<1>3. TypeOK
  BY <1>1, <1>2 DEF TypeOK, Locations, None
<1>4. Holding
  BY DEF Holding, None
<1>5. PoolConserved
  <2>1. InUse = {}
    BY <1>2 DEF InUse, None
  <2> QED
    BY <1>1, <1>2, <2>1 DEF PoolConserved, Objects, None
<1>6. Growth
  BY DEF Growth, EmptyOnlyIfStolen
<1>7. Ids
  BY <1>2 DEF Ids
<1> QED
  BY <1>3, <1>4, <1>5, <1>6, <1>7 DEF IInv

-----------------------------------------------------------------------------
(* Taking and giving back an object, whichever action does it               *)

\* TakeFront keeps the objects conserved.
LEMMA TakeFrontStep ==
  ASSUME IInv, NEW t \in Threads, TakeFront(t),
         pc[t] \notin {"load", "store"}, UNCHANGED dwSockId
  PROVE  /\ m_ListFree' \in Seq(1 .. m_dwNowAllCount)
         /\ m_byRef' \in [1 .. m_dwNowAllCount -> {0, 1}]
         /\ obj' \in [Threads -> 0 .. m_dwNowAllCount]
         /\ Holding' /\ PoolConserved'
<1> DEFINE h == Head(m_ListFree)
           n == Len(m_ListFree)
<1> USE DEF None
<1>1. /\ m_ListFree \in Seq(1 .. m_dwNowAllCount) /\ m_ListFree # <<>>
      /\ m_dwNowAllCount' = m_dwNowAllCount /\ m_dwNowAllCount \in Nat
      /\ m_byRef' = [m_byRef EXCEPT ![h] = 1]
      /\ m_ListFree' = Tail(m_ListFree)
      /\ obj' = [obj EXCEPT ![t] = h]
      /\ pc' = [pc EXCEPT ![t] = "load"]
      /\ obj \in [Threads -> 0 .. m_dwNowAllCount]
      /\ pc \in [Threads -> Locations]
      /\ m_byRef \in [1 .. m_dwNowAllCount -> {0, 1}]
      /\ DOMAIN dwSockId \subseteq 1 .. m_dwNowAllCount
  BY DEF IInv, TypeOK, TakeFront
<1>2. /\ n \in Nat \ {0} /\ h = m_ListFree[1] /\ h \in 1 .. m_dwNowAllCount
      /\ m_ListFree' \in Seq(1 .. m_dwNowAllCount)
      /\ Len(m_ListFree') = n - 1
      /\ \A i \in 1 .. n - 1 : m_ListFree'[i] = m_ListFree[i + 1]
  BY <1>1, PopFacts
<1>3. obj[t] = None
  BY DEF IInv, Holding
<1>4. /\ \A i, j \in 1 .. n : m_ListFree[i] = m_ListFree[j] => i = j
      /\ \A o \in 1 .. m_dwNowAllCount :
           IF Free(o) THEN m_byRef[o] = 0 /\ o \notin InUse
                      ELSE m_byRef[o] = 1 /\ o \in InUse
      /\ \A u, v \in Threads : obj[u] # None /\ obj[u] = obj[v] => u = v
      /\ \A u \in Threads : obj[u] \notin DOMAIN dwSockId
      /\ m_dwNowAllCount <= MaxCount
  BY DEF IInv, PoolConserved, Free, Objects
<1>5. Free(h)
  BY <1>2 DEF Free
<1>6. h \notin InUse
  BY <1>2, <1>4, <1>5
<1>7. \A u \in Threads : obj'[u] = IF u = t THEN h ELSE obj[u]
  BY <1>1
<1>8. InUse' = InUse \cup {h}
  <2>1. \A o : o \in InUse <=> \/ o \in DOMAIN dwSockId
                              \/ \E u \in Threads : obj[u] # None /\ obj[u] = o
    BY DEF InUse
  <2>2. \A o : o \in InUse' <=> \/ o \in DOMAIN dwSockId'
                               \/ \E u \in Threads : obj'[u] # None /\ obj'[u] = o
    BY DEF InUse
  <2>3. h # None
    BY <1>2
  <2>4. \A o : o \in InUse' <=> o \in InUse \/ o = h
    BY <1>3, <1>7, <2>1, <2>2, <2>3
  <2> QED
    BY <2>4
<1>9. \A o : Free(o)' <=> Free(o) /\ o # h
  <2> SUFFICES ASSUME NEW o PROVE Free(o)' <=> Free(o) /\ o # h
    OBVIOUS
  <2>1. ASSUME Free(o)' PROVE Free(o) /\ o # h
    <3>1. PICK i \in 1 .. n - 1 : m_ListFree'[i] = o
      BY <1>2, <2>1 DEF Free
    <3>2. m_ListFree[i + 1] = o /\ i + 1 \in 1 .. n /\ i + 1 # 1 /\ 1 \in 1 .. n
      BY <1>2, <3>1
    <3> QED
      BY <1>2, <1>4, <3>2 DEF Free
  <2>2. ASSUME Free(o), o # h PROVE Free(o)'
    <3>1. PICK i \in 1 .. n : m_ListFree[i] = o
      BY <2>2 DEF Free
    <3>2. i # 1 /\ i - 1 \in 1 .. n - 1
      BY <1>2, <2>2, <3>1
    <3>3. m_ListFree'[i - 1] = o
      BY <1>2, <3>1, <3>2
    <3> QED
      BY <1>2, <3>2, <3>3 DEF Free
  <2> QED
    BY <2>1, <2>2
<1>10. Holding'
  BY <1>1, <1>2, <1>7 DEF IInv, Holding
<1>11. PoolConserved'
  <2>1. \A i, j \in 1 .. Len(m_ListFree') : m_ListFree'[i] = m_ListFree'[j] => i = j
    BY <1>2, <1>4
  <2>2. \A o \in 1 .. m_dwNowAllCount :
          IF Free(o)' THEN m_byRef'[o] = 0 /\ o \notin InUse'
                      ELSE m_byRef'[o] = 1 /\ o \in InUse'
    BY <1>1, <1>2, <1>4, <1>6, <1>8, <1>9
  <2>3. h # None /\ \A u \in Threads : obj[u] # None => obj[u] # h
    BY <1>2, <1>6 DEF InUse
  <2>4. \A u, v \in Threads : obj'[u] # None /\ obj'[u] = obj'[v] => u = v
    BY <1>4, <1>7, <2>3
  <2>5. \A u \in Threads : obj'[u] \notin DOMAIN dwSockId'
    BY <1>4, <1>6, <1>7 DEF InUse
  <2> QED
    BY <1>1, <1>4, <2>1, <2>2, <2>4, <2>5 DEF PoolConserved, Free, Objects
<1> QED
  BY <1>1, <1>2, <1>10, <1>11

\* A step that touches neither the pool nor who has an object.
LEMMA SameObjects ==
  ASSUME PoolConserved, UNCHANGED <<poolVars, obj, dwSockId>>
  PROVE  PoolConserved'
<1>1. InUse' = InUse
  BY DEF InUse
<1> QED
  BY <1>1 DEF PoolConserved, Objects, poolVars

\* An object whose only user gives it back goes to the end of the list.
LEMMA GiveBackStep ==
  ASSUME IInv, NEW o \in 1 .. m_dwNowAllCount, o \in InUse,
         UNCHANGED m_dwNowAllCount,
         m_ListFree' = Append(m_ListFree, o),
         m_byRef' = [m_byRef EXCEPT ![o] = 0],
         InUse' = InUse \ {o}
  PROVE  /\ m_ListFree' \in Seq(1 .. m_dwNowAllCount) /\ m_ListFree' # <<>>
         /\ m_byRef' \in [1 .. m_dwNowAllCount -> {0, 1}]
         /\ \A i, j \in 1 .. Len(m_ListFree') :
              m_ListFree'[i] = m_ListFree'[j] => i = j
         /\ \A p \in 1 .. m_dwNowAllCount :
              IF Free(p)' THEN m_byRef'[p] = 0 /\ p \notin InUse'
                          ELSE m_byRef'[p] = 1 /\ p \in InUse'
<1> DEFINE n == Len(m_ListFree)
<1>1. /\ m_ListFree \in Seq(1 .. m_dwNowAllCount)
      /\ m_byRef \in [1 .. m_dwNowAllCount -> {0, 1}]
  BY DEF IInv, TypeOK
<1>2. /\ n \in Nat
      /\ m_ListFree' \in Seq(1 .. m_dwNowAllCount)
      /\ Len(m_ListFree') = n + 1
      /\ \A i \in 1 .. n : m_ListFree'[i] = m_ListFree[i]
      /\ m_ListFree'[n + 1] = o
      /\ m_ListFree' # <<>>
  BY <1>1, PushFacts
<1>3. /\ \A i, j \in 1 .. n : m_ListFree[i] = m_ListFree[j] => i = j
      /\ \A p \in 1 .. m_dwNowAllCount :
           IF Free(p) THEN m_byRef[p] = 0 /\ p \notin InUse
                      ELSE m_byRef[p] = 1 /\ p \in InUse
  BY DEF IInv, PoolConserved, Free, Objects
<1>4. \A i \in 1 .. n : m_ListFree[i] # o
  BY <1>3 DEF Free
<1>5. \A i, j \in 1 .. Len(m_ListFree') : m_ListFree'[i] = m_ListFree'[j] => i = j
  BY <1>2, <1>3, <1>4
<1>6. \A p : Free(p)' <=> Free(p) \/ p = o
  <2> SUFFICES ASSUME NEW p PROVE Free(p)' <=> Free(p) \/ p = o
    OBVIOUS
  <2>1. \A i : i \in 1 .. n + 1 <=> i \in 1 .. n \/ i = n + 1
    BY <1>2
  <2> QED
    BY <1>2, <2>1 DEF Free
<1>7. \A p \in 1 .. m_dwNowAllCount :
        m_byRef'[p] = IF p = o THEN 0 ELSE m_byRef[p]
  BY <1>1
<1>8. \A p \in 1 .. m_dwNowAllCount :
        IF Free(p)' THEN m_byRef'[p] = 0 /\ p \notin InUse'
                    ELSE m_byRef'[p] = 1 /\ p \in InUse'
  BY <1>3, <1>6, <1>7
<1> QED
  BY <1>1, <1>2, <1>5, <1>8

-----------------------------------------------------------------------------
(* The actions                                                              *)

\* Giving up: the thread leaves, and nothing else changes.
LEMMA GiveUpStep ==
  ASSUME IInv, NEW t \in Threads, GiveUp(t), pc[t] \notin {"load", "store"},
         UNCHANGED <<m_dwNextId, load, dwSockId, overlapped>>
  PROVE  IInv'
<1> USE DEF GiveUp, IInv, poolVars
<1>1. TypeOK'
  BY DEF TypeOK, Locations
<1>2. Holding'
  BY DEF TypeOK, Holding, None
<1>3. PoolConserved'
  BY SameObjects
<1>4. Growth'
  BY DEF TypeOK, Growth, EmptyOnlyIfStolen
<1>5. Ids'
  BY DEF TypeOK, Ids
<1> QED
  BY <1>1, <1>2, <1>3, <1>4, <1>5

\* Taking the front object, with the rest of FetchObj.
LEMMA TakeStep ==
  ASSUME IInv, NEW t \in Threads, TakeFront(t), pc[t] \notin {"load", "store"},
         UNCHANGED <<m_dwNextId, load, dwSockId, overlapped>>
  PROVE  IInv'
<1>1. /\ m_ListFree' \in Seq(1 .. m_dwNowAllCount)
      /\ m_byRef' \in [1 .. m_dwNowAllCount -> {0, 1}]
      /\ obj' \in [Threads -> 0 .. m_dwNowAllCount]
      /\ Holding' /\ PoolConserved'
  BY TakeFrontStep
<1>2. /\ m_dwNowAllCount' = m_dwNowAllCount
      /\ pc' = [pc EXCEPT ![t] = "load"]
      /\ stolen' = (stolen \cup Growing) \ {t}
  BY DEF TakeFront
<1>3. TypeOK'
  BY <1>1, <1>2 DEF IInv, TypeOK, Locations, Growing
<1>4. Growth'
  BY <1>2 DEF IInv, TypeOK, Growth, EmptyOnlyIfStolen, Growing
<1>5. Ids'
  BY <1>2 DEF IInv, TypeOK, Ids
<1> QED
  BY <1>1, <1>3, <1>4, <1>5 DEF IInv

\* The pc of one thread moves among the places of FetchObj, and nothing else.
LEMMA MoveStep ==
  ASSUME IInv, NEW t \in Threads, NEW l \in {"alloc", "grow"},
         pc[t] \in {"idle", "alloc"},
         pc' = [pc EXCEPT ![t] = l],
         l = "grow" => GrowCount # 0 /\ m_dwNowAllCount < MaxCount,
         UNCHANGED <<poolVars, obj, stolen, m_dwNextId, load, dwSockId,
                     overlapped>>
  PROVE  IInv'
<1> USE DEF IInv, poolVars
<1>1. TypeOK'
  BY DEF TypeOK, Locations
<1>2. Holding'
  BY DEF TypeOK, Holding
<1>3. PoolConserved'
  BY SameObjects
<1>4. Growth'
  BY DEF TypeOK, Growth, EmptyOnlyIfStolen
<1>5. Ids'
  BY DEF TypeOK, Ids
<1> QED
  BY <1>1, <1>2, <1>3, <1>4, <1>5

\* The first look at the list.
LEMMA FetchObjStep ==
  ASSUME IInv, NEW t \in Threads, FetchObj(t) PROVE IInv'
<1>1. pc[t] = "idle" /\ UNCHANGED <<m_dwNextId, load, dwSockId, overlapped>>
  BY DEF FetchObj
<1>2. CASE TakeFront(t)
  BY <1>1, <1>2, TakeStep
<1>3. CASE FrontInUse(t)
  BY <1>1, <1>3, GiveUpStep DEF FrontInUse
<1>4. CASE /\ pc' = [pc EXCEPT ![t] = "alloc"]
           /\ UNCHANGED <<poolVars, obj, stolen, undefined>>
  BY <1>1, <1>4, MoveStep
<1> QED
  BY <1>2, <1>3, <1>4 DEF FetchObj

\* _AllocT before its lock.
LEMMA AllocCheckStep ==
  ASSUME IInv, NEW t \in Threads, AllocCheck(t) PROVE IInv'
<1>1. pc[t] = "alloc" /\ UNCHANGED <<m_dwNextId, load, dwSockId, overlapped>>
  BY DEF AllocCheck
<1>2. CASE GiveUp(t)
  BY <1>1, <1>2, GiveUpStep
<1>3. CASE /\ GrowCount # 0 /\ ~AtMaximum
           /\ pc' = [pc EXCEPT ![t] = "grow"]
           /\ UNCHANGED <<poolVars, obj, stolen, undefined>>
  <2>1. m_dwNowAllCount < MaxCount
    BY <1>3, PoolAssumption DEF AtMaximum, IInv, TypeOK
  <2> QED
    BY <1>1, <1>3, <2>1, MoveStep
<1> QED
  BY <1>2, <1>3 DEF AllocCheck

\* A list grown, by however many objects, is conserved; and it is filled unless
\* the maximum was reached before, which makes the thread one that was robbed.
LEMMA AllocTStep ==
  ASSUME IInv, NEW t \in Threads, AllocT(t) PROVE IInv'
<1> DEFINE k == NewCount
           c == m_dwNowAllCount
<1>1. /\ pc[t] = "grow" /\ pc' = [pc EXCEPT ![t] = "refetch"]
      /\ UNCHANGED <<m_dwNextId, obj, load, dwSockId, stolen, overlapped>>
  BY DEF AllocT
<1>2. Ids'
  BY <1>1 DEF IInv, TypeOK, Ids
<1>3. Holding'
  BY <1>1 DEF IInv, TypeOK, Holding
<1>4. CASE m_ListFree # <<>> /\ UNCHANGED poolVars
  <2>1. TypeOK'
    BY <1>1, <1>4 DEF IInv, TypeOK, Locations, poolVars
  <2>2. PoolConserved'
    BY <1>1, <1>4, SameObjects DEF IInv
  <2>3. Growth'
    BY <1>1, <1>4 DEF IInv, TypeOK, Growth, EmptyOnlyIfStolen, poolVars
  <2> QED
    BY <1>2, <1>3, <2>1, <2>2, <2>3 DEF IInv
<1>5. CASE /\ m_ListFree = <<>>
           /\ c' = c + k
           /\ m_ListFree' = [i \in 1 .. k |-> c + i]
           /\ m_byRef' = [o \in 1 .. c + k |->
                            IF o \in Objects THEN m_byRef[o] ELSE 0]
  <2>1. /\ c \in Nat /\ c <= MaxCount /\ k \in Nat /\ c + k <= MaxCount
        /\ GrowCount # 0
        /\ c < MaxCount => k > 0
    BY <1>1, PoolAssumption DEF IInv, TypeOK, Growth, NewCount
  <2>2. /\ m_ListFree' \in Seq(1 .. c + k) /\ Len(m_ListFree') = k
        /\ \A i \in 1 .. k : m_ListFree'[i] = c + i
    BY <1>5, <2>1
  <2>3. /\ m_byRef' \in [1 .. c + k -> {0, 1}]
        /\ \A o \in 1 .. c + k : m_byRef'[o] = IF o <= c THEN m_byRef[o] ELSE 0
    BY <1>5, <2>1 DEF IInv, TypeOK, Objects
  <2>4. TypeOK'
    <3>1. obj' \in [Threads -> 0 .. c + k]
      BY <1>1, <2>1 DEF IInv, TypeOK
    <3>2. DOMAIN dwSockId' \subseteq 1 .. c + k
      BY <1>1, <2>1 DEF IInv, TypeOK
    <3> QED
      BY <1>1, <1>5, <2>1, <2>2, <2>3, <3>1, <3>2 DEF IInv, TypeOK, Locations
  <2>5. PoolConserved'
    <3>1. InUse' = InUse /\ InUse \subseteq 1 .. c
      BY <1>1 DEF InUse, IInv, TypeOK, None
    <3>2. \A o \in 1 .. c + k : Free(o)' <=> o > c
      <4> SUFFICES ASSUME NEW o \in 1 .. c + k PROVE Free(o)' <=> o > c
        OBVIOUS
      <4>1. ASSUME o > c PROVE Free(o)'
        <5>1. o - c \in 1 .. k /\ m_ListFree'[o - c] = o
          BY <2>1, <2>2, <4>1
        <5> QED
          BY <2>2, <5>1 DEF Free
      <4> QED
        BY <2>1, <2>2, <4>1 DEF Free
    <3>3. \A o \in 1 .. c : m_byRef[o] = 1 /\ o \in InUse
      <4>1. \A o \in 1 .. c : ~Free(o)
        BY <1>5, EmptyList DEF Free, IInv, TypeOK
      <4> QED
        BY <4>1 DEF IInv, PoolConserved, Free, Objects
    <3>4. \A o \in 1 .. c + k :
            IF Free(o)' THEN m_byRef'[o] = 0 /\ o \notin InUse'
                        ELSE m_byRef'[o] = 1 /\ o \in InUse'
      BY <2>1, <2>3, <3>1, <3>2, <3>3
    <3>5. \A i, j \in 1 .. Len(m_ListFree') :
            m_ListFree'[i] = m_ListFree'[j] => i = j
      BY <2>1, <2>2
    <3> QED
      BY <1>1, <1>5, <2>1, <3>4, <3>5 DEF IInv, PoolConserved, Free, Objects
  <2>6. Growth'
    <3>1. k > 0 => m_ListFree' # <<>>
      BY <2>1, <2>2
    <3>2. k = 0 => c' = c /\ m_ListFree' = <<>>
      BY <1>5, <2>1, <2>2
    <3> QED
      BY <1>1, <1>5, <2>1, <3>1, <3>2
         DEF IInv, TypeOK, Growth, EmptyOnlyIfStolen
  <2> QED
    BY <1>2, <1>3, <2>4, <2>5, <2>6 DEF IInv
<1> QED
  BY <1>4, <1>5 DEF AllocT

\* The second look at the list, which may be empty by now.
LEMMA FetchAgainStep ==
  ASSUME IInv, NEW t \in Threads, FetchAgain(t) PROVE IInv'
<1>1. pc[t] = "refetch" /\ UNCHANGED <<m_dwNextId, load, dwSockId, overlapped>>
  BY DEF FetchAgain
<1>2. CASE TakeFront(t)
  BY <1>1, <1>2, TakeStep
<1>3. CASE FrontInUse(t)
  BY <1>1, <1>3, GiveUpStep DEF FrontInUse
<1>4. CASE FrontOfEmpty(t)
  <2>1. CASE GiveUp(t)
    BY <1>1, <2>1, GiveUpStep
  <2>2. CASE UNCHANGED <<poolVars, pc, obj, stolen>>
    <3>1. PoolConserved'
      BY <1>1, <2>2, SameObjects DEF IInv
    <3>2. TypeOK' /\ Holding' /\ Growth' /\ Ids'
      BY <1>1, <2>2
         DEF IInv, TypeOK, Holding, Growth, EmptyOnlyIfStolen, Ids, poolVars
    <3> QED
      BY <3>1, <3>2 DEF IInv
  <2> QED
    BY <1>4, <2>1, <2>2 DEF FrontOfEmpty
<1> QED
  BY <1>2, <1>3, <1>4 DEF FetchAgain

\* A socket that cannot be set up goes back.
LEMMA InitFailsStep ==
  ASSUME IInv, NEW t \in Threads, InitFails(t) PROVE IInv'
<1> DEFINE o == obj[t]
<1>1. /\ pc[t] = "load" /\ pc' = [pc EXCEPT ![t] = "idle"]
      /\ obj' = [obj EXCEPT ![t] = None]
      /\ m_byRef' = [m_byRef EXCEPT ![o] = 0]
      /\ m_ListFree' = Append(m_ListFree, o)
      /\ UNCHANGED <<m_dwNowAllCount, m_dwNextId, load, dwSockId, stolen,
                     overlapped>>
  BY DEF InitFails
<1>2. /\ m_dwNowAllCount \in Nat /\ obj \in [Threads -> 0 .. m_dwNowAllCount]
      /\ o # None /\ o \in 1 .. m_dwNowAllCount
      /\ \A u \in Threads : obj'[u] = IF u = t THEN None ELSE obj[u]
  BY <1>1 DEF IInv, TypeOK, Holding, None
<1>3. /\ \A u, v \in Threads : obj[u] # None /\ obj[u] = obj[v] => u = v
      /\ \A u \in Threads : obj[u] \notin DOMAIN dwSockId
  BY DEF IInv, PoolConserved
<1>4. o \in InUse /\ InUse' = InUse \ {o}
  <2>1. \A p : p \in InUse <=> \/ p \in DOMAIN dwSockId
                              \/ \E u \in Threads : obj[u] # None /\ obj[u] = p
    BY DEF InUse
  <2>2. \A p : p \in InUse' <=> \/ p \in DOMAIN dwSockId
                               \/ \E u \in Threads : obj'[u] # None /\ obj'[u] = p
    BY <1>1 DEF InUse
  <2>3. \A p : p \in InUse' <=> p \in InUse /\ p # o
    BY <1>2, <1>3, <2>1, <2>2
  <2> QED
    BY <1>2, <2>1, <2>3
<1>5. /\ m_ListFree' \in Seq(1 .. m_dwNowAllCount) /\ m_ListFree' # <<>>
      /\ m_byRef' \in [1 .. m_dwNowAllCount -> {0, 1}]
      /\ \A i, j \in 1 .. Len(m_ListFree') :
           m_ListFree'[i] = m_ListFree'[j] => i = j
      /\ \A p \in 1 .. m_dwNowAllCount :
           IF Free(p)' THEN m_byRef'[p] = 0 /\ p \notin InUse'
                       ELSE m_byRef'[p] = 1 /\ p \in InUse'
  BY <1>1, <1>2, <1>4, GiveBackStep
<1>6. TypeOK'
  <2>1. obj' \in [Threads -> 0 .. m_dwNowAllCount]
    BY <1>1, <1>2 DEF None
  <2> QED
    BY <1>1, <1>5, <2>1 DEF IInv, TypeOK, Locations
<1>7. Holding'
  BY <1>1, <1>2 DEF IInv, TypeOK, Holding
<1>8. PoolConserved'
  <2>1. \A u \in Threads : obj'[u] \notin DOMAIN dwSockId'
    BY <1>1, <1>2, <1>3 DEF IInv, TypeOK, None
  <2>2. \A u, v \in Threads : obj'[u] # None /\ obj'[u] = obj'[v] => u = v
    BY <1>2, <1>3
  <2>3. m_dwNowAllCount' <= MaxCount
    BY <1>1 DEF IInv, Growth
  <2> QED
    BY <1>1, <1>5, <2>1, <2>2, <2>3 DEF PoolConserved, Free, Objects
<1>9. Growth' /\ Ids'
  BY <1>1, <1>5 DEF IInv, TypeOK, Growth, EmptyOnlyIfStolen, Ids
<1> QED
  BY <1>6, <1>7, <1>8, <1>9 DEF IInv

\* The increment reads the counter: two in the middle of it overlap.
LEMMA LoadIdStep ==
  ASSUME IInv, NEW t \in Threads, LoadId(t) PROVE IInv'
<1> USE DEF LoadId, IInv, poolVars
<1>1. TypeOK' /\ Holding' /\ Growth'
  BY DEF TypeOK, Locations, Holding, Growth, EmptyOnlyIfStolen
<1>2. PoolConserved'
  BY SameObjects
<1>3. Ids'
  BY DEF TypeOK, Ids
<1> QED
  BY <1>1, <1>2, <1>3

\* It writes the counter, and the object passes from its thread to use.
LEMMA StoreIdStep ==
  ASSUME IInv, NEW t \in Threads, StoreId(t) PROVE IInv'
<1> DEFINE x == obj[t]
<1>1. /\ pc[t] = "store" /\ pc' = [pc EXCEPT ![t] = "idle"]
      /\ obj' = [obj EXCEPT ![t] = None]
      /\ m_dwNextId' = load[t] + 1
      /\ dwSockId' = [o \in DOMAIN dwSockId \cup {x} |->
                        IF o = x THEN load[t] ELSE dwSockId[o]]
      /\ UNCHANGED <<poolVars, load, stolen, overlapped>>
  BY DEF StoreId, Increment
<1>2. /\ m_dwNowAllCount \in Nat /\ obj \in [Threads -> 0 .. m_dwNowAllCount]
      /\ x # None /\ x \in 1 .. m_dwNowAllCount /\ load[t] \in Nat
      /\ \A u \in Threads : obj'[u] = IF u = t THEN None ELSE obj[u]
  BY <1>1 DEF IInv, TypeOK, Holding, None
<1>3. /\ DOMAIN dwSockId' = DOMAIN dwSockId \cup {x}
      /\ \A o \in DOMAIN dwSockId' :
           dwSockId'[o] = IF o = x THEN load[t] ELSE dwSockId[o]
  BY <1>1
<1>4. /\ \A u, v \in Threads : obj[u] # None /\ obj[u] = obj[v] => u = v
      /\ \A u \in Threads : obj[u] \notin DOMAIN dwSockId
  BY DEF IInv, PoolConserved
<1>5. TypeOK'
  <2>1. /\ obj' \in [Threads -> 0 .. m_dwNowAllCount]
        /\ DOMAIN dwSockId' \subseteq 1 .. m_dwNowAllCount
        /\ \A o \in DOMAIN dwSockId' : dwSockId'[o] \in Nat
    BY <1>1, <1>2, <1>3 DEF None, IInv, TypeOK
  <2> QED
    BY <1>1, <1>2, <2>1 DEF IInv, TypeOK, Locations, poolVars
<1>6. Holding'
  BY <1>1, <1>2 DEF IInv, TypeOK, Holding
<1>7. PoolConserved'
  <2>1. InUse' = InUse
    <3>1. \A p : p \in InUse <=> \/ p \in DOMAIN dwSockId
                                \/ \E u \in Threads : obj[u] # None /\ obj[u] = p
      BY DEF InUse
    <3>2. \A p : p \in InUse' <=> \/ p \in DOMAIN dwSockId'
                                 \/ \E u \in Threads : obj'[u] # None /\ obj'[u] = p
      BY DEF InUse
    <3>3. \A p : p \in InUse' <=> p \in InUse
      BY <1>2, <1>3, <3>1, <3>2
    <3> QED
      BY <3>3
  <2>2. \A u \in Threads : obj'[u] \notin DOMAIN dwSockId'
    BY <1>2, <1>3, <1>4 DEF IInv, TypeOK, None
  <2>3. \A u, v \in Threads : obj'[u] # None /\ obj'[u] = obj'[v] => u = v
    BY <1>2, <1>4
  <2> QED
    BY <1>1, <2>1, <2>2, <2>3 DEF IInv, PoolConserved, Objects, poolVars
<1>8. Growth'
  BY <1>1 DEF IInv, TypeOK, Growth, EmptyOnlyIfStolen, poolVars
<1>9. Ids'
  <2> SUFFICES ASSUME ~overlapped
               PROVE  Ids'
    BY <1>1 DEF Ids
  <2>1. /\ load[t] = m_dwNextId
        /\ \A u \in Threads : pc'[u] # "store"
        /\ \A o \in DOMAIN dwSockId : dwSockId[o] < m_dwNextId
        /\ \A o, p \in DOMAIN dwSockId : dwSockId[o] = dwSockId[p] => o = p
        /\ \A o \in DOMAIN dwSockId : dwSockId[o] \in Nat
    BY <1>1 DEF IInv, TypeOK, Ids
  <2> QED
    BY <1>1, <1>2, <1>3, <2>1 DEF Ids
<1> QED
  BY <1>5, <1>6, <1>7, <1>8, <1>9 DEF IInv

\* A socket in use goes back.
LEMMA ReleaseObjStep ==
  ASSUME IInv, NEW o \in Objects, ReleaseObj(o) PROVE IInv'
<1>1. /\ o \in DOMAIN dwSockId
      /\ m_byRef' = [m_byRef EXCEPT ![o] = 0]
      /\ m_ListFree' = Append(m_ListFree, o)
      /\ dwSockId' = [p \in DOMAIN dwSockId \ {o} |-> dwSockId[p]]
      /\ UNCHANGED <<m_dwNowAllCount, m_dwNextId, pc, obj, load, stolen,
                     overlapped>>
  BY DEF ReleaseObj
<1>2. o \in 1 .. m_dwNowAllCount
  BY DEF Objects
<1>3. /\ DOMAIN dwSockId' = DOMAIN dwSockId \ {o}
      /\ \A p \in DOMAIN dwSockId' : dwSockId'[p] = dwSockId[p]
  BY <1>1
<1>4. o \in InUse /\ InUse' = InUse \ {o}
  <2>1. \A p : p \in InUse <=> \/ p \in DOMAIN dwSockId
                              \/ \E u \in Threads : obj[u] # None /\ obj[u] = p
    BY DEF InUse
  <2>2. \A p : p \in InUse' <=> \/ p \in DOMAIN dwSockId'
                               \/ \E u \in Threads : obj[u] # None /\ obj[u] = p
    BY <1>1 DEF InUse
  <2>3. \A u \in Threads : obj[u] # o
    BY <1>1 DEF IInv, PoolConserved
  <2>4. \A p : p \in InUse' <=> p \in InUse /\ p # o
    BY <1>3, <2>1, <2>2, <2>3
  <2> QED
    BY <1>1, <2>1, <2>4
<1>5. /\ m_ListFree' \in Seq(1 .. m_dwNowAllCount) /\ m_ListFree' # <<>>
      /\ m_byRef' \in [1 .. m_dwNowAllCount -> {0, 1}]
      /\ \A i, j \in 1 .. Len(m_ListFree') :
           m_ListFree'[i] = m_ListFree'[j] => i = j
      /\ \A p \in 1 .. m_dwNowAllCount :
           IF Free(p)' THEN m_byRef'[p] = 0 /\ p \notin InUse'
                       ELSE m_byRef'[p] = 1 /\ p \in InUse'
  BY <1>1, <1>2, <1>4, GiveBackStep
<1>6. TypeOK'
  BY <1>1, <1>3, <1>5 DEF IInv, TypeOK
<1>7. PoolConserved'
  BY <1>1, <1>3, <1>5 DEF IInv, PoolConserved, Free, Objects
<1>8. Holding' /\ Growth'
  BY <1>1, <1>5 DEF IInv, Holding, Growth, EmptyOnlyIfStolen
<1>9. Ids'
  BY <1>1, <1>3 DEF IInv, Ids
<1> QED
  BY <1>6, <1>7, <1>8, <1>9 DEF IInv

\* Every step keeps the invariant.
LEMMA StepInv == IInv /\ [Next]_vars => IInv'
<1> SUFFICES ASSUME IInv, [Next]_vars PROVE IInv'
  OBVIOUS
<1>1. ASSUME NEW t \in Threads, FetchObj(t) PROVE IInv'
  BY <1>1, FetchObjStep
<1>2. ASSUME NEW t \in Threads, AllocCheck(t) PROVE IInv'
  BY <1>2, AllocCheckStep
<1>3. ASSUME NEW t \in Threads, AllocT(t) PROVE IInv'
  BY <1>3, AllocTStep
<1>4. ASSUME NEW t \in Threads, FetchAgain(t) PROVE IInv'
  BY <1>4, FetchAgainStep
<1>5. ASSUME NEW t \in Threads, InitFails(t) PROVE IInv'
  BY <1>5, InitFailsStep
<1>6. ASSUME NEW t \in Threads, LoadId(t) PROVE IInv'
  BY <1>6, LoadIdStep
<1>7. ASSUME NEW t \in Threads, StoreId(t) PROVE IInv'
  BY <1>7, StoreIdStep
<1>8. ASSUME NEW o \in Objects, ReleaseObj(o) PROVE IInv'
  BY <1>8, ReleaseObjStep
<1>9. CASE UNCHANGED vars
  <2>1. PoolConserved'
    BY <1>9, SameObjects DEF IInv, vars, poolVars
  <2>2. TypeOK' /\ Holding' /\ Growth' /\ Ids'
    BY <1>9
       DEF IInv, TypeOK, Holding, Growth, EmptyOnlyIfStolen, Ids, vars, poolVars
  <2> QED
    BY <2>1, <2>2 DEF IInv
<1> QED
  BY <1>1, <1>2, <1>3, <1>4, <1>5, <1>6, <1>7, <1>8, <1>9 DEF Next

-----------------------------------------------------------------------------
(* The theorems                                                             *)

\* The invariant holds of every behaviour.
LEMMA Invariance == Spec => []IInv
<1> QED
  BY InitInv, StepInv, PTL DEF Spec

\* FetchObj leaves its lock to grow the pool, and still no object is lost, none
\* has two users, and the pool keeps to its maximum.
THEOREM PoolConservedCorrect == Spec => []PoolConserved
<1>1. IInv => PoolConserved
  BY DEF IInv
<1> QED
  BY <1>1, Invariance, PTL

\* front() is called on an empty list only by a thread that was robbed between
\* its two looks at the list.
THEOREM EmptyOnlyIfStolenCorrect == Spec => []EmptyOnlyIfStolen
<1>1. IInv => EmptyOnlyIfStolen
  BY DEF IInv, Growth
<1> QED
  BY <1>1, Invariance, PTL

\* m_dwNextId++ without a lock gives two sockets in use one id only after two of
\* them overlapped.
THEOREM IdsUniqueCorrect == Spec => []IdsUnique
<1>1. IInv => IdsUnique
  BY DEF IInv, Ids, IdsUnique
<1> QED
  BY <1>1, Invariance, PTL
=============================================================================
