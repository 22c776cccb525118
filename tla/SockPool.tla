------------------------------ MODULE SockPool ------------------------------
(***************************************************************************)
(* The socket pool: TDynamicPoolEx (src/Server/meta_header/                *)
(* dynamicpoolex.h) as FxMySockMgr uses it (src/Server/Net/sockmgr.cpp).   *)
(* The main thread (Connect) and the IO threads (OnAccept) create sockets, *)
(* and each gets the next number as its id; sockets go back when their     *)
(* RELEASE event is run.                                                   *)
(*                                                                         *)
(* Every method locks m_pFreeLock, so that a locked section is one step;   *)
(* but FetchObj gives the lock up to call _AllocT, _AllocT looks at        *)
(* m_dwNowAllCount before it locks, and m_dwNextId++ takes no lock at all. *)
(* Objects are numbered as they are allocated.                             *)
(***************************************************************************)
EXTENDS Integers, Sequences

CONSTANTS
  Threads,      \* the threads that create sockets
  InitCount,    \* dwInitCount
  GrowCount,    \* dwGrowCount
  MaxCount,     \* dwMaxCount: MAX_SOCKET_COUNT
  MaxFetch      \* bound: sockets created

ASSUME PoolAssumption ==
  /\ InitCount \in Nat \ {0} /\ GrowCount \in Nat
  /\ MaxCount \in Nat /\ InitCount <= MaxCount
  /\ MaxFetch \in Nat

VARIABLES
  m_ListFree,
  m_dwNowAllCount,
  m_byRef,       \* of every object that is allocated
  m_dwNextId,
  pc,            \* where each thread stands in CreateCommonTcp
  obj,           \* the object it has fetched
  load,          \* the m_dwNextId it has read
  dwSockId,      \* of every socket in use
  nFetch,        \* sockets begun
  stolen,        \* history: threads that found the list empty and since when
                 \* another thread has taken an object
  overlapped,    \* history: two m_dwNextId++ have overlapped
  undefined      \* front() of an empty list has returned garbage

poolVars == <<m_ListFree, m_dwNowAllCount, m_byRef>>
vars == <<poolVars, m_dwNextId, pc, obj, load, dwSockId, nFetch, stolen,
          overlapped, undefined>>

None == 0                       \* NULL
Objects == 1 .. m_dwNowAllCount

Init ==
  /\ m_dwNowAllCount = InitCount
  /\ m_ListFree = [i \in 1 .. InitCount |-> i]
  /\ m_byRef = [o \in 1 .. InitCount |-> 0]
  /\ m_dwNextId = 0
  /\ pc = [t \in Threads |-> "idle"]
  /\ obj = [t \in Threads |-> None]
  /\ load = [t \in Threads |-> 0]
  /\ dwSockId = [o \in {} |-> 0]
  /\ nFetch = 0
  /\ stolen = {} /\ overlapped = FALSE /\ undefined = FALSE

-----------------------------------------------------------------------------
(* Slips that the properties must notice; no part of the model.             *)

AtMaximum_Never == FALSE
NewCount_Grow == GrowCount
Increment_Lost(id) == id

-----------------------------------------------------------------------------
(* FetchObj and _AllocT                                                     *)

\* The threads that are between finding the list empty and looking again.
Growing == {u \in Threads : pc[u] \in {"alloc", "grow", "refetch"}}

\* Take the front of the list for thread t.
TakeFront(t) ==
  /\ m_ListFree # <<>>
  /\ m_byRef[Head(m_ListFree)] = 0
  /\ m_byRef' = [m_byRef EXCEPT ![Head(m_ListFree)] = 1]
  /\ m_ListFree' = Tail(m_ListFree)
  /\ obj' = [obj EXCEPT ![t] = Head(m_ListFree)]
  /\ pc' = [pc EXCEPT ![t] = "load"]
  /\ stolen' = (stolen \cup Growing) \ {t}
  /\ UNCHANGED <<m_dwNowAllCount, undefined>>

\* FetchObj returns NULL, and so does CreateCommonTcp.
GiveUp(t) ==
  /\ pc' = [pc EXCEPT ![t] = "idle"]
  /\ stolen' = stolen \ {t}
  /\ UNCHANGED <<poolVars, obj, undefined>>

\* The front object is in use: its last release went wrong.
FrontInUse(t) ==
  /\ m_ListFree # <<>>
  /\ m_byRef[Head(m_ListFree)] # 0
  /\ GiveUp(t)

\* The first look at the list.
FetchObj(t) ==
  /\ ~undefined
  /\ pc[t] = "idle"
  /\ nFetch < MaxFetch
  /\ nFetch' = nFetch + 1
  /\ \/ TakeFront(t)
     \/ FrontInUse(t)
     \/ /\ m_ListFree = <<>>
        /\ pc' = [pc EXCEPT ![t] = "alloc"]
        /\ UNCHANGED <<poolVars, obj, stolen, undefined>>
  /\ UNCHANGED <<m_dwNextId, load, dwSockId, overlapped>>

\* _AllocT will not grow the pool.  (A dwMaxCount of 0 is no limit; no pool of
\* the network library has that.)
AtMaximum == m_dwNowAllCount >= MaxCount

\* _AllocT before it locks.
AllocCheck(t) ==
  /\ ~undefined
  /\ pc[t] = "alloc"
  /\ \/ (GrowCount = 0 \/ AtMaximum) /\ GiveUp(t)
     \/ /\ GrowCount # 0 /\ ~AtMaximum
        /\ pc' = [pc EXCEPT ![t] = "grow"]
        /\ UNCHANGED <<poolVars, obj, stolen, undefined>>
  /\ UNCHANGED <<m_dwNextId, load, dwSockId, nFetch, overlapped>>

\* How many objects are allocated: possibly none.
NewCount == IF GrowCount + m_dwNowAllCount >= MaxCount
              THEN MaxCount - m_dwNowAllCount ELSE GrowCount

\* _AllocT with the lock: it looks again, and allocates.
AllocT(t) ==
  /\ ~undefined
  /\ pc[t] = "grow"
  /\ pc' = [pc EXCEPT ![t] = "refetch"]
  /\ \/ m_ListFree # <<>> /\ UNCHANGED poolVars
     \/ /\ m_ListFree = <<>>
        /\ m_dwNowAllCount' = m_dwNowAllCount + NewCount
        /\ m_ListFree' = [i \in 1 .. NewCount |-> m_dwNowAllCount + i]
        /\ m_byRef' = [o \in 1 .. m_dwNowAllCount + NewCount |->
                         IF o \in Objects THEN m_byRef[o] ELSE 0]
  /\ UNCHANGED <<m_dwNextId, obj, load, dwSockId, nFetch, stolen, overlapped,
                 undefined>>

\* front() of an empty deque reads the cell where the next push_back would
\* write: NULL, an object that was there once (and is in use, as all of them
\* are), or anything else.
FrontOfEmpty(t) ==
  /\ m_ListFree = <<>>
  /\ \/ GiveUp(t)                       \* NULL, or an object in use
     \/ /\ undefined' = TRUE            \* garbage
        /\ UNCHANGED <<poolVars, pc, obj, stolen>>

\* FetchObj after _AllocT: it does not look again whether the list is empty.
FetchAgain(t) ==
  /\ ~undefined
  /\ pc[t] = "refetch"
  /\ TakeFront(t) \/ FrontInUse(t) \/ FrontOfEmpty(t)
  /\ UNCHANGED <<m_dwNextId, load, dwSockId, nFetch, overlapped>>

-----------------------------------------------------------------------------
(* SetSockId(m_dwNextId++) and ReleaseObj                                   *)

\* poSock->Init() fails, and the object goes back at once.
InitFails(t) ==
  /\ ~undefined
  /\ pc[t] = "load"
  /\ m_byRef[obj[t]] = 1
  /\ m_byRef' = [m_byRef EXCEPT ![obj[t]] = 0]
  /\ m_ListFree' = Append(m_ListFree, obj[t])
  /\ obj' = [obj EXCEPT ![t] = None]
  /\ pc' = [pc EXCEPT ![t] = "idle"]
  /\ UNCHANGED <<m_dwNowAllCount, m_dwNextId, load, dwSockId, nFetch, stolen,
                 overlapped, undefined>>

\* The value m_dwNextId++ writes back.
Increment(id) == id + 1

LoadId(t) ==
  /\ ~undefined
  /\ pc[t] = "load"
  /\ load' = [load EXCEPT ![t] = m_dwNextId]
  /\ pc' = [pc EXCEPT ![t] = "store"]
  /\ overlapped' = (overlapped \/ \E u \in Threads : pc[u] = "store")
  /\ UNCHANGED <<poolVars, m_dwNextId, obj, dwSockId, nFetch, stolen,
                 undefined>>

\* The socket has its id and is in use from here on.
StoreId(t) ==
  /\ ~undefined
  /\ pc[t] = "store"
  /\ m_dwNextId' = Increment(load[t])
  /\ dwSockId' = [o \in DOMAIN dwSockId \cup {obj[t]} |->
                    IF o = obj[t] THEN load[t] ELSE dwSockId[o]]
  /\ pc' = [pc EXCEPT ![t] = "idle"]
  /\ obj' = [obj EXCEPT ![t] = None]
  /\ UNCHANGED <<poolVars, load, nFetch, stolen, overlapped, undefined>>

\* A socket in use is released, by whichever thread runs its end.  (A reference
\* count other than 1 is refused.)
ReleaseObj(o) ==
  /\ ~undefined
  /\ o \in DOMAIN dwSockId
  /\ m_byRef[o] = 1
  /\ m_byRef' = [m_byRef EXCEPT ![o] = 0]
  /\ m_ListFree' = Append(m_ListFree, o)
  /\ dwSockId' = [p \in DOMAIN dwSockId \ {o} |-> dwSockId[p]]
  /\ UNCHANGED <<m_dwNowAllCount, m_dwNextId, pc, obj, load, nFetch, stolen,
                 overlapped, undefined>>

-----------------------------------------------------------------------------
\* What garbage does is not modelled: no action is taken after it.
Next ==
  \/ \E t \in Threads :
       FetchObj(t) \/ AllocCheck(t) \/ AllocT(t) \/ FetchAgain(t)
         \/ InitFails(t) \/ LoadId(t) \/ StoreId(t)
  \/ \E o \in Objects : ReleaseObj(o)

Spec == Init /\ [][Next]_vars

-----------------------------------------------------------------------------
(* Properties.                                                             *)

\* The objects that some user has: a socket in use, or one being created.
InUse == DOMAIN dwSockId \cup {obj[t] : t \in {u \in Threads : obj[u] # None}}

\* No object is lost and none is handed out twice, although FetchObj leaves its
\* lock in the middle: each one is in the list, once and with count 0, or has
\* exactly one user and count 1; and the pool keeps to its maximum.
PoolConserved ==
  /\ m_dwNowAllCount <= MaxCount
  /\ \A i, j \in 1 .. Len(m_ListFree) :
       m_ListFree[i] = m_ListFree[j] => i = j
  /\ \A o \in Objects :
       IF \E i \in 1 .. Len(m_ListFree) : m_ListFree[i] = o
         THEN m_byRef[o] = 0 /\ o \notin InUse
         ELSE m_byRef[o] = 1 /\ o \in InUse
  /\ \A t, u \in Threads : obj[t] # None /\ obj[t] = obj[u] => t = u
  /\ \A t \in Threads : obj[t] \notin DOMAIN dwSockId

\* FetchObj calls front() on an empty list only if another thread took objects
\* between its two looks; a thread alone never does, not even at the maximum.
EmptyOnlyIfStolen ==
  \A t \in Threads : pc[t] = "refetch" /\ m_ListFree = <<>> => t \in stolen

\* Two sockets in use have the same id only after two increments of m_dwNextId
\* overlapped: a stale store can set the counter back past ids that other
\* threads have handed out meanwhile.
IdsUnique ==
  ~overlapped => \A o, p \in DOMAIN dwSockId :
                   dwSockId[o] = dwSockId[p] => o = p
=============================================================================
