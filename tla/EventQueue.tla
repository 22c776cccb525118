----------------------------- MODULE EventQueue -----------------------------
(***************************************************************************)
(* TEventQueue, the ring that carries network events from the IO threads   *)
(* to the main thread (src/Server/Net/eventqueue.h), with the loops that   *)
(* use it: a socket's PushNetEvent, which spins until PushBack succeeds,   *)
(* and FxNetModule::Run, which pops an event and runs its handler.         *)
(*                                                                         *)
(* PushBack holds the lock; PopFront takes none.  The statement            *)
(*      if (++m_nInCursor >= m_nSize) m_nInCursor = 0;                     *)
(* is two stores when the library is compiled as its Makefile compiles it  *)
(* (no -O), and one store when the compiler merges them: TwoStores says    *)
(* which build is checked.  Handlers may push events themselves            *)
(* (__ProcTerminate pushes NETEVT_RELEASE), so the main thread is also a   *)
(* producer.  An event is the number of the push that wrote it; 0 is what  *)
(* realloc left in a slot.                                                 *)
(***************************************************************************)
EXTENDS Integers

CONSTANTS
  Size,        \* m_nSize
  IoThreads,   \* the threads that push
  Main,        \* the thread that pops
  MaxEvents,   \* bound: pushes started in all, and pops made in all
  TwoStores    \* the build keeps both stores of a cursor that wraps

ASSUME QueueAssumption ==
  /\ Size \in Nat \ {0, 1}
  /\ MaxEvents \in Nat
  /\ Main \notin IoThreads
  /\ TwoStores \in BOOLEAN
  /\ "none" \notin IoThreads \cup {Main}

VARIABLES
  m_poArrayT,
  m_nInCursor, m_nOutCursor,
  m_poLock,    \* the thread inside PushBack, or "none"
  pushPc,      \* where each thread stands in PushNetEvent
  runPc,       \* where the main thread stands in Run
  ptr,         \* the slot PopFront returned
  nStart,      \* pushes started
  nPush,       \* pushes published
  nPop,        \* pops made
  seen,        \* events some handler has received
  raced        \* PopFront has looked between the two stores of a wrap, with
               \* its own cursor already back at 0

pushVars == <<pushPc, nStart>>
popVars == <<runPc, ptr, nPop, seen, raced>>
vars == <<m_poArrayT, m_nInCursor, m_nOutCursor, m_poLock, nPush, pushVars,
          popVars>>

Threads == IoThreads \cup {Main}
Slots == 0 .. Size - 1

Init ==
  /\ m_poArrayT = [i \in Slots |-> 0]
  /\ m_nInCursor = 0 /\ m_nOutCursor = 0
  /\ m_poLock = "none"
  /\ pushPc = [t \in Threads |-> "idle"]
  /\ runPc = "run"
  /\ ptr = 0
  /\ nStart = 0 /\ nPush = 0 /\ nPop = 0
  /\ seen = {}
  /\ raced = FALSE

-----------------------------------------------------------------------------
\* The count both methods compute from the two cursors.
Count == LET n == m_nInCursor + Size - m_nOutCursor
         IN  IF n >= Size THEN n - Size ELSE n

(* Slips that the properties must notice; no part of the model.            *)
Full_LastSlot == Size <= Count
AtEnd_Late(c) == c > Size
NonEmpty_KeepsOne == Count > 1

\* PushBack refuses: one slot always stays free.
Full == Size - 1 <= Count

NonEmpty == Count # 0

\* The cursor has run over the end of the array.
AtEnd(c) == c >= Size

-----------------------------------------------------------------------------
(* PushNetEvent and PushBack.                                              *)

\* A thread has an event to push: an IO thread at any time, the main thread
\* while it runs a handler.
PushNetEvent(t) ==
  /\ pushPc[t] = "idle"
  /\ t = Main => runPc = "handle"
  /\ nStart < MaxEvents
  /\ nStart' = nStart + 1
  /\ pushPc' = [pushPc EXCEPT ![t] = "try"]
  /\ UNCHANGED <<m_poArrayT, m_nInCursor, m_nOutCursor, m_poLock, nPush,
                 popVars>>

\* Lock and check.  On a full queue PushBack unlocks and the caller sleeps and
\* tries again, so the step changes nothing and is left out.
PushCheck(t) ==
  /\ pushPc[t] = "try"
  /\ m_poLock = "none"
  /\ ~Full
  /\ m_poLock' = t
  /\ pushPc' = [pushPc EXCEPT ![t] = "write"]
  /\ UNCHANGED <<m_poArrayT, m_nInCursor, m_nOutCursor, nStart, nPush,
                 popVars>>

PushWrite(t) ==
  /\ pushPc[t] = "write"
  /\ m_poArrayT' = [m_poArrayT EXCEPT ![m_nInCursor] = nPush + 1]
  /\ pushPc' = [pushPc EXCEPT ![t] = "advance"]
  /\ UNCHANGED <<m_nInCursor, m_nOutCursor, m_poLock, nStart, nPush, popVars>>

\* The thread leaves PushBack with m_nInCursor = c.
Leave(t, c) ==
  /\ m_nInCursor' = c
  /\ m_poLock' = "none"
  /\ pushPc' = [pushPc EXCEPT ![t] = "idle"]

\* ++m_nInCursor, and the store of 0 when the build merges it.
PushAdvance(t) ==
  /\ pushPc[t] = "advance"
  /\ nPush' = nPush + 1
  /\ \/ AtEnd(m_nInCursor + 1) /\ ~TwoStores /\ Leave(t, 0)
     \/ /\ AtEnd(m_nInCursor + 1) /\ TwoStores
        /\ m_nInCursor' = m_nInCursor + 1
        /\ pushPc' = [pushPc EXCEPT ![t] = "wrap"]
        /\ UNCHANGED m_poLock
     \/ ~AtEnd(m_nInCursor + 1) /\ Leave(t, m_nInCursor + 1)
  /\ UNCHANGED <<m_poArrayT, m_nOutCursor, nStart, popVars>>

PushWrap(t) ==
  /\ pushPc[t] = "wrap"
  /\ Leave(t, 0)
  /\ UNCHANGED <<m_poArrayT, m_nOutCursor, nStart, nPush, popVars>>

-----------------------------------------------------------------------------
(* Run and PopFront.                                                       *)

\* PopFront finds the queue non-empty and takes the address of the slot.
\* (Empty: Run returns and is called again; nothing changes.)
PopCheck ==
  /\ runPc = "run"
  /\ NonEmpty
  /\ nPop < MaxEvents
  /\ ptr' = m_nOutCursor
  /\ runPc' = "advance"
  /\ raced' = (raced \/ (m_nInCursor = Size /\ m_nOutCursor = 0))
  /\ UNCHANGED <<m_poArrayT, m_nInCursor, m_nOutCursor, m_poLock, nPush,
                 pushVars, nPop, seen>>

PopAdvance ==
  /\ runPc = "advance"
  /\ nPop' = nPop + 1
  /\ \/ /\ AtEnd(m_nOutCursor + 1) /\ ~TwoStores
        /\ m_nOutCursor' = 0 /\ runPc' = "popped"
     \/ /\ AtEnd(m_nOutCursor + 1) /\ TwoStores
        /\ m_nOutCursor' = m_nOutCursor + 1 /\ runPc' = "wrap"
     \/ /\ ~AtEnd(m_nOutCursor + 1)
        /\ m_nOutCursor' = m_nOutCursor + 1 /\ runPc' = "popped"
  /\ UNCHANGED <<m_poArrayT, m_nInCursor, m_poLock, nPush, pushVars, ptr,
                 seen, raced>>

PopWrap ==
  /\ runPc = "wrap"
  /\ m_nOutCursor' = 0
  /\ runPc' = "popped"
  /\ UNCHANGED <<m_poArrayT, m_nInCursor, m_poLock, nPush, pushVars, ptr,
                 nPop, seen, raced>>

\* A slip: the event is taken from where the out cursor stands now.
ProcEvent_AtCursor ==
  /\ runPc = "popped"
  /\ seen' = seen \cup {m_poArrayT[m_nOutCursor]}
  /\ runPc' = "handle"
  /\ UNCHANGED <<m_poArrayT, m_nInCursor, m_nOutCursor, m_poLock, nPush,
                 pushVars, ptr, nPop, raced>>

\* Run copies the event out of the slot, after the cursor has moved past it,
\* and calls its socket's ProcEvent.
ProcEvent ==
  /\ runPc = "popped"
  /\ seen' = seen \cup {m_poArrayT[ptr]}
  /\ runPc' = "handle"
  /\ UNCHANGED <<m_poArrayT, m_nInCursor, m_nOutCursor, m_poLock, nPush,
                 pushVars, ptr, nPop, raced>>

\* The handler returns, once its own pushes are through.
EndProcEvent ==
  /\ runPc = "handle"
  /\ pushPc[Main] = "idle"
  /\ runPc' = "run"
  /\ UNCHANGED <<m_poArrayT, m_nInCursor, m_nOutCursor, m_poLock, nPush,
                 pushVars, ptr, nPop, seen, raced>>

-----------------------------------------------------------------------------
PushStep(t) == PushCheck(t) \/ PushWrite(t) \/ PushAdvance(t) \/ PushWrap(t)
RunStep == PopCheck \/ PopAdvance \/ PopWrap \/ ProcEvent \/ EndProcEvent

Next == (\E t \in Threads : PushNetEvent(t) \/ PushStep(t)) \/ RunStep

Spec == Init /\ [][Next]_vars

-----------------------------------------------------------------------------
(* Properties.                                                             *)

\* Every variable has a value of its kind, and both cursors stay in the array
\* or just past its end.
TypeOK ==
  /\ m_poArrayT \in [Slots -> Nat]
  /\ m_nInCursor \in 0 .. Size /\ m_nOutCursor \in 0 .. Size
  /\ m_poLock \in Threads \cup {"none"}
  /\ pushPc \in [Threads -> {"idle", "try", "write", "advance", "wrap"}]
  /\ runPc \in {"run", "advance", "wrap", "popped", "handle"}
  /\ ptr \in Slots
  /\ nStart \in Nat /\ nPush \in Nat /\ nPop \in Nat
  /\ seen \subseteq Nat
  /\ raced \in BOOLEAN

\* The k-th pop hands its handler the k-th event pushed: no event is lost,
\* repeated, reordered or made up, although PopFront takes no lock and the
\* slot is read after m_nOutCursor has moved past it.
PopsInOrder ==
  /\ runPc = "popped" => m_poArrayT[ptr] = nPop
  /\ nPop <= nPush

\* An event published and not yet handled is still in the array: no push, of
\* however many threads, reuses the slot of an event that nobody has read.
NothingOverwritten ==
  \A k \in 1 .. nPush : k \in seen \/ \E i \in Slots : m_poArrayT[i] = k

\* In a build with two stores the order can be lost in one way only: a PopFront
\* that finds m_nInCursor = m_nSize while its own cursor is back at 0 takes the
\* empty queue for a full one.
OrderUnlessRaced == ~raced => PopsInOrder /\ NothingOverwritten

\* The cursors with an unfinished wrap completed.
LogIn == IF m_nInCursor = Size THEN 0 ELSE m_nInCursor
LogOut == IF m_nOutCursor = Size THEN 0 ELSE m_nOutCursor

\* The main thread has an event in hand: its slot is popped and not yet read.
InHand == runPc \in {"wrap", "popped"}

\* The slot at distance d from the out cursor.
SlotAt(d) == IF LogOut + d < Size THEN LogOut + d ELSE LogOut + d - Size

\* The events that no handler has received, as the array holds them: the one in
\* hand, and those from the out cursor on.
Waiting ==
  IF InHand
    THEN [k \in 1 .. nPush - nPop + 1 |->
            IF k = 1 THEN m_poArrayT[ptr] ELSE m_poArrayT[SlotAt(k - 2)]]
    ELSE [k \in 1 .. nPush - nPop |-> m_poArrayT[SlotAt(k - 1)]]

Fifo == INSTANCE EventFifo
          WITH Capacity <- Size, sent <- nPush, pending <- Waiting,
               delivered <- seen

\* The ring with its unlocked PopFront implements a first-in first-out queue:
\* an event is in the queue from the store of m_nInCursor that publishes it
\* until Run copies it, and whatever the threads interleave in between, the
\* handlers receive what the array holds in the order it was pushed.  With two
\* stores this is so up to the first race.
FifoUnlessRaced ==
  /\ Fifo!FifoInit
  /\ [][raced' \/ Fifo!FifoNext]_<<nPush, Waiting, seen>>

\* The main thread waits for a place that only it can make.
MainStuck == pushPc[Main] = "try" /\ Full
=============================================================================
