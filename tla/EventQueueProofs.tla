-------------------------- MODULE EventQueueProofs --------------------------
(***************************************************************************)
(* Proofs about EventQueue and CloseQueue, for every queue size, set of IO *)
(* threads and both builds: as long as no PopFront has looked into a wrap  *)
(* of the in cursor at the one bad moment, events are popped in the order  *)
(* pushed and none is overwritten; and in a build that merges the two      *)
(* stores that moment does not exist.                                      *)
(*                                                                         *)
(* The invariant describes the ring by the distance from the out cursor: a *)
(* slot at distance d holds event nPop + 1 + d when that event has been    *)
(* published.  The slot the consumer has popped but not read is at the     *)
(* largest distance, Size - 1, which a producer never reaches because      *)
(* PushBack keeps one slot free.                                           *)
(*                                                                         *)
(* The last part is about CloseQueue: Close does nothing to the event      *)
(* queue but push into it, so what is proved of the queue holds with any   *)
(* number of sockets being closed by any threads.                          *)
(***************************************************************************)
EXTENDS CloseQueue, SequenceTheorems, TLAPS

\* How far slot i lies behind the out cursor.
Dist(i) == IF i >= LogOut THEN i - LogOut ELSE i - LogOut + Size

Pushing == {"write", "advance", "wrap"}

\* What holds whether or not the race has happened: the lock protects the in
\* cursor, and only an unfinished wrap leaves a cursor past the end.
LockInv ==
  /\ \A t \in Threads : (pushPc[t] \in Pushing) <=> (m_poLock = t)
  /\ (m_nInCursor = Size) <=> (\E t \in Threads : pushPc[t] = "wrap")
  /\ (m_nOutCursor = Size) <=> (runPc = "wrap")

\* The published, unpopped events fill the slots from the out cursor on.
RingInv ==
  /\ nPop <= nPush
  /\ nPush - nPop = Dist(LogIn)
  /\ \A i \in Slots : Dist(i) < nPush - nPop =>
                        m_poArrayT[i] = nPop + 1 + Dist(i)

\* A producer past the check has a slot that is neither unpopped nor the one
\* the consumer may still be reading.
ProducerInv ==
  /\ \A t \in Threads : pushPc[t] \in {"write", "advance"} =>
                          nPush - nPop < Size - 1
  /\ \A t \in Threads : pushPc[t] = "advance" =>
                          m_poArrayT[m_nInCursor] = nPush + 1

\* The slot PopFront returned holds the event it was returned for.
ConsumerInv ==
  /\ runPc = "advance" => ptr = m_nOutCursor /\ nPop < nPush
  /\ runPc \in {"wrap", "popped"} =>
       /\ Dist(ptr) = Size - 1
       /\ m_poArrayT[ptr] = nPop
       /\ nPop >= 1

\* Every event popped has been handled, but for the one in hand.
SeenInv ==
  \A k \in 1 .. nPop :
    k \in seen \/ (runPc \in {"wrap", "popped"} /\ k = nPop)

OrderInv == RingInv /\ ProducerInv /\ ConsumerInv /\ SeenInv

IInv == TypeOK /\ LockInv /\ (~raced => OrderInv)

-----------------------------------------------------------------------------
USE DEF Slots

\* Init establishes the invariant: the queue is empty and nobody is inside it.
LEMMA InitInv == Init => IInv
<1> SUFFICES ASSUME Init PROVE IInv
  OBVIOUS
<1> USE QueueAssumption
<1>1. TypeOK
  <2>1. m_poArrayT \in [Slots -> Nat] /\ ptr \in Slots
    BY DEF Init
  <2>2. pushPc \in [Threads -> {"idle", "try", "write", "advance", "wrap"}]
    BY DEF Init
  <2>3. /\ seen \subseteq Nat /\ raced \in BOOLEAN
        /\ m_poLock \in Threads \cup {"none"}
    BY Zenon DEF Init
  <2>4. /\ m_nInCursor \in 0 .. Size /\ m_nOutCursor \in 0 .. Size
        /\ nStart \in Nat /\ nPush \in Nat /\ nPop \in Nat
    BY DEF Init
  <2>5. runPc \in {"run", "advance", "wrap", "popped", "handle"}
    BY DEF Init
  <2> QED
    BY <2>1, <2>2, <2>3, <2>4, <2>5, Zenon DEF TypeOK
<1>2. LockInv
  BY DEF Init, LockInv, Pushing, Threads
<1>3. OrderInv
  BY DEF Init, OrderInv, RingInv, ProducerInv, ConsumerInv, SeenInv, Dist,
         LogIn, LogOut
<1> QED
  BY <1>1, <1>2, <1>3 DEF IInv

\* A thread that starts to push has not touched the queue.
LEMMA PushNetEventInv ==
  ASSUME IInv, NEW t \in Threads, PushNetEvent(t)
  PROVE  IInv'
<1> USE QueueAssumption DEF IInv
<1>0. pushPc' = [pushPc EXCEPT ![t] = "try"] /\ pushPc[t] = "idle"
  BY DEF PushNetEvent
<1>1. TypeOK'
  BY DEF PushNetEvent, TypeOK, popVars
<1>2. LockInv'
  BY <1>0 DEF PushNetEvent, TypeOK, LockInv, Pushing, popVars
<1>3. ASSUME OrderInv PROVE OrderInv'
  <2>1. RingInv' /\ ConsumerInv' /\ SeenInv'
    BY <1>3 DEF PushNetEvent, OrderInv, RingInv, ConsumerInv, SeenInv, Dist,
                LogIn, LogOut, popVars
  <2>2. ProducerInv'
    BY <1>0, <1>3 DEF PushNetEvent, TypeOK, OrderInv, ProducerInv, popVars
  <2> QED
    BY <2>1, <2>2 DEF OrderInv
<1> QED
  BY <1>1, <1>2, <1>3 DEF PushNetEvent, popVars

\* With the lock free the count is the number of unpopped events, so the check
\* leaves the slot before the out cursor alone.
LEMMA PushCheckInv ==
  ASSUME IInv, NEW t \in Threads, PushCheck(t)
  PROVE  IInv'
<1> USE QueueAssumption DEF IInv
<1>0. /\ pushPc' = [pushPc EXCEPT ![t] = "write"] /\ pushPc[t] = "try"
      /\ m_poLock = "none" /\ m_poLock' = t
  BY DEF PushCheck
<1>1. TypeOK'
  BY DEF PushCheck, TypeOK, popVars
<1>2. LockInv'
  <2>1. \A u \in Threads : pushPc[u] \notin Pushing
    BY <1>0 DEF LockInv, Threads
  <2> QED
    BY <1>0, <2>1 DEF PushCheck, TypeOK, LockInv, Pushing, popVars
<1>3. ASSUME OrderInv PROVE OrderInv'
  <2>1. RingInv' /\ ConsumerInv' /\ SeenInv'
    BY <1>3 DEF PushCheck, OrderInv, RingInv, ConsumerInv, SeenInv, Dist,
                LogIn, LogOut, popVars
  <2>2. m_nInCursor # Size
    BY <1>0 DEF LockInv, Pushing, Threads
  <2>3. nPush - nPop < Size - 1
    BY <1>3, <2>2 DEF PushCheck, Full, Count, TypeOK, OrderInv, RingInv, Dist,
                      LogIn, LogOut
  <2>4. ProducerInv'
    BY <1>0, <1>3, <2>3 DEF PushCheck, TypeOK, OrderInv, ProducerInv, popVars
  <2> QED
    BY <2>1, <2>4 DEF OrderInv
<1> QED
  BY <1>1, <1>2, <1>3 DEF PushCheck, popVars

\* The slot written lies past the unpopped events and before the slot in hand.
LEMMA PushWriteInv ==
  ASSUME IInv, NEW t \in Threads, PushWrite(t)
  PROVE  IInv'
<1> USE QueueAssumption DEF IInv
<1>0. /\ pushPc' = [pushPc EXCEPT ![t] = "advance"] /\ pushPc[t] = "write"
      /\ m_poArrayT' = [m_poArrayT EXCEPT ![m_nInCursor] = nPush + 1]
      /\ UNCHANGED <<m_nInCursor, m_nOutCursor, m_poLock, nStart, nPush, runPc,
                     ptr, nPop, seen, raced>>
  BY DEF PushWrite, popVars
<1>1. m_poLock = t /\ \A u \in Threads : u # t => pushPc[u] \notin Pushing
  BY <1>0 DEF LockInv, Pushing
<1>2. m_nInCursor \in Slots
  BY <1>0, <1>1 DEF LockInv, Pushing, TypeOK
<1>3. TypeOK'
  <2>0. m_poArrayT \in [Slots -> Nat] /\ nPush \in Nat
    BY Zenon DEF TypeOK
  <2>1. m_poArrayT' \in [Slots -> Nat]
    BY <1>0, <1>2, <2>0
  <2>2. pushPc' \in [Threads -> {"idle", "try", "write", "advance", "wrap"}]
    BY <1>0 DEF TypeOK
  <2> QED
    BY <1>0, <2>1, <2>2 DEF TypeOK
<1>4. LockInv'
  BY <1>0, <1>1 DEF PushWrite, TypeOK, LockInv, Pushing, popVars
<1>5. ASSUME OrderInv PROVE OrderInv'
  <2>0. nPush - nPop < Size - 1 /\ nPush - nPop = Dist(m_nInCursor)
    BY <1>0, <1>2, <1>5 DEF OrderInv, ProducerInv, RingInv, LogIn
  <2>1. RingInv'
    <3>1. LogIn' = LogIn /\ LogOut' = LogOut
      BY <1>0 DEF LogIn, LogOut
    <3>2. ASSUME NEW i \in Slots, Dist(i) < nPush - nPop
          PROVE  m_poArrayT'[i] = nPop + 1 + Dist(i)
      <4>1. i # m_nInCursor
        BY <2>0, <3>2 DEF TypeOK
      <4> QED
        BY <1>0, <1>2, <1>5, <3>2, <4>1 DEF OrderInv, RingInv, TypeOK
    <3> QED
      BY <1>0, <1>5, <3>1, <3>2 DEF OrderInv, RingInv, Dist
  <2>2. ProducerInv'
    BY <1>0, <1>1, <1>2, <1>5
       DEF PushWrite, OrderInv, ProducerInv, TypeOK, Pushing, popVars
  <2>3. ConsumerInv'
    BY <1>0, <1>2, <1>5, <2>0
       DEF PushWrite, OrderInv, ConsumerInv, Dist, LogOut, TypeOK, popVars
  <2>4. SeenInv'
    BY <1>5 DEF PushWrite, OrderInv, SeenInv, popVars
  <2> QED
    BY <2>1, <2>2, <2>3, <2>4 DEF OrderInv
<1> QED
  BY <1>3, <1>4, <1>5 DEF PushWrite, popVars

\* Publishing makes the ring one event longer; a wrap may stay unfinished.
LEMMA PushAdvanceInv ==
  ASSUME IInv, NEW t \in Threads, PushAdvance(t)
  PROVE  IInv'
<1> USE QueueAssumption DEF IInv
<1>0. /\ pushPc[t] = "advance"
      /\ nPush' = nPush + 1
      /\ UNCHANGED <<m_poArrayT, m_nOutCursor, nStart, runPc, ptr, nPop, seen,
                     raced>>
  BY DEF PushAdvance, popVars
<1>1. m_poLock = t /\ \A u \in Threads : u # t => pushPc[u] \notin Pushing
  BY <1>0 DEF LockInv, Pushing
<1>2. m_nInCursor \in Slots
  BY <1>0, <1>1 DEF LockInv, Pushing, TypeOK
<1>3. \/ /\ m_nInCursor + 1 < Size /\ m_nInCursor' = m_nInCursor + 1
         /\ m_poLock' = "none" /\ pushPc' = [pushPc EXCEPT ![t] = "idle"]
      \/ /\ m_nInCursor + 1 = Size /\ m_nInCursor' = 0
         /\ m_poLock' = "none" /\ pushPc' = [pushPc EXCEPT ![t] = "idle"]
      \/ /\ m_nInCursor + 1 = Size /\ m_nInCursor' = Size
         /\ m_poLock' = t /\ pushPc' = [pushPc EXCEPT ![t] = "wrap"]
  BY <1>1, <1>2 DEF PushAdvance, Leave, AtEnd
<1>4. TypeOK'
  BY <1>0, <1>2, <1>3 DEF TypeOK
<1>5. LockInv'
  BY <1>0, <1>1, <1>3 DEF TypeOK, LockInv, Pushing, Threads
<1>6. ASSUME OrderInv PROVE OrderInv'
  <2>0. /\ nPush - nPop < Size - 1 /\ nPush - nPop = Dist(m_nInCursor)
        /\ m_poArrayT[m_nInCursor] = nPush + 1
    BY <1>0, <1>2, <1>6 DEF OrderInv, ProducerInv, RingInv, LogIn
  <2>1. LogIn' = IF m_nInCursor + 1 = Size THEN 0 ELSE m_nInCursor + 1
    BY <1>2, <1>3 DEF LogIn
  <2>2. RingInv'
    <3>1. nPush' - nPop' = Dist(LogIn)'
      BY <1>0, <1>2, <2>0, <2>1 DEF Dist, LogOut, TypeOK
    <3>2. ASSUME NEW i \in Slots, Dist(i) < nPush + 1 - nPop
          PROVE  m_poArrayT[i] = nPop + 1 + Dist(i)
      <4>0. LogOut \in Slots
        BY DEF LogOut, TypeOK
      <4>1. Dist(i) \in Nat /\ (Dist(i) = Dist(m_nInCursor) => i = m_nInCursor)
        BY <1>2, <4>0 DEF Dist
      <4>2. CASE i = m_nInCursor
        BY <2>0, <4>2 DEF TypeOK
      <4>3. CASE i # m_nInCursor
        <5>0. nPush \in Nat /\ nPop \in Nat
          BY Zenon DEF TypeOK
        <5>1. Dist(i) # nPush - nPop
          BY <2>0, <4>1, <4>3, Zenon
        <5>2. Dist(i) < nPush - nPop
          BY <3>2, <4>1, <5>0, <5>1
        <5> QED
          BY <1>6, <5>2 DEF OrderInv, RingInv
      <4> QED
        BY <4>2, <4>3
    <3> QED
      BY <1>0, <1>6, <3>1, <3>2 DEF OrderInv, RingInv, Dist, LogOut, TypeOK
  <2>3. ProducerInv'
    BY <1>0, <1>1, <1>3 DEF ProducerInv, TypeOK, Pushing
  <2>4. ConsumerInv' /\ SeenInv'
    BY <1>0, <1>6 DEF OrderInv, ConsumerInv, SeenInv, Dist, LogOut, TypeOK
  <2> QED
    BY <2>2, <2>3, <2>4 DEF OrderInv
<1> QED
  BY <1>0, <1>4, <1>5, <1>6

\* Finishing the wrap changes no distance.
LEMMA PushWrapInv ==
  ASSUME IInv, NEW t \in Threads, PushWrap(t)
  PROVE  IInv'
<1> USE QueueAssumption DEF IInv
<1>0. /\ pushPc[t] = "wrap" /\ pushPc' = [pushPc EXCEPT ![t] = "idle"]
      /\ m_nInCursor' = 0 /\ m_poLock' = "none"
      /\ UNCHANGED <<m_poArrayT, m_nOutCursor, nStart, nPush, runPc, ptr, nPop,
                     seen, raced>>
  BY DEF PushWrap, Leave, popVars
<1>1. m_poLock = t /\ \A u \in Threads : u # t => pushPc[u] \notin Pushing
  BY <1>0 DEF LockInv, Pushing
<1>2. TypeOK'
  BY <1>0 DEF TypeOK
<1>3. LockInv'
  BY <1>0, <1>1 DEF TypeOK, LockInv, Pushing, Threads
<1>4. ASSUME OrderInv PROVE OrderInv'
  <2>1. LogIn' = LogIn /\ LogOut' = LogOut
    BY <1>0 DEF LockInv, LogIn, LogOut
  <2>2. RingInv' /\ ConsumerInv' /\ SeenInv'
    BY <1>0, <1>4, <2>1 DEF OrderInv, RingInv, ConsumerInv, SeenInv, Dist
  <2>3. ProducerInv'
    BY <1>0, <1>1 DEF ProducerInv, TypeOK, Pushing
  <2> QED
    BY <2>2, <2>3 DEF OrderInv
<1> QED
  BY <1>0, <1>2, <1>3, <1>4

\* Away from the bad moment a non-zero count means an unpopped event.
LEMMA PopCheckInv ==
  ASSUME IInv, PopCheck
  PROVE  IInv'
<1> USE QueueAssumption DEF IInv
<1>0. /\ runPc = "run" /\ runPc' = "advance" /\ ptr' = m_nOutCursor
      /\ UNCHANGED <<m_poArrayT, m_nInCursor, m_nOutCursor, m_poLock, nPush,
                     pushPc, nStart, nPop, seen>>
  BY DEF PopCheck, pushVars
<1>1. m_nOutCursor \in Slots
  BY <1>0 DEF LockInv, TypeOK
<1>2. raced' \in BOOLEAN
  BY DEF PopCheck, TypeOK
<1>3. TypeOK'
  BY <1>0, <1>1, <1>2 DEF TypeOK
<1>4. LockInv'
  BY <1>0 DEF LockInv
<1>5. ASSUME ~raced' PROVE OrderInv'
  <2>1. ~raced /\ ~(m_nInCursor = Size /\ m_nOutCursor = 0)
    BY <1>5 DEF PopCheck
  <2>2. OrderInv
    BY <2>1
  <2>3. nPop < nPush
    BY <1>1, <2>1, <2>2 DEF PopCheck, NonEmpty, Count, OrderInv, RingInv, Dist,
                            LogIn, LogOut, TypeOK
  <2>4. RingInv' /\ ProducerInv' /\ SeenInv'
    BY <1>0, <2>2 DEF OrderInv, RingInv, ProducerInv, SeenInv, Dist, LogIn,
                      LogOut
  <2>5. ConsumerInv'
    BY <1>0, <2>3 DEF ConsumerInv
  <2> QED
    BY <2>4, <2>5 DEF OrderInv
<1> QED
  BY <1>3, <1>4, <1>5

\* Moving the out cursor puts the slot in hand at the far end of the ring.
LEMMA PopAdvanceInv ==
  ASSUME IInv, PopAdvance
  PROVE  IInv'
<1> USE QueueAssumption DEF IInv
<1>0. /\ runPc = "advance" /\ nPop' = nPop + 1
      /\ UNCHANGED <<m_poArrayT, m_nInCursor, m_poLock, nPush, pushPc, nStart,
                     ptr, seen, raced>>
  BY DEF PopAdvance, pushVars
<1>1. m_nOutCursor \in Slots
  BY <1>0 DEF LockInv, TypeOK
<1>2. \/ /\ m_nOutCursor + 1 < Size /\ m_nOutCursor' = m_nOutCursor + 1
         /\ runPc' = "popped"
      \/ m_nOutCursor + 1 = Size /\ m_nOutCursor' = 0 /\ runPc' = "popped"
      \/ m_nOutCursor + 1 = Size /\ m_nOutCursor' = Size /\ runPc' = "wrap"
  BY <1>1 DEF PopAdvance, AtEnd
<1>3. TypeOK'
  BY <1>0, <1>1, <1>2 DEF TypeOK
<1>4. LockInv'
  BY <1>0, <1>1, <1>2 DEF LockInv
<1>5. ASSUME OrderInv PROVE OrderInv'
  <2>0. /\ ptr = m_nOutCursor /\ nPop < nPush
        /\ LogOut = m_nOutCursor /\ Dist(m_nOutCursor) = 0
        /\ m_poArrayT[ptr] = nPop + 1
    BY <1>0, <1>1, <1>5 DEF OrderInv, ConsumerInv, RingInv, Dist, LogOut,
                            TypeOK
  <2>1. LogOut' = IF m_nOutCursor + 1 = Size THEN 0 ELSE m_nOutCursor + 1
    BY <1>1, <1>2 DEF LogOut
  <2>2. LogIn' = LogIn /\ LogIn \in Slots
    BY <1>0 DEF LogIn, TypeOK
  <2>3. \A i \in Slots :
          Dist(i)' = IF i = m_nOutCursor THEN Size - 1 ELSE Dist(i) - 1
    BY <1>1, <2>0, <2>1 DEF Dist
  <2>4. \A i \in Slots : Dist(i) \in 0 .. Size - 1
    BY <1>1, <2>0 DEF Dist
  <2>5. LogIn # m_nOutCursor
    BY <1>5, <2>0 DEF OrderInv, RingInv, TypeOK
  <2>6. RingInv'
    <3>1. nPush' - nPop' = Dist(LogIn)'
      <4>1. Dist(LogIn)' = Dist(LogIn) - 1
        BY <1>1, <2>0, <2>1, <2>2, <2>5 DEF Dist
      <4> QED
        BY <1>0, <1>5, <4>1 DEF OrderInv, RingInv, TypeOK
    <3>2. ASSUME NEW i \in Slots, Dist(i)' < nPush' - nPop'
          PROVE  m_poArrayT[i] = nPop' + 1 + Dist(i)'
      <4>1. i # m_nOutCursor
        BY <1>0, <2>3, <2>4, <3>2, <1>5, <2>2 DEF OrderInv, RingInv, TypeOK
      <4>2. Dist(i)' = Dist(i) - 1 /\ Dist(i) \in Int
        BY <2>3, <2>4, <4>1
      <4>3. Dist(i) < nPush - nPop
        BY <1>0, <3>2, <4>2 DEF TypeOK
      <4> QED
        BY <1>0, <1>5, <4>2, <4>3 DEF OrderInv, RingInv, TypeOK
    <3> QED
      BY <1>0, <2>0, <3>1, <3>2 DEF RingInv, TypeOK
  <2>7. ProducerInv'
    BY <1>0, <1>5 DEF OrderInv, ProducerInv, TypeOK
  <2>8. ConsumerInv'
    <3>1. Dist(ptr)' = Size - 1
      BY <1>0, <1>1, <2>0, <2>1 DEF Dist
    <3> QED
      BY <1>0, <1>2, <2>0, <3>1 DEF ConsumerInv, TypeOK
  <2>9. SeenInv'
    BY <1>0, <1>2, <1>5 DEF OrderInv, SeenInv, TypeOK
  <2> QED
    BY <2>6, <2>7, <2>8, <2>9 DEF OrderInv
<1> QED
  BY <1>0, <1>3, <1>4, <1>5

\* Finishing the consumer's wrap changes no distance either.
LEMMA PopWrapInv ==
  ASSUME IInv, PopWrap
  PROVE  IInv'
<1> USE QueueAssumption DEF IInv
<1>0. /\ runPc = "wrap" /\ runPc' = "popped" /\ m_nOutCursor' = 0
      /\ UNCHANGED <<m_poArrayT, m_nInCursor, m_poLock, nPush, pushPc, nStart,
                     ptr, nPop, seen, raced>>
  BY DEF PopWrap, pushVars
<1>1. TypeOK' /\ LockInv'
  BY <1>0 DEF TypeOK, LockInv
<1>2. ASSUME OrderInv PROVE OrderInv'
  <2>1. LogIn' = LogIn /\ LogOut' = LogOut
    BY <1>0 DEF LockInv, LogIn, LogOut
  <2> QED
    BY <1>0, <1>2, <2>1 DEF OrderInv, RingInv, ProducerInv, ConsumerInv,
                            SeenInv, Dist
<1> QED
  BY <1>0, <1>1, <1>2

\* The handler receives the event in hand, the last one popped.
LEMMA ProcEventInv ==
  ASSUME IInv, ProcEvent
  PROVE  IInv'
<1> USE QueueAssumption DEF IInv
<1>0. /\ runPc = "popped" /\ runPc' = "handle"
      /\ seen' = seen \cup {m_poArrayT[ptr]}
      /\ UNCHANGED <<m_poArrayT, m_nInCursor, m_nOutCursor, m_poLock, nPush,
                     pushPc, nStart, ptr, nPop, raced>>
  BY DEF ProcEvent, pushVars
<1>1. TypeOK' /\ LockInv'
  BY <1>0 DEF TypeOK, LockInv
<1>2. ASSUME OrderInv PROVE OrderInv'
  BY <1>0, <1>2 DEF OrderInv, RingInv, ProducerInv, ConsumerInv, SeenInv, Dist,
                    LogIn, LogOut
<1> QED
  BY <1>0, <1>1, <1>2

\* Going back to the loop leaves the ring alone.
LEMMA EndProcEventInv ==
  ASSUME IInv, EndProcEvent
  PROVE  IInv'
<1> USE QueueAssumption DEF IInv
<1>0. /\ runPc = "handle" /\ runPc' = "run"
      /\ UNCHANGED <<m_poArrayT, m_nInCursor, m_nOutCursor, m_poLock, nPush,
                     pushPc, nStart, ptr, nPop, seen, raced>>
  BY DEF EndProcEvent, pushVars
<1>1. TypeOK' /\ LockInv'
  BY <1>0 DEF TypeOK, LockInv
<1>2. ASSUME OrderInv PROVE OrderInv'
  BY <1>0, <1>2 DEF OrderInv, RingInv, ProducerInv, ConsumerInv, SeenInv, Dist,
                    LogIn, LogOut
<1> QED
  BY <1>0, <1>1, <1>2

\* Every step of every thread keeps the invariant.
LEMMA NextInv == IInv /\ [Next]_vars => IInv'
<1> SUFFICES ASSUME IInv, [Next]_vars PROVE IInv'
  OBVIOUS
<1>1. CASE UNCHANGED vars
  BY <1>1 DEF vars, pushVars, popVars, IInv, TypeOK, LockInv, OrderInv, RingInv,
              ProducerInv, ConsumerInv, SeenInv, Dist, LogIn, LogOut
<1>2. ASSUME NEW t \in Threads, PushNetEvent(t) \/ PushStep(t) PROVE IInv'
  BY <1>2, PushNetEventInv, PushCheckInv, PushWriteInv, PushAdvanceInv,
     PushWrapInv DEF PushStep
<1>3. CASE RunStep
  BY <1>3, PopCheckInv, PopAdvanceInv, PopWrapInv, ProcEventInv,
     EndProcEventInv DEF RunStep
<1> QED
  BY <1>1, <1>2, <1>3 DEF Next

\* The inductive invariant holds in every reachable state.
LEMMA Invariance == Spec => []IInv
  BY InitInv, NextInv, PTL DEF Spec

-----------------------------------------------------------------------------
\* Type correctness, in both builds and even after a race: the cursors stay in
\* the array, so no push or pop ever indexes outside it.
THEOREM TypeCorrect == Spec => []TypeOK
<1>1. IInv => TypeOK
  BY DEF IInv
<1> QED
  BY <1>1, Invariance, PTL

\* In either build, as long as no PopFront has hit the bad moment of a wrap, the
\* k-th pop delivers the k-th event pushed and no unhandled event has been
\* overwritten.
THEOREM OrderCorrect == Spec => []OrderUnlessRaced
<1>1. IInv => OrderUnlessRaced
  <2> SUFFICES ASSUME IInv, ~raced PROVE PopsInOrder /\ NothingOverwritten
    BY DEF OrderUnlessRaced
  <2> USE QueueAssumption
  <2>0. TypeOK /\ OrderInv
    BY DEF IInv
  <2>1. PopsInOrder
    BY <2>0 DEF OrderInv, RingInv, ConsumerInv, PopsInOrder
  <2>2. ASSUME NEW k \in 1 .. nPush, k \notin seen
        PROVE  \E i \in Slots : m_poArrayT[i] = k
    <3>1. CASE k <= nPop
      <4>1. runPc \in {"wrap", "popped"} /\ k = nPop
        BY <2>0, <2>2, <3>1 DEF OrderInv, SeenInv, TypeOK
      <4> QED
        BY <2>0, <4>1 DEF OrderInv, ConsumerInv, TypeOK
    <3>2. CASE k > nPop
      <4> DEFINE d == k - nPop - 1
                 i == IF LogOut + d < Size THEN LogOut + d
                                           ELSE LogOut + d - Size
      <4>1. LogOut \in Slots /\ LogIn \in Slots
        BY <2>0 DEF LogOut, LogIn, TypeOK
      <4>2. d \in 0 .. Size - 1 /\ d < nPush - nPop
        BY <2>0, <2>2, <3>2, <4>1 DEF OrderInv, RingInv, Dist, TypeOK
      <4>3. i \in Slots /\ Dist(i) = d
        BY <4>1, <4>2 DEF Dist
      <4>4. m_poArrayT[i] = nPop + 1 + d
        BY <2>0, <4>2, <4>3 DEF OrderInv, RingInv
      <4>5. nPop + 1 + d = k
        BY <2>0, <2>2 DEF TypeOK
      <4> QED
        BY <4>3, <4>4, <4>5
    <3> QED
      BY <2>0, <2>2, <3>1, <3>2 DEF TypeOK
  <2> QED
    BY <2>1, <2>2 DEF NothingOverwritten
<1> QED
  BY <1>1, Invariance, PTL

-----------------------------------------------------------------------------
(* The queue as a first-in first-out queue.                                 *)

\* Events that a handler has received.
Done == IF InHand THEN nPop - 1 ELSE nPop

\* What the array holds for the handlers is the next events, in order.
LEMMA WaitingIs ==
  IInv /\ ~raced =>
    /\ Done \in Nat /\ nPush \in Nat /\ Done <= nPush
    /\ Waiting = [k \in 1 .. nPush - Done |-> Done + k]
<1> SUFFICES ASSUME IInv, ~raced
             PROVE  /\ Done \in Nat /\ nPush \in Nat /\ Done <= nPush
                    /\ Waiting = [k \in 1 .. nPush - Done |-> Done + k]
  OBVIOUS
<1> USE QueueAssumption
<1>0. TypeOK /\ RingInv /\ ConsumerInv
  BY DEF IInv, OrderInv
<1>1. LogOut \in Slots /\ LogIn \in Slots
  BY <1>0 DEF TypeOK, LogOut, LogIn
<1>2. nPush \in Nat /\ nPop \in Nat /\ nPop <= nPush
  BY <1>0 DEF TypeOK, RingInv
<1>3. nPush - nPop \in 0 .. Size - 1
  BY <1>0, <1>1, <1>2 DEF RingInv, Dist
<1>4. ASSUME NEW d \in 0 .. nPush - nPop - 1
      PROVE  m_poArrayT[SlotAt(d)] = nPop + 1 + d
  <2>1. SlotAt(d) \in Slots /\ Dist(SlotAt(d)) = d
    BY <1>1, <1>2, <1>3 DEF SlotAt, Dist
  <2> QED
    BY <1>0, <1>2, <2>1 DEF RingInv
<1>5. CASE InHand
  <2>1. nPop >= 1 /\ m_poArrayT[ptr] = nPop /\ Done = nPop - 1
    BY <1>0, <1>5 DEF ConsumerInv, InHand, Done
  <2>2. ASSUME NEW k \in 1 .. nPush - nPop + 1
        PROVE  (IF k = 1 THEN m_poArrayT[ptr] ELSE m_poArrayT[SlotAt(k - 2)])
                 = Done + k
    <3>1. CASE k = 1
      BY <1>2, <2>1, <3>1
    <3>2. CASE k # 1
      <4>1. k - 2 \in 0 .. nPush - nPop - 1
        BY <1>2, <3>2
      <4>2. m_poArrayT[SlotAt(k - 2)] = nPop + 1 + (k - 2)
        BY <1>4, <4>1
      <4> QED
        BY <1>2, <2>1, <3>2, <4>2
    <3> QED
      BY <3>1, <3>2
  <2>3. nPush - Done = nPush - nPop + 1 /\ Done \in Nat /\ Done <= nPush
    BY <1>2, <2>1
  <2>4. Waiting = [k \in 1 .. nPush - nPop + 1 |-> Done + k]
    BY <1>5, <2>2 DEF Waiting
  <2> QED
    BY <1>2, <2>3, <2>4
<1>6. CASE ~InHand
  <2>1. Done = nPop
    BY <1>6 DEF Done
  <2>2. ASSUME NEW k \in 1 .. nPush - nPop
        PROVE  m_poArrayT[SlotAt(k - 1)] = Done + k
    <3>1. k - 1 \in 0 .. nPush - nPop - 1
      BY <1>2
    <3>2. m_poArrayT[SlotAt(k - 1)] = nPop + 1 + (k - 1)
      BY <1>4, <3>1
    <3> QED
      BY <1>2, <2>1, <3>2
  <2>3. Waiting = [k \in 1 .. nPush - nPop |-> Done + k]
    BY <1>6, <2>2 DEF Waiting
  <2> QED
    BY <1>2, <2>1, <2>3
<1> QED
  BY <1>5, <1>6

\* A run of numbers grows at its end and shrinks at its head.
LEMMA Interval ==
  ASSUME NEW a \in Nat, NEW b \in Nat, a <= b
  PROVE  LET s(x, y) == [k \in 1 .. y - x |-> x + k]
         IN  /\ Len(s(a, b)) = b - a
             /\ Append(s(a, b), b + 1) = s(a, b + 1)
             /\ a < b => /\ s(a, b) # << >>
                         /\ Head(s(a, b)) = a + 1
                         /\ Tail(s(a, b)) = s(a + 1, b)
<1> DEFINE s(x, y) == [k \in 1 .. y - x |-> x + k]
<1>1. \A x, y \in Nat : x <= y =>
        s(x, y) \in Seq(Nat) /\ Len(s(x, y)) = y - x
  OBVIOUS
<1>2. Append(s(a, b), b + 1) = s(a, b + 1)
  BY <1>1
<1>3. ASSUME a < b
      PROVE  /\ s(a, b) # << >> /\ Head(s(a, b)) = a + 1
             /\ Tail(s(a, b)) = s(a + 1, b)
  <2>1. s(a, b) \in Seq(Nat) /\ Len(s(a, b)) = b - a
    BY <1>1
  <2>2. s(a + 1, b) \in Seq(Nat) /\ Len(s(a + 1, b)) = b - (a + 1)
    BY <1>1, <1>3
  <2>3. s(a, b) # << >>
    BY <1>3, <2>1
  <2>4. Head(s(a, b)) = a + 1
    BY <1>3, <2>1, <2>3
  <2>5. /\ Tail(s(a, b)) \in Seq(Nat) /\ Len(Tail(s(a, b))) = b - (a + 1)
        /\ \A i \in 1 .. b - (a + 1) : Tail(s(a, b))[i] = s(a, b)[i + 1]
    <3> HIDE DEF s
    <3> QED
      BY <2>1, <2>3, HeadTailProperties
  <2>6. \A i \in 1 .. b - (a + 1) : s(a, b)[i + 1] = s(a + 1, b)[i]
    OBVIOUS
  <2>7. Tail(s(a, b)) = s(a + 1, b)
    <3> HIDE DEF s
    <3> QED
      BY <2>2, <2>5, <2>6, SeqEqual
  <2> QED
    BY <2>3, <2>4, <2>7
<1> QED
  BY <1>1, <1>2, <1>3

\* The step of a thread, seen from outside: nothing, a push at the store that
\* publishes it, or a delivery when Run copies the event.
LEMMA FifoStep ==
  ASSUME IInv, IInv', [Next]_vars, ~raced'
  PROVE  Fifo!FifoNext \/ UNCHANGED <<nPush, Waiting, seen>>
<1> USE QueueAssumption
<1>0. ~raced
  BY DEF Next, vars, popVars, pushVars, PushNetEvent, PushStep, PushCheck,
         PushWrite, PushAdvance, PushWrap, RunStep, PopCheck, PopAdvance,
         PopWrap, ProcEvent, EndProcEvent
<1> DEFINE s(x, y) == [k \in 1 .. y - x |-> x + k]
<1>1. /\ Done \in Nat /\ nPush \in Nat /\ Done <= nPush
      /\ Waiting = s(Done, nPush)
  BY <1>0, WaitingIs
<1>2. /\ Done' \in Nat /\ nPush' \in Nat /\ Done' <= nPush'
      /\ Waiting' = s(Done', nPush')
  <2>1. (IInv /\ ~raced => Waiting = s(Done, nPush)
                            /\ Done \in Nat /\ nPush \in Nat
                            /\ Done <= nPush)'
    BY WaitingIs, PTL
  <2> QED
    BY <2>1
<1>3. /\ Len(s(Done, nPush)) = nPush - Done
      /\ Append(s(Done, nPush), nPush + 1) = s(Done, nPush + 1)
      /\ Done < nPush => /\ s(Done, nPush) # << >>
                         /\ Head(s(Done, nPush)) = Done + 1
                         /\ Tail(s(Done, nPush)) = s(Done + 1, nPush)
  BY <1>1, Interval
<1> HIDE DEF s
<1>4. ASSUME UNCHANGED <<nPush, seen>>, Done' = Done
      PROVE  UNCHANGED <<nPush, Waiting, seen>>
  BY <1>1, <1>2, <1>4
<1>5. ASSUME NEW t \in Threads, PushAdvance(t) PROVE Fifo!Push
  <2>1. nPush' = nPush + 1 /\ Done' = Done /\ seen' = seen
    BY <1>5 DEF PushAdvance, popVars, Done, InHand
  <2>2. nPush - nPop < Size - 1 /\ nPop \in Nat
    BY <1>0, <1>5 DEF PushAdvance, IInv, OrderInv, ProducerInv, TypeOK
  <2>3. nPush - Done < Size
    BY <1>1, <2>2 DEF Done
  <2> QED
    BY <1>1, <1>2, <1>3, <2>1, <2>3 DEF Fifo!Push
<1>6. ASSUME ProcEvent PROVE Fifo!Deliver
  <2>1. /\ Done = nPop - 1 /\ Done' = nPop /\ nPush' = nPush
        /\ seen' = seen \cup {m_poArrayT[ptr]}
    BY <1>6 DEF ProcEvent, Done, InHand
  <2>2. m_poArrayT[ptr] = nPop /\ nPop <= nPush /\ nPop \in Nat
    BY <1>0, <1>6 DEF ProcEvent, IInv, OrderInv, RingInv, ConsumerInv, TypeOK
  <2>3. Done < nPush /\ Done' = Done + 1 /\ m_poArrayT[ptr] = Done + 1
    BY <1>1, <2>1, <2>2
  <2> QED
    BY <1>1, <1>2, <1>3, <2>1, <2>3 DEF Fifo!Deliver
<1>7. ASSUME NEW t \in Threads,
             PushNetEvent(t) \/ PushCheck(t) \/ PushWrite(t) \/ PushWrap(t)
      PROVE  UNCHANGED <<nPush, Waiting, seen>>
  <2>1. UNCHANGED <<nPush, seen, runPc, nPop>>
    BY <1>7 DEF PushNetEvent, PushCheck, PushWrite, PushWrap, popVars
  <2> QED
    BY <1>4, <2>1 DEF Done, InHand
<1>8. ASSUME PopCheck \/ PopWrap \/ EndProcEvent \/ UNCHANGED vars
      PROVE  UNCHANGED <<nPush, Waiting, seen>>
  <2>1. UNCHANGED <<nPush, seen, nPop>> /\ InHand' = InHand
    BY <1>8 DEF PopCheck, PopWrap, EndProcEvent, vars, popVars, InHand
  <2> QED
    BY <1>4, <2>1 DEF Done
<1>9. ASSUME PopAdvance PROVE UNCHANGED <<nPush, Waiting, seen>>
  <2>1. /\ UNCHANGED <<nPush, seen>> /\ nPop' = nPop + 1
        /\ ~InHand /\ InHand'
    BY <1>9 DEF PopAdvance, InHand
  <2>2. nPop \in Nat
    BY DEF IInv, TypeOK
  <2> QED
    BY <1>4, <2>1, <2>2 DEF Done
<1> QED
  BY <1>5, <1>6, <1>7, <1>8, <1>9 DEF Next, PushStep, RunStep, Fifo!FifoNext

\* The ring, its producers' lock and the unlocked PopFront implement a
\* first-in first-out queue for any number of threads and any size, in a build
\* with two stores up to the first race.
THEOREM FifoCorrect == Spec => FifoUnlessRaced
<1>1. Init => Fifo!FifoInit
  <2> SUFFICES ASSUME Init PROVE Fifo!FifoInit
    OBVIOUS
  <2>1. IInv /\ ~raced /\ nPush = 0 /\ Done = 0 /\ seen = {}
    BY InitInv DEF Init, Done, InHand
  <2>2. Waiting = [k \in 1 .. 0 |-> k]
    BY <2>1, WaitingIs
  <2>3. Waiting = << >>
    BY <2>2
  <2> QED
    BY <2>1, <2>3 DEF Fifo!FifoInit
<1>2. IInv /\ IInv' /\ [Next]_vars =>
        [raced' \/ Fifo!FifoNext]_<<nPush, Waiting, seen>>
  BY FifoStep
<1> QED
  BY <1>1, <1>2, Invariance, PTL DEF Spec, FifoUnlessRaced

\* A build that merges the two stores never shows m_nInCursor = m_nSize.
LEMMA NoRaceInv ==
  ASSUME ~TwoStores
  PROVE  Spec => []~raced
<1> DEFINE I == ~raced /\ \A t \in Threads : pushPc[t] # "wrap"
<1>1. Init => I
  BY DEF Init
<1>2. IInv /\ I /\ [Next]_vars => I'
  <2> SUFFICES ASSUME IInv, I, [Next]_vars PROVE I'
    OBVIOUS
  <2>0. m_nInCursor # Size
    BY DEF IInv, LockInv
  <2>1. CASE UNCHANGED vars
    BY <2>1 DEF vars, pushVars, popVars
  <2>2. ASSUME NEW t \in Threads, PushNetEvent(t) \/ PushStep(t) PROVE I'
    BY <2>2 DEF PushNetEvent, PushStep, PushCheck, PushWrite, PushAdvance,
                PushWrap, Leave, popVars, IInv, TypeOK
  <2>3. ASSUME RunStep PROVE I'
    <3>1. pushPc' = pushPc
      BY <2>3 DEF RunStep, PopCheck, PopAdvance, PopWrap, ProcEvent,
                  EndProcEvent, pushVars
    <3>2. CASE PopCheck
      BY <2>0, <3>1, <3>2, Zenon DEF PopCheck
    <3>3. CASE PopAdvance \/ PopWrap \/ ProcEvent \/ EndProcEvent
      BY <3>1, <3>3 DEF PopAdvance, PopWrap, ProcEvent, EndProcEvent
    <3> QED
      BY <2>3, <3>2, <3>3 DEF RunStep
  <2> QED
    BY <2>1, <2>2, <2>3 DEF Next
<1> QED
  BY <1>1, <1>2, Invariance, PTL DEF Spec

\* In a build that merges the two stores the comment above PopFront is right:
\* popping without the lock keeps the order and loses nothing.
THEOREM MergedOrderCorrect ==
  ASSUME ~TwoStores
  PROVE  Spec => [](PopsInOrder /\ NothingOverwritten)
<1>1. OrderUnlessRaced /\ ~raced => PopsInOrder /\ NothingOverwritten
  BY DEF OrderUnlessRaced
<1> QED
  BY <1>1, OrderCorrect, NoRaceInv, PTL

\* In such a build the queue is a first-in first-out queue without any proviso.
THEOREM MergedFifoCorrect ==
  ASSUME ~TwoStores
  PROVE  Spec => Fifo!FifoSpec
<1>1. ~raced' /\ [raced' \/ Fifo!FifoNext]_<<nPush, Waiting, seen>> =>
        [Fifo!FifoNext]_(Fifo!fifoVars)
  BY DEF Fifo!fifoVars
<1> QED
  BY <1>1, FifoCorrect, NoRaceInv, PTL DEF FifoUnlessRaced, Fifo!FifoSpec

-----------------------------------------------------------------------------
(* Close pushes into the queue and does nothing else to it.                *)

\* Every step of the composition is a step of the queue or leaves it alone.
LEMMA CloseStep == [CloseNext]_cvars => [Next]_vars
<1> SUFFICES ASSUME [CloseNext]_cvars PROVE [Next]_vars
  OBVIOUS
<1>1. CASE UNCHANGED cvars
  BY <1>1 DEF cvars
<1>2. ASSUME NEW t \in Threads, NEW s \in Sockets, CallClose(t, s)
      PROVE  UNCHANGED vars
  BY <1>2 DEF CallClose
<1>3. ASSUME NEW t \in Threads, EnterClose(t)
      PROVE  PushNetEvent(t) \/ UNCHANGED vars
  BY <1>3 DEF EnterClose, AlreadyShut, ShutDown
<1>4. ASSUME NEW t \in Threads, LeaveClose(t) PROVE UNCHANGED vars
  BY <1>4 DEF LeaveClose
<1>5. ASSUME NEW t \in Threads,
             OtherPush(t) \/ (PushStep(t) /\ UNCHANGED closeVars)
      PROVE  PushNetEvent(t) \/ PushStep(t)
  BY <1>5 DEF OtherPush
<1>6. CASE CloseRunStep
  BY <1>6 DEF CloseRunStep, Next
<1> QED
  BY <1>1, <1>2, <1>3, <1>4, <1>5, <1>6 DEF CloseNext, Next

\* The composition implements the queue.
THEOREM CloseImplements == CloseSpec => Spec
<1>1. CloseInit => Init
  BY DEF CloseInit
<1> QED
  BY <1>1, CloseStep, PTL DEF CloseSpec, Spec

\* With sockets being closed on both sides the events still arrive in order, and
\* none that is unhandled is overwritten, up to the first race.
THEOREM CloseOrder == CloseSpec => []OrderUnlessRaced
  BY CloseImplements, OrderCorrect, PTL

\* And the queue is still a first-in first-out queue.
THEOREM CloseFifo == CloseSpec => FifoUnlessRaced
  BY CloseImplements, FifoCorrect, PTL
=============================================================================
