--------------------------- MODULE LoopBuffProofs ---------------------------
(***************************************************************************)
(* Machine-checked proofs about FxLoopBuff for every buffer size, every    *)
(* stream length and both roles of the buffer.                             *)
(*                                                                         *)
(* The safety properties of LoopBuff are not inductive by themselves: that *)
(* the unlocked Clear is harmless rests on where the consumer can stand    *)
(* while the ring is empty (ConsumerInv), and that writes through the      *)
(* pointer GetInCursorPtr returned land on free cells rests on what the    *)
(* producer still knows about that pointer (ProducerInv) and on how far    *)
(* the parser has come (ParserInv).                                        *)
(***************************************************************************)
EXTENDS LoopBuff, TLAPS

\* While the consumer holds a pointer into the ring, the bytes behind it are
\* there; a remove in progress removes at least one byte.
ConsumerInv ==
  /\ consPc \in {"reading", "sent"} =>
       /\ consPtr = m_nOutCursor
       /\ consLen >= 1
       /\ consLen <= nIn - nOut
       /\ consPtr + consLen <= TotalLen
  /\ consPc = "removing" => consLen >= 1
  /\ Role = "recv" => consPc \in {"idle", "removing"}

\* What the producer knows between its calls.
ProducerInv ==
  /\ prodPc = "clear" => m_nFreeLen = TotalLen
  /\ prodPc \in {"window", "written"} =>
       /\ prodPtr = m_nInCursor
       /\ prodLen >= 1
       /\ prodPtr + prodLen <= TotalLen
       /\ prodLen + (nIn - nOut) <= TotalLen
  /\ prodPc = "written" =>
       \A i \in Cells : (i >= prodPtr /\ i < prodPtr + prodLen)
                           => m_pszBuff[i] = nIn + (i - prodPtr)
  /\ prodPc = "committed" =>
       /\ prodLen >= 1
       /\ prodPtr + prodLen <= TotalLen
       /\ m_nInCursor = IF prodPtr + prodLen = TotalLen THEN 0
                                                        ELSE prodPtr + prodLen
  /\ Role = "send" => prodPc \in {"idle", "clear", "ready"}

\* In a receive buffer the parser stands between the consumer and the bytes
\* already in memory, and its cursor is where it should be.
ParserInv ==
  Role = "recv" =>
    /\ nOut <= nUse
    /\ nUse <= Written
    /\ nIn - nUse = IF m_bUseLoop THEN TotalLen - m_nUseCursor + m_nInCursor
                                  ELSE m_nInCursor - m_nUseCursor

IInv ==
  /\ TypeOK
  /\ Geometry
  /\ Contents
  /\ ConsumerInv
  /\ ProducerInv
  /\ ParserInv

-----------------------------------------------------------------------------
(* Every action preserves the invariant: one lemma per action, one step    *)
(* per conjunct the action can disturb.                                    *)

\* Initially the ring is empty and nothing is promised about its contents.
LEMMA InitInv == ASSUME Init PROVE IInv
<1> USE ConstantsAssumption DEF Init, Cells
<1>1. m_bLoop \in BOOLEAN /\ m_bUseLoop \in BOOLEAN
  OBVIOUS
<1>2. m_pszBuff \in [Cells -> Nat]
  OBVIOUS
<1>3. TypeOK
  <2>1. /\ m_nFreeLen \in 0 .. TotalLen
        /\ m_nInCursor \in Cells /\ m_nOutCursor \in Cells
        /\ m_nUseCursor \in Cells
        /\ nIn \in Nat /\ nUse \in Nat /\ nOut \in Nat
        /\ prodPtr \in Cells /\ prodLen \in 0 .. TotalLen
        /\ consPtr \in Cells /\ consLen \in 0 .. TotalLen
    OBVIOUS
  <2>2. QED
    BY <1>1, <1>2, <2>1 DEF TypeOK
<1>4. Geometry /\ ConsumerInv /\ ProducerInv /\ ParserInv
  BY DEF Geometry, Removing, ConsumerInv, ProducerInv, ParserInv, Written
<1>5. Contents
  BY DEF Contents, PosAt, Written
<1>6. QED
  BY <1>3, <1>4, <1>5 DEF IInv

\* IsEmpty() only looks.
LEMMA IsEmptyInv == ASSUME IInv, IsEmpty PROVE IInv'
  BY ConstantsAssumption
  DEF IsEmpty, IInv, TypeOK, Geometry, Contents, ConsumerInv, ProducerInv, ParserInv,
      Cells, PosAt, Written, Removing, Empty, Fits, LockFree, Lengths,
      cursors, prodVars, consVars

\* Clear() runs unlocked, but only where the ring is empty and stays empty.
LEMMA ClearInv == ASSUME IInv, Clear PROVE IInv'
<1> USE ConstantsAssumption DEF Clear, Cells, consVars
<1>0. TypeOK /\ Geometry /\ Contents /\ ConsumerInv /\ ProducerInv /\ ParserInv
  BY DEF IInv

<1>1. nIn = nOut /\ consPc = "idle" /\ (Role = "recv" => nUse = nIn)
  BY <1>0 DEF TypeOK, Geometry, Removing, ConsumerInv, ProducerInv, ParserInv, Written
<1>2. m_bLoop' \in BOOLEAN /\ m_bUseLoop' \in BOOLEAN
  OBVIOUS
<1>3. TypeOK'
  BY <1>0, <1>2 DEF TypeOK
<1>4. (Geometry /\ ConsumerInv /\ ProducerInv /\ ParserInv)'
  BY <1>0, <1>1 DEF TypeOK, Geometry, Removing, ConsumerInv, ProducerInv,
     ParserInv, Written
<1>5. Contents'
  BY <1>0, <1>1 DEF TypeOK, Contents, PosAt, Written
<1>6. QED
  BY <1>3, <1>4, <1>5 DEF IInv

\* What advancing the in cursor does to the geometry, when the bytes fit.
LEMMA AdvanceInEffect ==
  ASSUME IInv, NEW n \in Lengths, LockFree, n <= m_nFreeLen, AdvanceIn(n),
         nIn' = nIn + n, nOut' = nOut, m_nOutCursor' = m_nOutCursor,
         m_nUseCursor' = m_nUseCursor
  PROVE  /\ m_nInCursor' \in Cells
         /\ m_bLoop' \in BOOLEAN /\ m_bUseLoop' \in BOOLEAN
         /\ (nIn - nOut)' = IF m_bLoop'
                              THEN TotalLen - m_nOutCursor + m_nInCursor'
                              ELSE m_nInCursor' - m_nOutCursor
         /\ m_bLoop' => m_nInCursor' <= m_nOutCursor
         /\ m_nInCursor' = IF n + m_nInCursor < TotalLen
                             THEN m_nInCursor + n
                             ELSE m_nInCursor + n - TotalLen
         /\ n + m_nInCursor > TotalLen => ~m_bLoop
         /\ m_bLoop => n + m_nInCursor <= m_nOutCursor
         /\ (Role = "recv" =>
              (nIn' - nUse) = IF m_bUseLoop'
                                THEN TotalLen - m_nUseCursor + m_nInCursor'
                                ELSE m_nInCursor' - m_nUseCursor)
<1> USE ConstantsAssumption DEF Cells, Lengths
<1>1. /\ TypeOK /\ Geometry /\ ParserInv
      /\ m_nFreeLen = TotalLen - (nIn - nOut)
  BY DEF IInv, Geometry, Removing, LockFree, TypeOK
<1>2. CASE n + m_nInCursor < TotalLen
  <2>1. /\ m_nInCursor' = m_nInCursor + n
        /\ m_bLoop' = m_bLoop /\ m_bUseLoop' = m_bUseLoop
    BY <1>2 DEF AdvanceIn
  <2>2. m_bLoop' \in BOOLEAN /\ m_bUseLoop' \in BOOLEAN
    BY <1>1, <2>1 DEF TypeOK
  <2>3. QED
    BY <1>1, <1>2, <2>1, <2>2 DEF TypeOK, Geometry, ParserInv
<1>3. CASE n + m_nInCursor >= TotalLen
  <2>1. /\ m_nInCursor' = n + m_nInCursor - TotalLen
        /\ m_bLoop' = TRUE /\ m_bUseLoop' = TRUE
    BY <1>1, <1>3 DEF AdvanceIn, TypeOK
  <2>2. ~m_bLoop
    BY <1>1, <1>3 DEF TypeOK, Geometry
  <2>3. ~m_bUseLoop \/ Role # "recv"
    BY <1>1, <1>3, <2>2 DEF TypeOK, Geometry, ParserInv
  <2>4. m_bLoop' \in BOOLEAN /\ m_bUseLoop' \in BOOLEAN
    BY <2>1
  <2>5. QED
    BY <1>1, <1>3, <2>1, <2>2, <2>3, <2>4 DEF TypeOK, Geometry, ParserInv
<1>4. QED
  BY <1>1, <1>2, <1>3 DEF TypeOK

\* PushBuff writes free cells only, around the end of the ring if need be.
LEMMA PushBuffInv == ASSUME NEW n \in Lengths, IInv, PushBuff(n) PROVE IInv'
<1> USE ConstantsAssumption DEF PushBuff, Cells, Lengths, cursors, prodVars, consVars, LockFree, Fits
<1>0. TypeOK /\ Geometry /\ Contents /\ ConsumerInv /\ ProducerInv /\ ParserInv
  BY DEF IInv

<1>1. CASE ~Fits(n)
  BY <1>0, <1>1 DEF IInv, TypeOK, Geometry, Contents, ConsumerInv, ProducerInv,
     ParserInv, PosAt, Written, Removing
<1>2. CASE Fits(n)
  <2>1. /\ n <= m_nFreeLen /\ AdvanceIn(n)
        /\ nIn' = nIn + n /\ nOut' = nOut
        /\ m_nOutCursor' = m_nOutCursor /\ m_nUseCursor' = m_nUseCursor
        /\ m_nFreeLen' = m_nFreeLen - n
    BY <1>2
  <2>2. /\ m_nInCursor' \in Cells
        /\ m_bLoop' \in BOOLEAN /\ m_bUseLoop' \in BOOLEAN
        /\ (nIn - nOut)' = IF m_bLoop'
                             THEN TotalLen - m_nOutCursor + m_nInCursor'
                             ELSE m_nInCursor' - m_nOutCursor
        /\ m_bLoop' => m_nInCursor' <= m_nOutCursor
        /\ m_bLoop => n + m_nInCursor <= m_nOutCursor
    BY <2>1, AdvanceInEffect
  <2> HIDE DEF PushBuff
  <2>3. m_pszBuff' = [i \in Cells |->
                 IF i >= m_nInCursor /\ i < m_nInCursor + n
                   THEN nIn + (i - m_nInCursor)
                 ELSE IF i < m_nInCursor + n - TotalLen
                   THEN nIn + (TotalLen - m_nInCursor) + i
                 ELSE m_pszBuff[i]]
    BY <1>2 DEF PushBuff
  <2>4. /\ prodPc = "ready" /\ prodPc' = "idle" /\ Role = "send"
        /\ consPc # "removing"
        /\ UNCHANGED <<nUse, prodPtr, prodLen, consPc, consPtr, consLen>>
    BY DEF PushBuff
  <2>5. m_nFreeLen = TotalLen - (nIn - nOut)
    BY <1>0, <2>4 DEF Geometry, Removing, TypeOK
  <2>6. m_pszBuff' \in [Cells -> Nat]
    BY <1>0, <2>3 DEF TypeOK
  <2>7. TypeOK'
    BY <1>0, <2>1, <2>2, <2>4, <2>6 DEF TypeOK
  <2>8. Geometry'
    <3>1. Removing' = 0 /\ m_nFreeLen' = TotalLen - (nIn' - nOut') - Removing'
      BY <1>0, <2>1, <2>4, <2>5 DEF TypeOK, Removing
    <3>2. nOut' <= nIn'
      BY <1>0, <2>1 DEF TypeOK, Geometry
    <3>3. QED
      BY <2>1, <2>2, <3>1, <3>2 DEF Geometry
  <2>9. (ConsumerInv /\ ProducerInv /\ ParserInv)'
    BY <1>0, <2>1, <2>4 DEF TypeOK, ConsumerInv, ProducerInv, ParserInv
  <2>10. Contents'
    <3> SUFFICES ASSUME NEW i \in Cells, PosAt(i)' < nIn'
                 PROVE  m_pszBuff'[i] = PosAt(i)'
      BY <2>4 DEF Contents, Written
    <3>1. PosAt(i)' = PosAt(i)
      BY <2>1 DEF PosAt
    <3>2. CASE PosAt(i) < nIn
      <4>1. m_pszBuff[i] = PosAt(i)
        BY <1>0, <2>4, <3>2 DEF Contents, Written
      <4>2. /\ ~(i >= m_nInCursor /\ i < m_nInCursor + n)
            /\ ~(i < m_nInCursor + n - TotalLen)
        BY <1>0, <2>1, <2>5, <3>2 DEF TypeOK, Geometry, PosAt
      <4>3. QED
        BY <2>3, <3>1, <4>1, <4>2
    <3>3. CASE PosAt(i) >= nIn
      <4>1. PosAt(i) < nIn + n
        BY <2>1, <3>1
      <4>2. CASE i >= m_nOutCursor
        <5>1. i >= m_nInCursor /\ i < m_nInCursor + n
                /\ PosAt(i) = nIn + (i - m_nInCursor)
          BY <1>0, <3>3, <4>1, <4>2 DEF TypeOK, Geometry, PosAt
        <5>2. QED
          BY <2>3, <3>1, <5>1
      <4>3. CASE i < m_nOutCursor /\ m_bLoop
        <5>1. i >= m_nInCursor /\ i < m_nInCursor + n
                /\ PosAt(i) = nIn + (i - m_nInCursor)
          BY <1>0, <3>3, <4>1, <4>3 DEF TypeOK, Geometry, PosAt
        <5>2. QED
          BY <2>3, <3>1, <5>1
      <4>4. CASE i < m_nOutCursor /\ ~m_bLoop
        <5>1. /\ i < m_nInCursor
              /\ i < m_nInCursor + n - TotalLen
              /\ PosAt(i) = nIn + (TotalLen - m_nInCursor) + i
          BY <1>0, <3>3, <4>1, <4>4 DEF TypeOK, Geometry, PosAt
        <5>2. QED
          BY <1>0, <2>3, <3>1, <5>1 DEF TypeOK
      <4>5. QED
        BY <1>0, <4>2, <4>3, <4>4 DEF TypeOK
    <3>4. QED
      BY <1>0, <3>2, <3>3 DEF PosAt, TypeOK
  <2>11. QED
    BY <2>7, <2>8, <2>9, <2>10 DEF IInv
<1>3. QED
  BY <1>1, <1>2

\* GetInCursorPtr hands out free contiguous cells.
LEMMA GetInCursorPtrInv == ASSUME IInv, GetInCursorPtr PROVE IInv'
  BY ConstantsAssumption
  DEF GetInCursorPtr, InCursorLen, IInv, TypeOK, Geometry, Contents, ConsumerInv, ProducerInv, ParserInv,
      Cells, PosAt, Written, Removing, Empty, Fits, LockFree, Lengths,
      cursors, prodVars, consVars

\* recv() writes inside the window.
LEMMA RecvIntoWindowInv == ASSUME NEW n \in Lengths, IInv, RecvIntoWindow(n) PROVE IInv'
  BY ConstantsAssumption
  DEF RecvIntoWindow, WriteAt, IInv, TypeOK, Geometry, Contents, ConsumerInv, ProducerInv, ParserInv,
      Cells, PosAt, Written, Removing, Empty, Fits, LockFree, Lengths,
      cursors, prodVars, consVars

\* CostBuff of bytes that lie inside the producer's window: the part of the
\* invariant that does not depend on whether the bytes are in memory yet.
LEMMA CostBuffInv ==
  ASSUME IInv, NEW n \in Lengths, NEW pc, CostBuff(n, pc), n <= prodLen,
         prodPc \in {"window", "written"}, pc \in {"parse", "committed"}
  PROVE  TypeOK' /\ Geometry' /\ ConsumerInv' /\ ProducerInv' /\ ParserInv'
<1> USE ConstantsAssumption DEF Cells, Lengths, consVars
<1>0. TypeOK /\ Geometry /\ ConsumerInv /\ ProducerInv /\ ParserInv
  BY DEF IInv
<1>1. n <= m_nFreeLen /\ m_nFreeLen = TotalLen - (nIn - nOut)
  BY <1>0 DEF TypeOK, Geometry, Removing, ProducerInv, CostBuff, LockFree
<1>2. /\ LockFree /\ AdvanceIn(n) /\ m_nFreeLen' = m_nFreeLen - n
      /\ nIn' = nIn + n /\ nOut' = nOut /\ nUse' = nUse
      /\ m_nOutCursor' = m_nOutCursor /\ m_nUseCursor' = m_nUseCursor
      /\ prodLen' = n /\ prodPc' = pc /\ prodPtr' = prodPtr
      /\ m_pszBuff' = m_pszBuff
      /\ consPc' = consPc /\ consPtr' = consPtr /\ consLen' = consLen
  BY <1>1 DEF CostBuff, Fits
<1>3. /\ m_nInCursor' \in Cells
      /\ m_bLoop' \in BOOLEAN /\ m_bUseLoop' \in BOOLEAN
      /\ (nIn - nOut)' = IF m_bLoop'
                           THEN TotalLen - m_nOutCursor + m_nInCursor'
                           ELSE m_nInCursor' - m_nOutCursor
      /\ m_bLoop' => m_nInCursor' <= m_nOutCursor
      /\ m_nInCursor' = IF n + m_nInCursor < TotalLen
                          THEN m_nInCursor + n
                          ELSE m_nInCursor + n - TotalLen
      /\ (Role = "recv" =>
           (nIn' - nUse) = IF m_bUseLoop'
                             THEN TotalLen - m_nUseCursor + m_nInCursor'
                             ELSE m_nInCursor' - m_nUseCursor)
  BY <1>1, <1>2, AdvanceInEffect
<1>4. TypeOK'
  BY <1>0, <1>1, <1>2, <1>3 DEF TypeOK
<1>5. Geometry'
  <2>1. Removing' = 0 /\ m_nFreeLen' = TotalLen - (nIn' - nOut') - Removing'
    BY <1>0, <1>1, <1>2 DEF TypeOK, Removing, LockFree
  <2>2. nOut' <= nIn'
    BY <1>0, <1>2 DEF TypeOK, Geometry
  <2>3. QED
    BY <1>2, <1>3, <2>1, <2>2 DEF Geometry
<1>6. ConsumerInv'
  BY <1>0, <1>2 DEF TypeOK, ConsumerInv
<1>7. ProducerInv'
  BY <1>0, <1>2, <1>3 DEF TypeOK, ProducerInv
<1>8. ParserInv'
  <2>1. nUse' <= Written'
    BY <1>0, <1>2 DEF TypeOK, ParserInv, Written, ProducerInv
  <2>2. QED
    BY <1>0, <1>2, <1>3, <2>1 DEF ParserInv
<1>9. QED
  BY <1>4, <1>5, <1>6, <1>7, <1>8

\* CostBuff after recv() makes the written bytes part of the ring.
LEMMA CommitRecvInv == ASSUME IInv, CommitRecv PROVE IInv'
<1> USE ConstantsAssumption DEF Cells
<1>0. TypeOK /\ Geometry /\ Contents /\ ProducerInv
  BY DEF IInv
<1>1. /\ prodPc = "written" /\ prodLen \in Lengths
      /\ CostBuff(prodLen, "parse") /\ prodLen <= prodLen
  BY <1>0 DEF CommitRecv, ProducerInv, TypeOK, Lengths
<1>2. TypeOK' /\ Geometry' /\ ConsumerInv' /\ ProducerInv' /\ ParserInv'
  BY <1>1, CostBuffInv
<1>3. /\ nIn' = nIn + prodLen /\ nOut' = nOut /\ prodPc' = "parse"
      /\ m_nOutCursor' = m_nOutCursor /\ m_pszBuff' = m_pszBuff
  BY <1>1 DEF CostBuff
<1>4. Contents'
  <2> SUFFICES ASSUME NEW i \in Cells, PosAt(i) < nIn + prodLen
               PROVE  m_pszBuff[i] = PosAt(i)
    BY <1>3 DEF Contents, Written, PosAt
  <2>1. CASE PosAt(i) < nIn
    BY <1>0, <1>1, <2>1 DEF Contents, Written
  <2>2. CASE PosAt(i) >= nIn
    <3>1. /\ i >= prodPtr /\ i < prodPtr + prodLen
          /\ PosAt(i) = nIn + (i - prodPtr)
      BY <1>0, <1>1, <2>2 DEF TypeOK, Geometry, PosAt, ProducerInv
    <3>2. QED
      BY <1>0, <1>1, <3>1 DEF ProducerInv
  <2>3. QED
    BY <1>0, <2>1, <2>2 DEF TypeOK, PosAt
<1>5. QED
  BY <1>2, <1>4 DEF IInv

\* CostBuff before the copy: the bytes are counted, not yet in memory.
LEMMA CommitThenCopyInv ==
  ASSUME NEW n \in Lengths, IInv, CommitThenCopy(n) PROVE IInv'
<1> USE ConstantsAssumption DEF Cells
<1>0. TypeOK /\ Contents
  BY DEF IInv
<1>1. /\ prodPc = "window" /\ n <= prodLen /\ CostBuff(n, "committed")
  BY DEF CommitThenCopy
<1>2. TypeOK' /\ Geometry' /\ ConsumerInv' /\ ProducerInv' /\ ParserInv'
  BY <1>1, CostBuffInv
<1>3. /\ nIn' = nIn + n /\ nOut' = nOut /\ prodPc' = "committed"
      /\ prodLen' = n
      /\ m_nOutCursor' = m_nOutCursor /\ m_pszBuff' = m_pszBuff
  BY <1>1 DEF CostBuff
<1>4. Contents'
  <2>1. Written' = Written
    BY <1>0, <1>1, <1>3 DEF Written, TypeOK, Lengths
  <2>2. QED
    BY <1>0, <1>3, <2>1 DEF Contents, PosAt
<1>5. QED
  BY <1>2, <1>4 DEF IInv

\* The late copy lands on the committed cells.
LEMMA CopyIntoWindowInv == ASSUME IInv, CopyIntoWindow PROVE IInv'
<1> USE ConstantsAssumption DEF CopyIntoWindow, WriteAt, Cells, cursors, consVars
<1>0. TypeOK /\ Geometry /\ Contents /\ ConsumerInv /\ ProducerInv /\ ParserInv
  BY DEF IInv

<1>1. m_pszBuff' \in [Cells -> Nat]
  <2>1. nIn - prodLen \in Nat
    BY <1>0 DEF TypeOK, ParserInv, Written, ProducerInv
  <2>2. QED
    BY <1>0, <2>1 DEF TypeOK
<1>2. TypeOK'
  BY <1>0, <1>1 DEF TypeOK
<1>3. (Geometry /\ ConsumerInv /\ ProducerInv /\ ParserInv)'
  BY <1>0 DEF TypeOK, Geometry, Removing, ConsumerInv, ProducerInv, ParserInv,
     Written
<1>4. Contents'
  <2> SUFFICES ASSUME NEW i \in Cells, PosAt(i) < nIn
               PROVE  m_pszBuff'[i] = PosAt(i)
    BY DEF Contents, Written, PosAt
  <2>1. CASE PosAt(i) < nIn - prodLen
    <3>1. m_pszBuff[i] = PosAt(i)
      BY <1>0, <2>1 DEF Contents, Written
    <3>2. ~(i >= prodPtr /\ i < prodPtr + prodLen)
      BY <1>0, <2>1 DEF TypeOK, Geometry, PosAt, ProducerInv
    <3>3. QED
      BY <3>1, <3>2
  <2>2. CASE PosAt(i) >= nIn - prodLen
    <3>1. /\ i >= prodPtr /\ i < prodPtr + prodLen
          /\ PosAt(i) = nIn - prodLen + (i - prodPtr)
      BY <1>0, <2>2 DEF TypeOK, Geometry, PosAt, ProducerInv
    <3>2. QED
      BY <3>1
  <2>3. QED
    BY <1>0, <2>1, <2>2 DEF TypeOK, PosAt
<1>5. QED
  BY <1>2, <1>3, <1>4 DEF IInv

\* CostUsedBuff never refuses what GetUsedCursorPtr showed.
LEMMA CostUsedBuffInv == ASSUME NEW n \in Lengths, IInv, CostUsedBuff(n) PROVE IInv'
<1> USE ConstantsAssumption DEF Cells, Lengths, cursors, prodVars, consVars
<1>0. TypeOK /\ Geometry /\ Contents /\ ConsumerInv /\ ProducerInv /\ ParserInv
  BY DEF IInv

<1>1. /\ prodPc = "parse" /\ n <= UsedCursorLen /\ nUse' = nUse + n
      /\ consPc # "removing"
      /\ UNCHANGED <<m_nFreeLen, m_nInCursor, m_nOutCursor, m_bLoop, m_pszBuff,
                     nIn, nOut, prodPc, prodPtr, prodLen, consPc, consPtr,
                     consLen>>
  BY DEF CostUsedBuff, UseBuff, LockFree
<1>2. Role = "recv" /\ m_nFreeLen = TotalLen - (nIn - nOut)
  BY <1>0, <1>1 DEF ProducerInv, TypeOK, Geometry, Removing
<1>3. n <= nIn - nUse
  BY <1>0, <1>1, <1>2 DEF UsedCursorLen, TypeOK, ParserInv, Empty, Written
<1>4. m_nFreeLen + n <= TotalLen
  BY <1>0, <1>2, <1>3 DEF TypeOK, ParserInv
<1>5. /\ m_nUseCursor' \in Cells /\ m_bUseLoop' \in BOOLEAN
      /\ nIn - (nUse + n) = IF m_bUseLoop'
                              THEN TotalLen - m_nUseCursor' + m_nInCursor
                              ELSE m_nInCursor - m_nUseCursor'
  <2>1. CASE ~m_bUseLoop
    <3>1. n + m_nUseCursor <= m_nInCursor
      BY <1>0, <1>2, <1>3, <2>1 DEF TypeOK, ParserInv
    <3>2. m_nUseCursor' = m_nUseCursor + n /\ m_bUseLoop' = m_bUseLoop
      BY <1>0, <1>4, <2>1, <3>1 DEF CostUsedBuff, UseBuff, UseRefused, TypeOK
    <3>3. QED
      BY <1>0, <1>2, <2>1, <3>1, <3>2 DEF TypeOK, ParserInv
  <2>2. CASE m_bUseLoop /\ n + m_nUseCursor < TotalLen
    <3>1. m_nUseCursor' = m_nUseCursor + n /\ m_bUseLoop' = m_bUseLoop
      <4>1. ~UseRefused(n)
        BY <1>0, <1>4, <2>2 DEF UseRefused, TypeOK
      <4>2. QED
        <5>1. ~(n + m_nUseCursor >= TotalLen)
          BY <1>0, <2>2 DEF TypeOK
        <5>2. QED
          BY <2>2, <4>1, <5>1, Zenon DEF CostUsedBuff, UseBuff
    <3>2. QED
      BY <1>0, <1>2, <2>2, <3>1 DEF TypeOK, ParserInv
  <2>3. CASE m_bUseLoop /\ n + m_nUseCursor >= TotalLen
    <3>1. m_nUseCursor + n - TotalLen <= m_nInCursor
      BY <1>0, <1>2, <1>3, <2>3 DEF TypeOK, ParserInv
    <3>2. m_nUseCursor' = m_nUseCursor + n - TotalLen /\ m_bUseLoop' = FALSE
      <4>1. ~UseRefused(n)
        BY <1>0, <1>4, <2>3, <3>1 DEF UseRefused, TypeOK
      <4>2. QED
        <5>1. ~(n + m_nUseCursor < TotalLen)
          BY <1>0, <2>3 DEF TypeOK
        <5>2. QED
          BY <2>3, <4>1, <5>1, Zenon DEF CostUsedBuff, UseBuff
    <3>3. m_bUseLoop' \in BOOLEAN
      BY <3>2
    <3>4. QED
      BY <1>0, <1>2, <2>3, <3>1, <3>2, <3>3 DEF TypeOK, ParserInv
  <2>4. QED
    BY <1>0, <2>1, <2>2, <2>3 DEF TypeOK
<1>6. TypeOK'
  <2>1. nUse + n \in Nat
    BY <1>0 DEF TypeOK
  <2>2. QED
    BY <1>0, <1>1, <1>5, <2>1 DEF TypeOK
<1>7. Geometry' /\ Contents' /\ ConsumerInv' /\ ProducerInv'
  BY <1>0, <1>1 DEF Geometry, Removing, Contents, PosAt, Written, ConsumerInv,
     ProducerInv
<1>8. ParserInv'
  <2>1. nOut' <= nUse' /\ nUse' <= Written'
    BY <1>0, <1>1, <1>2, <1>3 DEF TypeOK, ParserInv, Written
  <2>2. QED
    BY <1>1, <1>5, <2>1 DEF ParserInv
<1>9. QED
  BY <1>6, <1>7, <1>8 DEF IInv

\* Another piece is put in first.
LEMMA NextPieceInv == ASSUME IInv, NextPiece PROVE IInv'
  BY ConstantsAssumption
  DEF NextPiece, IInv, TypeOK, Geometry, Contents, ConsumerInv, ProducerInv,
      ParserInv, Cells, PosAt, Written, Removing, cursors, consVars

\* The parser returns.
LEMMA EndParseInv == ASSUME IInv, EndParse PROVE IInv'
  BY ConstantsAssumption
  DEF EndParse, IInv, TypeOK, Geometry, Contents, ConsumerInv, ProducerInv, ParserInv,
      Cells, PosAt, Written, Removing, Empty, Fits, LockFree, Lengths,
      cursors, prodVars, consVars

\* GetOutCursorPtr hands out contiguous bytes of the stream.
LEMMA GetOutCursorPtrInv == ASSUME IInv, GetOutCursorPtr PROVE IInv'
  BY ConstantsAssumption
  DEF GetOutCursorPtr, OutCursorLen, IInv, TypeOK, Geometry, Contents, ConsumerInv, ProducerInv, ParserInv,
      Cells, PosAt, Written, Removing, Empty, Fits, LockFree, Lengths,
      cursors, prodVars, consVars

\* send() reads.
LEMMA SendFromWindowInv == ASSUME NEW n \in Lengths, IInv, SendFromWindow(n) PROVE IInv'
  BY ConstantsAssumption
  DEF SendFromWindow, IInv, TypeOK, Geometry, Contents, ConsumerInv, ProducerInv, ParserInv,
      Cells, PosAt, Written, Removing, Empty, Fits, LockFree, Lengths,
      cursors, prodVars, consVars

\* send() would block.
LEMMA SendAgainInv == ASSUME IInv, SendAgain PROVE IInv'
  BY ConstantsAssumption
  DEF SendAgain, IInv, TypeOK, Geometry, Contents, ConsumerInv, ProducerInv, ParserInv,
      Cells, PosAt, Written, Removing, Empty, Fits, LockFree, Lengths,
      cursors, prodVars, consVars

\* The first half of DiscardBuff and PopBuff, of bytes that are there.
LEMMA BeginRemoveInv ==
  ASSUME IInv, NEW n \in Lengths, BeginRemove(n), consPc # "removing",
         n <= nIn - nOut, Role = "recv" => n <= nUse - nOut
  PROVE  IInv'
<1> USE ConstantsAssumption DEF Cells, Lengths, prodVars
<1>0. TypeOK /\ Geometry /\ Contents /\ ConsumerInv /\ ProducerInv /\ ParserInv
  BY DEF IInv
<1>1. n + m_nFreeLen <= TotalLen
  BY <1>0 DEF TypeOK, Geometry, Removing
<1>2. /\ nOut' = nOut + n /\ consLen' = n /\ consPc' = "removing"
      /\ AdvanceOut(n)
      /\ UNCHANGED <<m_nFreeLen, m_nInCursor, m_nUseCursor, m_bUseLoop,
                     m_pszBuff, nIn, nUse, prodPc, prodPtr, prodLen, consPtr>>
  BY <1>0, <1>1 DEF BeginRemove, TypeOK
<1>3. /\ m_nOutCursor' \in Cells /\ m_bLoop' \in BOOLEAN
      /\ nIn - (nOut + n) = IF m_bLoop'
                              THEN TotalLen - m_nOutCursor' + m_nInCursor
                              ELSE m_nInCursor - m_nOutCursor'
      /\ m_bLoop' => m_nInCursor <= m_nOutCursor'
      /\ m_nOutCursor' = IF n + m_nOutCursor < TotalLen
                           THEN n + m_nOutCursor
                           ELSE n + m_nOutCursor - TotalLen
  <2>1. CASE n + m_nOutCursor < TotalLen
    <3>1. m_nOutCursor' = m_nOutCursor + n /\ m_bLoop' = m_bLoop
      BY <1>2, <2>1 DEF AdvanceOut
    <3>2. QED
      BY <1>0, <2>1, <3>1 DEF TypeOK, Geometry
  <2>2. CASE n + m_nOutCursor >= TotalLen
    <3>1. m_nOutCursor' = n + m_nOutCursor - TotalLen /\ m_bLoop' = FALSE
      BY <1>0, <1>2, <2>2 DEF AdvanceOut, TypeOK
    <3>2. m_bLoop
      BY <1>0, <2>2 DEF TypeOK, Geometry
    <3>3. m_bLoop' \in BOOLEAN
      BY <3>1
    <3>4. QED
      BY <1>0, <2>2, <3>1, <3>2, <3>3 DEF TypeOK, Geometry
  <2>3. QED
    BY <1>0, <2>1, <2>2 DEF TypeOK
<1>4. TypeOK'
  <2>1. nOut + n \in Nat
    BY <1>0 DEF TypeOK
  <2>2. QED
    BY <1>0, <1>2, <1>3, <2>1 DEF TypeOK
<1>5. Geometry'
  <2>1. Removing' = n /\ Removing = 0
    BY <1>2 DEF Removing
  <2>2. m_nFreeLen' = TotalLen - (nIn' - nOut') - Removing' /\ nOut' <= nIn'
    BY <1>0, <1>2, <2>1 DEF TypeOK, Geometry
  <2>3. QED
    BY <1>2, <1>3, <2>2 DEF Geometry
<1>6. Contents'
  <2> SUFFICES ASSUME NEW i \in Cells, PosAt(i)' < Written
               PROVE  m_pszBuff[i] = PosAt(i)'
    BY <1>2 DEF Contents, Written
  <2>1. Written <= nIn /\ Written \in Int
    BY <1>0 DEF TypeOK, Written
  <2>2. PosAt(i)' = PosAt(i)
    BY <1>0, <1>2, <1>3, <2>1 DEF TypeOK, Geometry, PosAt
  <2>3. QED
    BY <1>0, <2>2 DEF Contents
<1>7. (ConsumerInv /\ ProducerInv /\ ParserInv)'
  BY <1>0, <1>2 DEF TypeOK, Geometry, ConsumerInv, ProducerInv, ParserInv,
     Written
<1>8. QED
  BY <1>4, <1>5, <1>6, <1>7 DEF IInv

\* DiscardBuff never refuses what send() took.
LEMMA DiscardBuffInv == ASSUME IInv, DiscardBuff PROVE IInv'
<1>1. /\ consPc = "sent" /\ BeginRemove(consLen) /\ consLen \in Lengths
      /\ consLen <= nIn - nOut /\ Role # "recv"
  BY ConstantsAssumption DEF DiscardBuff, IInv, ConsumerInv, TypeOK, Lengths
<1>2. QED
  BY <1>1, BeginRemoveInv

\* PopBuff never refuses what the parser announced.
LEMMA PopBuffInv == ASSUME NEW n \in Lengths, IInv, PopBuff(n) PROVE IInv'
<1>1. /\ consPc # "removing" /\ BeginRemove(n)
      /\ n <= nIn - nOut /\ n <= nUse - nOut
  BY ConstantsAssumption
  DEF PopBuff, CopyOut, IInv, TypeOK, ParserInv, Written, Lengths
<1>2. QED
  BY <1>1, BeginRemoveInv

\* The free length follows the cursor.
LEMMA EndRemoveInv == ASSUME IInv, EndRemove PROVE IInv'
  BY ConstantsAssumption
  DEF EndRemove, IInv, TypeOK, Geometry, Contents, ConsumerInv, ProducerInv, ParserInv,
      Cells, PosAt, Written, Removing, Empty, Fits, LockFree, Lengths,
      cursors, prodVars, consVars

-----------------------------------------------------------------------------
(* The theorems.                                                           *)

\* Every step of either thread preserves the inductive invariant.
LEMMA NextInv == ASSUME IInv, [Next]_vars PROVE IInv'
<1>1. CASE UNCHANGED vars
  BY <1>1 DEF vars, IInv, TypeOK, Geometry, Contents, ConsumerInv, ProducerInv,
     ParserInv, PosAt, Written, Removing, cursors, prodVars, consVars
<1>2. CASE SendNext
  BY <1>2, IsEmptyInv, ClearInv, PushBuffInv, GetOutCursorPtrInv,
     SendFromWindowInv, SendAgainInv, DiscardBuffInv, EndRemoveInv
  DEF SendNext
<1>3. CASE RecvNext
  BY <1>3, IsEmptyInv, ClearInv, GetInCursorPtrInv, RecvIntoWindowInv,
     CommitRecvInv, CommitThenCopyInv, CopyIntoWindowInv, NextPieceInv,
     CostUsedBuffInv, EndParseInv, PopBuffInv, EndRemoveInv
  DEF RecvNext
<1>4. QED
  BY <1>1, <1>2, <1>3 DEF Next

\* The inductive invariant holds in every reachable state.
LEMMA Invariance == Spec => []IInv
<1>1. Init => IInv
  BY InitInv
<1>2. IInv /\ [Next]_vars => IInv'
  BY NextInv
<1>3. QED
  BY <1>1, <1>2, PTL DEF Spec

\* The variables of FxLoopBuff stay in their ranges; in particular no cursor
\* ever reaches TotalLen, the index one past the memory.
THEOREM TypeCorrect == Spec => []TypeOK
<1>1. IInv => TypeOK
  BY DEF IInv
<1>2. QED
  BY <1>1, Invariance, PTL

\* For every buffer size, the free length and the cursors agree at every moment
\* the unlocked IsEmpty and Clear can look at them.
THEOREM GeometryCorrect == Spec => []Geometry
<1>1. IInv => Geometry
  BY DEF IInv
<1>2. QED
  BY <1>1, Invariance, PTL

\* For every buffer size, no byte between producer and consumer is overwritten.
THEOREM ContentsCorrect == Spec => []Contents
<1>1. IInv => Contents
  BY DEF IInv
<1>2. QED
  BY <1>1, Invariance, PTL

\* The memory handed to send() is stable while the kernel reads it.
THEOREM OutWindowCorrect == Spec => []OutWindowStable
<1>1. IInv => OutWindowStable
  <2> SUFFICES ASSUME IInv, consPc = "reading", NEW i \in 0 .. consLen - 1
               PROVE  /\ consPtr + i \in Cells
                      /\ m_pszBuff[consPtr + i] = nOut + i
    BY DEF OutWindowStable
  <2> USE ConstantsAssumption DEF Cells
  <2>1. /\ consPtr + i \in Cells
        /\ PosAt(consPtr + i) = nOut + i
        /\ nOut + i < Written
    BY DEF IInv, TypeOK, ConsumerInv, ProducerInv, PosAt, Written
  <2>2. QED
    BY <2>1 DEF IInv, Contents
<1>2. QED
  BY <1>1, Invariance, PTL

\* What IInv says of the piece of the ring the parser sees.
LEMMA InvView == IInv => ParserView
<1> SUFFICES ASSUME IInv, Role = "recv", prodPc # "committed", nUse < nIn
             PROVE  /\ UseLen = nIn - nUse
                    /\ UsedCursorLen > 0
                    /\ \A i \in 0 .. UsedCursorLen - 1 :
                         /\ m_nUseCursor + i \in Cells
                         /\ m_pszBuff[m_nUseCursor + i] = nUse + i
  BY DEF ParserView
<1> USE ConstantsAssumption DEF Cells
<1>0. TypeOK /\ Geometry /\ Contents /\ ParserInv /\ ConsumerInv
  BY DEF IInv
<1>1. ~Empty
  BY <1>0 DEF TypeOK, Geometry, Removing, ParserInv, ConsumerInv, Empty
<1>2. UseLen = nIn - nUse /\ UsedCursorLen > 0
  BY <1>0, <1>1 DEF TypeOK, ParserInv, UseLen, UsedCursorLen
<1>3. ASSUME NEW i \in 0 .. UsedCursorLen - 1
      PROVE  /\ m_nUseCursor + i \in Cells
             /\ m_pszBuff[m_nUseCursor + i] = nUse + i
  <2>1. /\ m_nUseCursor + i \in Cells
        /\ PosAt(m_nUseCursor + i) = nUse + i
        /\ nUse + i < nIn
    BY <1>0, <1>1 DEF TypeOK, Geometry, ParserInv, UsedCursorLen, PosAt,
       Written
  <2>2. QED
    BY <1>0, <2>1 DEF Contents, Written
<1>4. QED
  BY <1>2, <1>3

\* The parser sees exactly the received bytes it has not accepted yet.
THEOREM ParserViewCorrect == Spec => []ParserView
  BY InvView, Invariance, PTL

\* The consumer takes the stream in order, each byte exactly once.
THEOREM ReadsInOrderCorrect == Spec => ReadsInOrder
<1> DEFINE InOrder == got' # got => \A i \in DOMAIN got' : got'[i] = nOut + i
<1>1. ASSUME IInv, [Next]_vars PROVE [InOrder]_vars
  <2> USE ConstantsAssumption DEF Cells, Lengths
  <2>0. TypeOK /\ Geometry /\ Contents /\ ConsumerInv /\ ProducerInv /\ ParserInv
    BY <1>1 DEF IInv
  <2>1. ASSUME NEW n \in Lengths, SendFromWindow(n) PROVE InOrder
    <3>1. /\ got' = [i \in 0 .. n - 1 |-> m_pszBuff[consPtr + i]]
          /\ consPc = "reading" /\ n <= consLen
      BY <2>1 DEF SendFromWindow
    <3>2. ASSUME NEW i \in 0 .. n - 1 PROVE m_pszBuff[consPtr + i] = nOut + i
      <4>1. /\ consPtr + i \in Cells
            /\ PosAt(consPtr + i) = nOut + i
            /\ nOut + i < Written
        BY <2>0, <3>1 DEF TypeOK, ConsumerInv, ProducerInv, PosAt, Written
      <4>2. QED
        BY <2>0, <4>1 DEF Contents
    <3>3. QED
      BY <3>1, <3>2
  <2>2. ASSUME NEW n \in Lengths, PopBuff(n) PROVE InOrder
    <3>1. /\ got' = [i \in 0 .. n - 1 |->
                       IF m_nOutCursor + i < TotalLen
                         THEN m_pszBuff[m_nOutCursor + i]
                         ELSE m_pszBuff[m_nOutCursor + i - TotalLen]]
          /\ Role = "recv" /\ n <= nUse - nOut
      BY <2>2 DEF PopBuff, CopyOut
    <3>2. ASSUME NEW i \in 0 .. n - 1 PROVE got'[i] = nOut + i
      <4>1. nOut + i < Written
        BY <2>0, <3>1 DEF TypeOK, ParserInv, Written
      <4>2. CASE m_nOutCursor + i < TotalLen
        <5>1. /\ m_nOutCursor + i \in Cells
              /\ PosAt(m_nOutCursor + i) = nOut + i
          BY <2>0, <4>2 DEF TypeOK, PosAt
        <5>2. QED
          BY <2>0, <3>1, <4>1, <4>2, <5>1 DEF Contents
      <4>3. CASE m_nOutCursor + i >= TotalLen
        <5>1. /\ m_nOutCursor + i - TotalLen \in Cells
              /\ PosAt(m_nOutCursor + i - TotalLen) = nOut + i
              /\ ~(m_nOutCursor + i < TotalLen)
          BY <2>0, <3>1, <4>1, <4>3 DEF TypeOK, Geometry, ParserInv, Written,
             ProducerInv, PosAt
        <5>2. QED
          BY <2>0, <3>1, <4>1, <5>1 DEF Contents
      <4>4. QED
        BY <2>0, <4>2, <4>3 DEF TypeOK
    <3>3. QED
      BY <3>1, <3>2
  <2>3. CASE got' = got
    BY <2>3
  <2>4. CASE got' # got
    BY <1>1, <2>1, <2>2, <2>4
    DEF Next, SendNext, RecvNext, vars, consVars, IsEmpty, Clear, PushBuff,
        GetInCursorPtr, RecvIntoWindow, CommitRecv, CommitThenCopy, CostBuff,
        CopyIntoWindow, NextPiece, CostUsedBuff, UseBuff, EndParse,
        GetOutCursorPtr, SendAgain,
        DiscardBuff, EndRemove
  <2>5. QED
    BY <2>3, <2>4
<1>2. QED
  BY <1>1, Invariance, PTL DEF Spec, ReadsInOrder

=============
