------------------------------ MODULE LoopBuff ------------------------------
(***************************************************************************)
(* FxLoopBuff, the byte ring between the main thread and an IO thread of   *)
(* the network library (src/Server/Net/loopbuff.cpp).  Every connection    *)
(* owns two of them, and each is used by exactly one producer and one      *)
(* consumer thread:                                                        *)
(*                                                                         *)
(*   Role = "send"   the main thread calls IsEmpty, Clear and PushBuff     *)
(*                   (Send); the IO thread calls GetOutCursorPtr, hands    *)
(*                   the memory to the kernel and calls DiscardBuff        *)
(*                   (PostSend).                                           *)
(*   Role = "recv"   the IO thread calls IsEmpty, Clear, GetInCursorPtr,   *)
(*                   CostBuff, GetUsedCursorPtr and CostUsedBuff (OnRecv   *)
(*                   and its parser); the main thread calls PopBuff        *)
(*                   (__ProcRecv).                                         *)
(*                                                                         *)
(* Every method takes m_oLock except IsEmpty and Clear, which do not.  A   *)
(* byte is identified by its position in the stream, so that the contents  *)
(* of the ring say which byte of the stream each cell holds.  The counters *)
(* nIn, nUse and nOut are what the CALLERS believe: they advance by the    *)
(* length a caller asked for, even where a method whose result the caller  *)
(* ignores would refuse, so that a refusal shows as a broken invariant.    *)
(***************************************************************************)
EXTENDS Integers

CONSTANTS
  TotalLen,   \* m_nTotalLen: SEND_BUFF_SIZE or RECV_BUFF_SIZE
  MaxBytes,   \* bound: how many bytes the producer writes in all
  Role        \* which of the connection's two buffers this is

ASSUME ConstantsAssumption ==
  /\ TotalLen \in Nat \ {0}
  /\ MaxBytes \in Nat
  /\ Role \in {"send", "recv"}

VARIABLES
  m_nFreeLen, m_nInCursor, m_nOutCursor, m_nUseCursor,
  m_bLoop, m_bUseLoop,
  m_pszBuff,   \* the memory: cell -> stream position of the byte it holds
  nIn,         \* bytes the producer has put in
  nUse,        \* bytes the parser has accepted
  nOut,        \* bytes the consumer has taken out
  prodPc,      \* where the producer thread stands in its sequence of calls
  prodPtr,     \* the cell GetInCursorPtr returned
  prodLen,     \* the length it returned, then the length being committed
  consPc,      \* where the consumer thread stands
  consPtr,     \* the cell GetOutCursorPtr returned
  consLen,     \* the length it returned, then the length being removed
  got          \* the bytes the consumer last read, by their offset

cursors == <<m_nInCursor, m_nOutCursor, m_nUseCursor, m_bLoop, m_bUseLoop>>
prodVars == <<prodPc, prodPtr, prodLen>>
consVars == <<consPc, consPtr, consLen, got>>
vars == <<m_nFreeLen, cursors, m_pszBuff, nIn, nUse, nOut, prodVars, consVars>>

Cells == 0 .. TotalLen - 1

\* The consumer's remove is the only locked section an unlocked reader can
\* look into, so holding m_oLock is being in the middle of it.
LockFree == consPc # "removing"

Init ==
  /\ m_nFreeLen = TotalLen
  /\ m_nInCursor = 0 /\ m_nOutCursor = 0 /\ m_nUseCursor = 0
  /\ m_bLoop = FALSE /\ m_bUseLoop = FALSE
  /\ m_pszBuff = [i \in Cells |-> 0]
  /\ nIn = 0 /\ nUse = 0 /\ nOut = 0
  /\ prodPc = "idle" /\ prodPtr = 0 /\ prodLen = 0
  /\ consPc = "idle" /\ consPtr = 0 /\ consLen = 0
  /\ got = [i \in {} |-> 0]

-----------------------------------------------------------------------------
(* Slips a maintainer could make in the ring arithmetic.  They are no part  *)
(* of the model: they serve to show that the properties notice them.        *)

AdvanceIn_AtEnd(n) ==
  IF n + m_nInCursor <= TotalLen
    THEN m_nInCursor' = m_nInCursor + n /\ UNCHANGED <<m_bLoop, m_bUseLoop>>
    ELSE /\ m_nInCursor' = n + m_nInCursor - TotalLen
         /\ m_bLoop' = TRUE /\ m_bUseLoop' = TRUE

AdvanceIn_NoUseLoop(n) ==
  IF n + m_nInCursor < TotalLen
    THEN m_nInCursor' = m_nInCursor + n /\ UNCHANGED <<m_bLoop, m_bUseLoop>>
    ELSE /\ m_nInCursor' = n + m_nInCursor - TotalLen
         /\ m_bLoop' = TRUE /\ UNCHANGED m_bUseLoop

AdvanceOut_KeepsLoop(n) ==
  /\ m_nOutCursor' = (n + m_nOutCursor) % TotalLen
  /\ UNCHANGED m_bLoop

Fits_OneMore(n) == n <= m_nFreeLen + 1

InCursorLen_ToEnd == TotalLen - m_nInCursor

Empty_AllParsed == m_nInCursor = m_nUseCursor

-----------------------------------------------------------------------------
(* Lengths the methods return and the conditions they test.                *)

\* What IsEmpty() returns.
Empty == m_nFreeLen = TotalLen

\* The test of PushBuff and CostBuff against the free length.
Fits(n) == n <= m_nFreeLen

InCursorLen == IF m_bLoop THEN m_nOutCursor - m_nInCursor
                          ELSE TotalLen - m_nInCursor

OutCursorLen == IF Empty THEN 0
                ELSE IF m_bLoop THEN TotalLen - m_nOutCursor
                                ELSE m_nInCursor - m_nOutCursor

UsedCursorLen == IF Empty THEN 0
                 ELSE IF m_bUseLoop THEN TotalLen - m_nUseCursor
                                    ELSE m_nInCursor - m_nUseCursor

UseLen == IF Empty THEN 0
          ELSE IF m_bUseLoop THEN TotalLen + m_nInCursor - m_nUseCursor
                             ELSE m_nInCursor - m_nUseCursor

\* Advance the in cursor by n over the end of the ring: shared by PushBuff
\* and CostBuff.
AdvanceIn(n) ==
  IF n + m_nInCursor < TotalLen
    THEN m_nInCursor' = m_nInCursor + n /\ UNCHANGED <<m_bLoop, m_bUseLoop>>
    ELSE /\ m_nInCursor' = n + m_nInCursor - TotalLen
         /\ m_bLoop' = TRUE /\ m_bUseLoop' = TRUE

\* Advance the out cursor by n over the end: shared by PopBuff, DiscardBuff.
AdvanceOut(n) ==
  IF n + m_nOutCursor < TotalLen
    THEN m_nOutCursor' = m_nOutCursor + n /\ UNCHANGED m_bLoop
    ELSE m_nOutCursor' = n + m_nOutCursor - TotalLen /\ m_bLoop' = FALSE

-----------------------------------------------------------------------------
(* The producer thread.                                                    *)

\* The unlocked IsEmpty() at the head of Send and OnRecv.
IsEmpty ==
  /\ prodPc = "idle"
  /\ prodPc' = IF Empty THEN "clear" ELSE "ready"
  /\ UNCHANGED <<m_nFreeLen, cursors, m_pszBuff, nIn, nUse, nOut, prodPtr,
                 prodLen, consVars>>

\* The unlocked Clear(): the cursors and flags, not m_nFreeLen.
Clear ==
  /\ prodPc = "clear"
  /\ m_nUseCursor' = 0 /\ m_nInCursor' = 0 /\ m_nOutCursor' = 0
  /\ m_bLoop' = FALSE /\ m_bUseLoop' = FALSE
  /\ prodPc' = "ready"
  /\ UNCHANGED <<m_nFreeLen, m_pszBuff, nIn, nUse, nOut, prodPtr, prodLen,
                 consVars>>

\* PushBuff(n) from Send: refused when n exceeds the free length, and then
\* Send gives up (or retries) and nothing has changed.
PushBuff(n) ==
  /\ Role = "send"
  /\ prodPc = "ready"
  /\ LockFree
  /\ nIn + n <= MaxBytes
  /\ prodPc' = "idle"
  /\ IF ~Fits(n)
       THEN UNCHANGED <<m_nFreeLen, cursors, m_pszBuff, nIn>>
       ELSE /\ m_pszBuff' = [i \in Cells |->
                 IF i >= m_nInCursor /\ i < m_nInCursor + n
                   THEN nIn + (i - m_nInCursor)
                 ELSE IF i < m_nInCursor + n - TotalLen
                   THEN nIn + (TotalLen - m_nInCursor) + i
                 ELSE m_pszBuff[i]]
            /\ AdvanceIn(n)
            /\ m_nFreeLen' = m_nFreeLen - n
            /\ nIn' = nIn + n
            /\ UNCHANGED <<m_nOutCursor, m_nUseCursor>>
  /\ UNCHANGED <<nUse, nOut, prodPtr, prodLen, consVars>>

\* GetInCursorPtr: where and how much the IO thread may write.
GetInCursorPtr ==
  /\ Role = "recv"
  /\ prodPc = "ready"
  /\ LockFree
  /\ IF m_nFreeLen = 0
       THEN prodPc' = "idle" /\ UNCHANGED <<prodPtr, prodLen>>
       ELSE /\ prodPc' = "window"
            /\ prodPtr' = m_nInCursor
            /\ prodLen' = InCursorLen
  /\ UNCHANGED <<m_nFreeLen, cursors, m_pszBuff, nIn, nUse, nOut, consVars>>

\* The n bytes from stream position p written at cell c, outside the lock.
WriteAt(c, n, p) ==
  m_pszBuff' = [i \in Cells |-> IF i >= c /\ i < c + n THEN p + (i - c)
                                                      ELSE m_pszBuff[i]]

\* TCP: recv() writes n bytes of the window before CostBuff.
RecvIntoWindow(n) ==
  /\ prodPc = "window"
  /\ n <= prodLen
  /\ nIn + n <= MaxBytes
  /\ WriteAt(prodPtr, n, nIn)
  /\ prodLen' = n
  /\ prodPc' = "written"
  /\ UNCHANGED <<m_nFreeLen, cursors, nIn, nUse, nOut, prodPtr, consVars>>

\* CostBuff(n), whose result the callers ignore.
CostBuff(n, next) ==
  /\ LockFree
  /\ IF ~Fits(n)
       THEN UNCHANGED <<m_nFreeLen, m_nInCursor, m_bLoop, m_bUseLoop>>
       ELSE AdvanceIn(n) /\ m_nFreeLen' = m_nFreeLen - n
  /\ nIn' = nIn + n
  /\ prodLen' = n
  /\ prodPc' = next
  /\ UNCHANGED <<m_nOutCursor, m_nUseCursor, m_pszBuff, nUse, nOut, prodPtr,
                 consVars>>

CommitRecv == prodPc = "written" /\ CostBuff(prodLen, "parse")

\* UDP: CostBuff first, memcpy into the window after it.
CommitThenCopy(n) ==
  /\ prodPc = "window"
  /\ n <= prodLen
  /\ nIn + n <= MaxBytes
  /\ CostBuff(n, "committed")

CopyIntoWindow ==
  /\ prodPc = "committed"
  /\ WriteAt(prodPtr, prodLen, nIn - prodLen)
  /\ prodPc' = "parse"
  /\ UNCHANGED <<m_nFreeLen, cursors, nIn, nUse, nOut, prodPtr, prodLen,
                 consVars>>

\* When CostUsedBuff(n) returns false: n would pass the in cursor.
UseRefused(n) ==
  \/ m_nFreeLen + n > TotalLen
  \/ ~m_bUseLoop /\ n + m_nUseCursor > m_nInCursor
  \/ m_bUseLoop /\ n + m_nUseCursor - TotalLen > m_nInCursor

\* CostUsedBuff(n), whose result the parser ignores.
UseBuff(n) ==
  /\ LockFree
  /\ \/ UseRefused(n) /\ UNCHANGED <<m_nUseCursor, m_bUseLoop>>
     \/ /\ ~UseRefused(n)
        /\ ~m_bUseLoop \/ n + m_nUseCursor < TotalLen
        /\ m_nUseCursor' = m_nUseCursor + n
        /\ UNCHANGED m_bUseLoop
     \/ /\ ~UseRefused(n)
        /\ m_bUseLoop /\ n + m_nUseCursor >= TotalLen
        /\ m_nUseCursor' = m_nUseCursor + n - TotalLen
        /\ m_bUseLoop' = FALSE
  /\ nUse' = nUse + n
  /\ UNCHANGED <<m_nFreeLen, m_nInCursor, m_nOutCursor, m_bLoop, m_pszBuff,
                 nIn, nOut, prodVars, consVars>>

\* The parser accepts n of the bytes GetUsedCursorPtr showed it.
CostUsedBuff(n) == prodPc = "parse" /\ n <= UsedCursorLen /\ UseBuff(n)

\* UDP: the rest of a datagram that goes round the ring's end, or the next
\* datagram in sequence, is put in before the parser runs.
NextPiece ==
  /\ prodPc = "parse"
  /\ prodPc' = "ready"
  /\ UNCHANGED <<m_nFreeLen, cursors, m_pszBuff, nIn, nUse, nOut, prodPtr,
                 prodLen, consVars>>

\* OnRecv returns, the parser having taken what it can.
EndParse ==
  /\ prodPc = "parse"
  /\ prodPc' = "idle"
  /\ UNCHANGED <<m_nFreeLen, cursors, m_pszBuff, nIn, nUse, nOut, prodPtr,
                 prodLen, consVars>>

-----------------------------------------------------------------------------
(* The consumer thread.                                                    *)

\* GetOutCursorPtr: the memory the IO thread passes to send().
GetOutCursorPtr ==
  /\ Role = "send"
  /\ consPc = "idle"
  /\ OutCursorLen > 0
  /\ consPtr' = m_nOutCursor
  /\ consLen' = OutCursorLen
  /\ consPc' = "reading"
  /\ UNCHANGED <<m_nFreeLen, cursors, m_pszBuff, nIn, nUse, nOut, prodVars,
                 got>>

\* send() takes n bytes of that memory, outside the lock.
SendFromWindow(n) ==
  /\ consPc = "reading"
  /\ n <= consLen
  /\ got' = [i \in 0 .. n - 1 |-> m_pszBuff[consPtr + i]]
  /\ consLen' = n
  /\ consPc' = "sent"
  /\ UNCHANGED <<m_nFreeLen, cursors, m_pszBuff, nIn, nUse, nOut, prodVars,
                 consPtr>>

\* send() would block: nothing is removed.
SendAgain ==
  /\ consPc = "reading"
  /\ consPc' = "idle"
  /\ UNCHANGED <<m_nFreeLen, cursors, m_pszBuff, nIn, nUse, nOut, prodVars,
                 consPtr, consLen, got>>

\* The first half of DiscardBuff(n) and PopBuff(n): lock, check, move the out
\* cursor.  The check fails into "idle", and the caller ignores that.
BeginRemove(n) ==
  /\ nOut' = nOut + n
  /\ consLen' = n
  /\ IF n + m_nFreeLen > TotalLen
       THEN consPc' = "idle" /\ UNCHANGED <<m_nOutCursor, m_bLoop>>
       ELSE consPc' = "removing" /\ AdvanceOut(n)
  /\ UNCHANGED <<m_nFreeLen, m_nInCursor, m_nUseCursor, m_bUseLoop,
                 m_pszBuff, nIn, nUse, prodVars, consPtr>>

DiscardBuff == consPc = "sent" /\ BeginRemove(consLen) /\ UNCHANGED got

\* The copy and the first half of PopBuff(n).
CopyOut(n) ==
  /\ got' = [i \in 0 .. n - 1 |->
               IF m_nOutCursor + i < TotalLen
                 THEN m_pszBuff[m_nOutCursor + i]
                 ELSE m_pszBuff[m_nOutCursor + i - TotalLen]]
  /\ BeginRemove(n)

\* PopBuff(n) from __ProcRecv: n bytes the parser has announced are copied.
PopBuff(n) ==
  /\ Role = "recv"
  /\ consPc = "idle"
  /\ n <= nUse - nOut
  /\ CopyOut(n)

\* The second half: m_nFreeLen is written last, then the lock is released.
EndRemove ==
  /\ consPc = "removing"
  /\ m_nFreeLen' = m_nFreeLen + consLen
  /\ consPc' = "idle"
  /\ UNCHANGED <<cursors, m_pszBuff, nIn, nUse, nOut, prodVars, consPtr,
                 consLen, got>>

-----------------------------------------------------------------------------
Lengths == 1 .. TotalLen

\* The main thread in Send, the IO thread in PostSend.
SendNext ==
  \/ IsEmpty
  \/ Clear
  \/ \E n \in Lengths : PushBuff(n)
  \/ GetOutCursorPtr
  \/ \E n \in Lengths : SendFromWindow(n)
  \/ SendAgain
  \/ DiscardBuff
  \/ EndRemove

\* The IO thread in OnRecv, the main thread in __ProcRecv.
RecvNext ==
  \/ IsEmpty
  \/ Clear
  \/ GetInCursorPtr
  \/ \E n \in Lengths : RecvIntoWindow(n)
  \/ CommitRecv
  \/ \E n \in Lengths : CommitThenCopy(n)
  \/ CopyIntoWindow
  \/ NextPiece
  \/ \E n \in Lengths : CostUsedBuff(n)
  \/ EndParse
  \/ \E n \in Lengths : PopBuff(n)
  \/ EndRemove

Next == SendNext \/ RecvNext

Spec == Init /\ [][Next]_vars

\* A send buffer alone.
SendSpec == Init /\ [][SendNext]_vars

-----------------------------------------------------------------------------
(* Properties.                                                             *)

\* Every cursor stays inside the memory and every length inside the ring.
TypeOK ==
  /\ m_nFreeLen \in 0 .. TotalLen
  /\ m_nInCursor \in Cells /\ m_nOutCursor \in Cells /\ m_nUseCursor \in Cells
  /\ m_bLoop \in BOOLEAN /\ m_bUseLoop \in BOOLEAN
  /\ m_pszBuff \in [Cells -> Nat]
  /\ nIn \in Nat /\ nUse \in Nat /\ nOut \in Nat
  /\ prodPc \in {"idle", "clear", "ready", "window", "written", "committed",
                 "parse"}
  /\ prodPtr \in Cells /\ prodLen \in 0 .. TotalLen
  /\ consPc \in {"idle", "reading", "sent", "removing"}
  /\ consPtr \in Cells /\ consLen \in 0 .. TotalLen

\* Bytes taken by the consumer but not yet given back to m_nFreeLen.
Removing == IF consPc = "removing" THEN consLen ELSE 0

\* m_nFreeLen and the pair of cursors tell the same story at every moment an
\* unlocked reader can look: the cursors delimit exactly the bytes put in and
\* not yet taken out, m_bLoop says which way round, and the free length lags
\* behind only inside the locked remove.
Geometry ==
  /\ m_nFreeLen = TotalLen - (nIn - nOut) - Removing
  /\ nIn - nOut = IF m_bLoop THEN TotalLen - m_nOutCursor + m_nInCursor
                             ELSE m_nInCursor - m_nOutCursor
  /\ nOut <= nIn
  /\ m_bLoop => m_nInCursor <= m_nOutCursor

\* The stream position cell i holds when the ring starts at the out cursor.
PosAt(i) == IF i >= m_nOutCursor THEN nOut + (i - m_nOutCursor)
                                 ELSE nOut + (TotalLen - m_nOutCursor) + i

\* Bytes really in memory: UDP commits its length before it copies.
Written == IF prodPc = "committed" THEN nIn - prodLen ELSE nIn

\* No byte put in and not yet taken out is ever overwritten, whatever the two
\* threads do: not by the write window GetInCursorPtr hands out, not by
\* PushBuff, and not by the unlocked Clear that rewinds the ring.
Contents == \A i \in Cells : PosAt(i) < Written => m_pszBuff[i] = PosAt(i)

\* The memory handed to send() keeps holding the next bytes of the stream while
\* the kernel reads it outside the lock and the producer goes on pushing.
OutWindowStable ==
  consPc = "reading" =>
    \A i \in 0 .. consLen - 1 :
      consPtr + i \in Cells /\ m_pszBuff[consPtr + i] = nOut + i

\* The consumer takes the stream in order, each byte exactly once: whatever it
\* reads (send() from the window, or the copy of PopBuff) is what follows the
\* bytes already removed.
ReadsInOrder ==
  [][got' # got => \A i \in DOMAIN got' : got'[i] = nOut + i]_vars

\* The parser's view: GetUseLen is exactly what was received and not parsed,
\* and the contiguous piece GetUsedCursorPtr shows holds the next unparsed
\* bytes, so a header read from it is the header of the next message.
ParserView ==
  (Role = "recv" /\ prodPc # "committed" /\ nUse < nIn) =>
    /\ UseLen = nIn - nUse
    /\ UsedCursorLen > 0
    /\ \A i \in 0 .. UsedCursorLen - 1 :
         m_nUseCursor + i \in Cells /\ m_pszBuff[m_nUseCursor + i] = nUse + i
=============================================================================
