-------------------------- MODULE RecvParserProofs --------------------------
(***************************************************************************)
(* Machine-checked proofs about OnRecv and its parser for every ring, every*)
(* header length and every stream of messages, over TCP and over UDP.      *)
(*                                                                         *)
(* That every step of the parser and of __ProcRecv is one that LoopBuff    *)
(* allows (RingSpec) and that the events announce the messages of the      *)
(* stream (MessagesWhole) support each other: the parser accepts only what *)
(* it was shown because it knows where it stands in the stream, and it     *)
(* knows that because LoopBuff's invariant says what the piece it was      *)
(* shown holds.  So the two invariants, IInv of LoopBuffProofs and PInv    *)
(* below, are carried through every step together.                         *)
(***************************************************************************)
EXTENDS RecvParser, LoopBuffProofs, WellFoundedInduction

\* The contiguous piece that starts at the use cursor: what GetUsedCursorPtr
\* shows, without its test for an empty ring.
Piece == IF m_bUseLoop THEN TotalLen - m_nUseCursor
                       ELSE m_nInCursor - m_nUseCursor

\* The types of the parser's own variables; OnRecv never closes for a header.
ParserType ==
  /\ udp \in BOOLEAN /\ start \in Streams
  /\ m_nNeedData \in Nat /\ m_nPacketLen \in Nat
  /\ parsePc \in {"none", "loop", "tail"}
  /\ nLen \in Nat /\ nUsedLen \in Nat /\ pParseBuf \in Nat
  /\ rest \in 0 .. TotalLen
  /\ evLen \in [Msgs -> Nat]
  /\ nEvent \in 0 .. MaxMsgs /\ nRun \in 0 .. nEvent
  /\ closed \in {"no", "overflow"}

\* The peer sends no more than the stream.
WithinStream ==
  /\ nIn + rest <= Total
  /\ prodPc = "written" => rest = 0 /\ nIn + prodLen <= Total

\* The events carry the lengths of the first messages, and __ProcRecv has
\* taken out exactly the ones it has run.
EventInv ==
  /\ \A k \in 1 .. nEvent : evLen[k] = start[k] - start[k - 1]
  /\ nOut = start[nRun]

\* Where the parser is in the stream: at the beginning of a message, or inside
\* message nEvent + 1 with m_nNeedData bytes to go.
PositionInv ==
  /\ start[nEvent] <= nUse
  /\ m_nNeedData # 0 =>
       /\ nEvent < MaxMsgs
       /\ m_nPacketLen = start[nEvent + 1] - start[nEvent]
       /\ m_nNeedData < m_nPacketLen
       /\ nUse + nUsedLen = start[nEvent] + m_nPacketLen - m_nNeedData
  /\ m_nNeedData = 0 => nUsedLen = 0
  /\ m_nNeedData = 0 /\ parsePc # "tail" => nUse = start[nEvent]

\* Between two OnRecv nothing is parsed and not yet passed to CostUsedBuff; in
\* the loop the parser stands inside the piece and has seen the rest of it.
LoopInv ==
  /\ parsePc # "none" => prodPc = "parse" /\ rest = 0
  /\ parsePc = "none" => nUsedLen = 0
  /\ parsePc = "loop" =>
       /\ nUsedLen + nLen <= Piece
       /\ nLen > 0 => nUsedLen + nLen = Piece /\ pParseBuf = m_nUseCursor + nUsedLen
       /\ nLen = 0 =>
            \/ /\ nIn - (nUse + nUsedLen) < HeaderLen
               /\ m_nNeedData # 0 => nUse + nUsedLen = nIn
            \/ udp /\ m_bUseLoop /\ nUsedLen = Piece
            \/ udp /\ m_nUseCursor = 0 /\ nUsedLen = 0

\* After BuildRecvPkgHeader kept the beginning of a header that goes round the
\* end, the rest of it lies at the head of the ring.
TailInv ==
  parsePc = "tail" =>
    /\ m_nNeedData = 0
    /\ nLen \in 1 .. HeaderLen - 1
    /\ nUse = start[nEvent] + nLen
    /\ header = start[nEvent]
    /\ m_nUseCursor = 0 /\ ~m_bUseLoop
    /\ nIn - nUse >= HeaderLen - nLen

\* TCP comes to OnRecv with less than a header unparsed and to the parser with
\* one piece more: what lies behind the end of the ring is met only after a
\* header that is split there.
TcpInv ==
  ~udp =>
    /\ rest = 0 /\ prodPc # "committed"
    /\ prodPc # "parse" =>
         nIn - nUse < HeaderLen /\ (m_nNeedData # 0 => nUse = nIn)
    /\ prodPc = "parse" /\ parsePc = "none" => nUse < nIn
    /\ prodPc = "parse" /\ m_bUseLoop /\ m_nInCursor > 0 =>
         m_nNeedData = 0 /\ Piece < HeaderLen

\* What OnRecv leaves behind when it returns.
RestInv == prodPc = "idle" /\ closed = "no" => nIn - nUse < HeaderLen \/ (udp /\ m_nUseCursor = 0)

PInv == ParserType /\ WithinStream /\ EventInv /\ PositionInv /\ LoopInv /\ TailInv
          /\ TcpInv /\ RestInv

-----------------------------------------------------------------------------
(* The stream                                                               *)

\* Every non-empty set of natural numbers has a least element.
LEMMA LeastNumber ==
  ASSUME NEW T, T \subseteq Nat, T # {}
  PROVE  \E x \in T : \A y \in T : x <= y
<1> DEFINE Less == {p \in Nat \X Nat : p[1] < p[2]}
<1>1. OpToRel(<, Nat) = Less
  BY Zenon DEF OpToRel
<1>2. IsWellFoundedOn(Less, Nat)
  BY <1>1, NatLessThanWellFounded, Zenon
<1>3. PICK x \in T : \A y \in T : ~(<<y, x>> \in Less)
  BY <1>2, WFMin
<1>4. ASSUME NEW y \in T PROVE x <= y
  <2>1. ~(<<y, x>> \in Less) /\ x \in Nat /\ y \in Nat
    BY <1>3
  <2>2. <<y, x>> \in Nat \X Nat /\ <<y, x>>[1] = y /\ <<y, x>>[2] = x
    BY <2>1
  <2>3. y < x => <<y, x>> \in Less
    BY <2>2, Zenon
  <2>4. QED
    BY <2>1, <2>3
<1>5. QED
  BY <1>4

\* What a stream is made of.
LEMMA StreamType ==
  ASSUME NEW s \in Streams
  PROVE  /\ s \in [0 .. MaxMsgs -> Nat]
         /\ s[0] = 0
         /\ \A k \in Msgs :
              /\ k - 1 \in 0 .. MaxMsgs
              /\ HeaderLen <= s[k] - s[k - 1]
              /\ s[k] - s[k - 1] <= MaxPacket
<1>1. MaxMsgs * MaxPacket \in Nat
  BY ParserAssumption
<1>2. s \in [0 .. MaxMsgs -> 0 .. MaxMsgs * MaxPacket]
  BY DEF Streams
<1>3. \A k \in 0 .. MaxMsgs : s[k] \in Nat
  BY <1>1, <1>2
<1>4. QED
  BY <1>2, <1>3, ParserAssumption DEF Streams, Msgs

\* Later messages begin later: the least message that begins no later than an
\* earlier one would follow one that does too.
LEMMA StreamGrows ==
  ASSUME NEW s \in Streams, NEW j \in 0 .. MaxMsgs, NEW k \in 0 .. MaxMsgs, j < k
  PROVE  s[j] < s[k]
<1> DEFINE Bad == {m \in 0 .. MaxMsgs : j < m /\ ~(s[j] < s[m])}
<1>1. SUFFICES ASSUME Bad # {} PROVE FALSE
  OBVIOUS
<1>2. Bad \subseteq Nat
  BY ParserAssumption
<1>3. PICK m \in Bad : \A y \in Bad : m <= y
  <2> HIDE DEF Bad
  <2> QED
    BY <1>1, <1>2, LeastNumber
<1>4. m \in Msgs /\ j < m /\ ~(s[j] < s[m]) /\ m - 1 \in 0 .. MaxMsgs
  BY ParserAssumption DEF Msgs
<1>5. m - 1 \notin Bad
  BY <1>3, <1>4, <1>2
<1>6. m - 1 = j \/ s[j] < s[m - 1]
  BY <1>4, <1>5, ParserAssumption
<1>7. s[m - 1] < s[m] /\ s[m - 1] \in Nat /\ s[m] \in Nat /\ s[j] \in Nat
  BY <1>4, StreamType, ParserAssumption DEF Msgs
<1>8. QED
  BY <1>4, <1>6, <1>7

\* The header of the next message gives its length, and no other message has
\* a header in the same place.
LEMMA HeaderAt ==
  ASSUME start \in Streams, NEW k \in 0 .. MaxMsgs, k < MaxMsgs
  PROVE  /\ CheckPkgHeader(start[k]) = start[k + 1] - start[k]
         /\ start[k + 1] - start[k] \in HeaderLen .. MaxPacket
         /\ k + 1 \in Msgs /\ k + 1 \in 0 .. MaxMsgs
<1>1. k + 1 \in Msgs /\ (k + 1) - 1 = k /\ k + 1 \in 0 .. MaxMsgs
  BY ParserAssumption DEF Msgs
<1>2. \A m \in Msgs : start[m - 1] = start[k] => m = k + 1
  <2> SUFFICES ASSUME NEW m \in Msgs, start[m - 1] = start[k] PROVE m = k + 1
    OBVIOUS
  <2>1. m - 1 \in 0 .. MaxMsgs /\ start[m - 1] \in Nat /\ start[k] \in Nat
    BY StreamType DEF Msgs
  <2>2. ~(m - 1 < k) /\ ~(k < m - 1)
    BY <2>1, StreamGrows
  <2>3. QED
    BY <2>1, <2>2, ParserAssumption DEF Msgs
<1>3. (CHOOSE m \in Msgs : start[m - 1] = start[k]) = k + 1
  BY <1>1, <1>2
<1>4. CheckPkgHeader(start[k]) = start[k + 1] - start[(k + 1) - 1]
  BY <1>1, <1>3, Zenon DEF CheckPkgHeader
<1>5. start[k + 1] - start[k] \in HeaderLen .. MaxPacket
  <2>1. /\ start[k + 1] \in Nat /\ start[k] \in Nat
        /\ HeaderLen <= start[k + 1] - start[(k + 1) - 1]
        /\ start[k + 1] - start[(k + 1) - 1] <= MaxPacket
    BY <1>1, StreamType
  <2>2. QED
    BY <1>1, <2>1, ParserAssumption
<1>6. QED
  BY <1>1, <1>4, <1>5

-----------------------------------------------------------------------------
(* The ring as the parser uses it                                           *)

\* The constants without the bound on the stream.
LEMMA ParserConstants ==
  /\ TotalLen \in Nat /\ TotalLen > 0 /\ Role = "recv"
  /\ HeaderLen \in Nat /\ HeaderLen > 0 /\ MaxMsgs \in Nat
  /\ MaxPacket \in Nat /\ HeaderLen <= MaxPacket /\ MaxPacket <= TotalLen
  BY ConstantsAssumption, ParserAssumption

\* Outside the copy of a UDP datagram the piece is what GetUsedCursorPtr shows,
\* and it holds the stream from the first unaccepted byte on.
LEMMA PieceShown ==
  ASSUME IInv, prodPc # "committed"
  PROVE  /\ UsedCursorLen = Piece /\ UseLen = nIn - nUse
         /\ Piece \in 0 .. TotalLen /\ nUse <= nIn
         /\ m_nUseCursor \in Cells /\ m_nInCursor \in Cells
         /\ nIn - nUse = IF m_bUseLoop THEN Piece + m_nInCursor ELSE Piece
         /\ nUse < nIn => Piece > 0
         /\ \A i \in 0 .. Piece - 1 : /\ m_nUseCursor + i \in Cells
                                      /\ m_pszBuff[m_nUseCursor + i] = nUse + i
<1> USE ParserConstants DEF Cells
<1>0. TypeOK /\ Geometry /\ ConsumerInv /\ ParserInv /\ ParserView
  BY InvView DEF IInv
<1>1. /\ nUse <= nIn /\ m_nUseCursor \in Cells /\ m_nInCursor \in Cells
      /\ nIn - nUse = IF m_bUseLoop THEN Piece + m_nInCursor ELSE Piece
      /\ nUse < nIn => Piece > 0
      /\ nUse = nIn => Piece = 0 /\ ~m_bUseLoop
  BY <1>0 DEF TypeOK, ParserInv, Written, Piece
<1>2. Piece \in 0 .. TotalLen
  BY <1>0, <1>1 DEF TypeOK, Piece
<1>3. CASE nUse < nIn
  <2>1. ~Empty
    BY <1>0, <1>3 DEF TypeOK, Geometry, Removing, ParserInv, ConsumerInv, Empty
  <2>2. UsedCursorLen = Piece
    BY <2>1 DEF UsedCursorLen, Piece
  <2>3. QED
    BY <1>0, <1>1, <1>2, <1>3, <2>2 DEF ParserView
<1>4. CASE nUse = nIn
  BY <1>0, <1>1, <1>4 DEF UsedCursorLen, UseLen, Piece, TypeOK
<1>5. QED
  BY <1>0, <1>1, <1>3, <1>4 DEF TypeOK

\* CostUsedBuff of what lies inside the piece is never refused: the cursor goes
\* on, and to the head of the ring at its end.
LEMMA UseStep ==
  ASSUME IInv, prodPc = "parse", NEW n \in Nat, n # 0, n <= Piece, UseBuff(n)
  PROVE  /\ Next /\ IInv'
         /\ nUse' = nUse + n
         /\ UNCHANGED <<nIn, nOut, prodPc, prodLen, m_nInCursor>>
         /\ \/ ~m_bUseLoop /\ ~m_bUseLoop' /\ m_nUseCursor' = m_nUseCursor + n
            \/ m_bUseLoop /\ m_bUseLoop' /\ m_nUseCursor' = m_nUseCursor + n
            \/ m_bUseLoop /\ n = Piece /\ ~m_bUseLoop' /\ m_nUseCursor' = 0
         /\ ~(m_bUseLoop /\ n = Piece) => Piece' = Piece - n
         /\ Piece' \in Nat
<1> USE ParserConstants DEF Cells
<1>1. n \in Lengths /\ CostUsedBuff(n)
  BY PieceShown DEF CostUsedBuff, Lengths
<1>2. Next /\ IInv'
  BY <1>1, NextInv DEF Next, RecvNext
<1>3. /\ nUse' = nUse + n /\ UNCHANGED <<nIn, nOut, prodPc, prodLen, m_nInCursor>>
  BY DEF UseBuff, prodVars
<1>4. /\ m_nUseCursor \in 0 .. TotalLen - 1 /\ m_nUseCursor' \in 0 .. TotalLen - 1
      /\ m_nInCursor \in 0 .. TotalLen - 1 /\ m_nFreeLen \in Nat
      /\ m_bUseLoop \in BOOLEAN /\ m_bUseLoop' \in BOOLEAN
  BY <1>2 DEF IInv, TypeOK
<1>5. ~UseRefused(n)
  <2>1. LockFree
    BY DEF UseBuff
  <2>2. m_nFreeLen = TotalLen - (nIn - nOut) /\ nOut <= nUse /\ nUse \in Nat
          /\ nOut \in Nat /\ nIn \in Nat
    BY <2>1 DEF IInv, Geometry, Removing, LockFree, TypeOK, ParserInv
  <2>3. n <= nIn - nUse
    BY <1>4, PieceShown
  <2>4. m_nFreeLen + n <= TotalLen
    BY <2>2, <2>3
  <2>5. QED
    BY <1>4, <2>4 DEF UseRefused, Piece
<1>6. CASE ~m_bUseLoop
  <2>1. m_nUseCursor' = m_nUseCursor + n /\ m_bUseLoop' = m_bUseLoop
    BY <1>5, <1>6, Zenon DEF UseBuff
  <2>2. ~m_bUseLoop'
    BY <1>6, <2>1
  <2>3. Piece = m_nInCursor - m_nUseCursor /\ Piece' = m_nInCursor' - m_nUseCursor'
    BY <1>6, <2>2 DEF Piece
  <2>4. QED
    BY <1>2, <1>3, <1>4, <1>6, <2>1, <2>2, <2>3
<1>7. CASE m_bUseLoop /\ n # Piece
  <2>1. Piece = TotalLen - m_nUseCursor
    BY <1>7 DEF Piece
  <2>2. n + m_nUseCursor < TotalLen /\ ~(n + m_nUseCursor >= TotalLen)
    BY <1>4, <1>7, <2>1
  <2>3. m_nUseCursor' = m_nUseCursor + n /\ m_bUseLoop' = m_bUseLoop
    BY <1>5, <1>7, <2>2, Zenon DEF UseBuff
  <2>4. m_bUseLoop'
    BY <1>7, <2>3
  <2>5. Piece' = TotalLen - m_nUseCursor'
    BY <2>4 DEF Piece
  <2>6. QED
    BY <1>2, <1>3, <1>4, <1>7, <2>1, <2>3, <2>4, <2>5
<1>8. CASE m_bUseLoop /\ n = Piece
  <2>1. Piece = TotalLen - m_nUseCursor
    BY <1>8 DEF Piece
  <2>2. ~(n + m_nUseCursor < TotalLen) /\ m_nUseCursor + n - TotalLen = 0
    BY <1>4, <1>8, <2>1
  <2>3. m_nUseCursor' = m_nUseCursor + n - TotalLen /\ m_bUseLoop' = FALSE
    BY <1>5, <1>8, <2>2, Zenon DEF UseBuff
  <2>4. Piece' = m_nInCursor
    BY <1>3, <1>4, <2>2, <2>3 DEF Piece
  <2>5. QED
    BY <1>2, <1>3, <1>4, <1>8, <2>2, <2>3, <2>4
<1>9. QED
  BY <1>6, <1>7, <1>8

-----------------------------------------------------------------------------
(* The actions: each is a step of LoopBuff, and preserves the invariant.    *)

\* The unlocked look at the ring, and Clear.
LEMMA BeginRecvStep == ASSUME IInv, PInv, BeginRecv PROVE [Next]_vars /\ PInv'
<1> USE ParserConstants DEF Cells, Lengths
<1>1. [Next]_vars
  BY DEF BeginRecv, Next, RecvNext
<1>2. TypeOK /\ ParserInv /\ ProducerInv /\ TypeOK'
  BY <1>1, NextInv DEF IInv
<1>3. PInv'
  BY <1>1, <1>2 DEF BeginRecv, IsEmpty, Clear, TypeOK, ParserInv, ProducerInv, Written,
      PInv, ParserType, WithinStream, EventInv, PositionInv, LoopInv,
      TailInv, TcpInv, RestInv, Piece, streamVars, parseVars, eventVars,
      cursors, prodVars, consVars, Total
<1>4. QED
  BY <1>1, <1>3

\* GetInCursorPtr.
LEMMA GetWindowStep == ASSUME IInv, PInv, GetWindow PROVE [Next]_vars /\ PInv'
<1> USE ParserConstants DEF Cells, Lengths
<1>1. [Next]_vars
  BY DEF GetWindow, Next, RecvNext
<1>2. TypeOK /\ ParserInv /\ ProducerInv /\ TypeOK'
  BY <1>1, NextInv DEF IInv
<1>3. PInv'
  BY <1>1, <1>2 DEF GetWindow, GetInCursorPtr, Overflows, TypeOK, ParserInv, ProducerInv, Written,
      PInv, ParserType, WithinStream, EventInv, PositionInv, LoopInv,
      TailInv, TcpInv, RestInv, Piece, streamVars, parseVars, eventVars,
      cursors, prodVars, consVars, Total
<1>4. QED
  BY <1>1, <1>3

\* recv().
LEMMA TcpRecvStep == ASSUME NEW n \in Lengths, IInv, PInv, TcpRecv(n) PROVE [Next]_vars /\ PInv'
<1> USE ParserConstants DEF Cells, Lengths
<1>1. [Next]_vars
  BY DEF TcpRecv, Next, RecvNext
<1>2. TypeOK /\ ParserInv /\ ProducerInv /\ TypeOK'
  BY <1>1, NextInv DEF IInv
<1>3. PInv'
  BY <1>1, <1>2 DEF TcpRecv, RecvIntoWindow, TypeOK, ParserInv, ProducerInv, Written,
      PInv, ParserType, WithinStream, EventInv, PositionInv, LoopInv,
      TailInv, TcpInv, RestInv, Piece, streamVars, parseVars, eventVars,
      cursors, prodVars, consVars, Total
<1>4. QED
  BY <1>1, <1>3

\* The ring is full.
LEMMA UdpFullStep == ASSUME NEW n \in Lengths, IInv, PInv, UdpFull(n) PROVE [Next]_vars /\ PInv'
<1> USE ParserConstants DEF Cells, Lengths
<1>1. [Next]_vars
  BY DEF UdpFull, Next, RecvNext
<1>2. TypeOK /\ ParserInv /\ ProducerInv /\ TypeOK'
  BY <1>1, NextInv DEF IInv
<1>3. PInv'
  BY <1>1, <1>2 DEF UdpFull, vars, TypeOK, ParserInv, ProducerInv, Written,
      PInv, ParserType, WithinStream, EventInv, PositionInv, LoopInv,
      TailInv, TcpInv, RestInv, Piece, streamVars, parseVars, eventVars,
      cursors, prodVars, consVars, Total
<1>4. QED
  BY <1>1, <1>3

\* memcpy into the window.
LEMMA UdpCopyStep == ASSUME IInv, PInv, UdpCopy PROVE [Next]_vars /\ PInv'
<1> USE ParserConstants DEF Cells, Lengths
<1>1. [Next]_vars
  BY DEF UdpCopy, Next, RecvNext
<1>2. TypeOK /\ ParserInv /\ ProducerInv /\ TypeOK'
  BY <1>1, NextInv DEF IInv
<1>3. PInv'
  BY <1>1, <1>2 DEF UdpCopy, CopyIntoWindow, TypeOK, ParserInv, ProducerInv, Written,
      PInv, ParserType, WithinStream, EventInv, PositionInv, LoopInv,
      TailInv, TcpInv, RestInv, Piece, streamVars, parseVars, eventVars,
      cursors, prodVars, consVars, Total
<1>4. QED
  BY <1>1, <1>3

\* Another piece or datagram.
LEMMA UdpMoreStep == ASSUME IInv, PInv, UdpMore PROVE [Next]_vars /\ PInv'
<1> USE ParserConstants DEF Cells, Lengths
<1>1. [Next]_vars
  BY DEF UdpMore, Next, RecvNext
<1>2. TypeOK /\ ParserInv /\ ProducerInv /\ TypeOK'
  BY <1>1, NextInv DEF IInv
<1>3. PInv'
  BY <1>1, <1>2 DEF UdpMore, NextPiece, TypeOK, ParserInv, ProducerInv, Written,
      PInv, ParserType, WithinStream, EventInv, PositionInv, LoopInv,
      TailInv, TcpInv, RestInv, Piece, streamVars, parseVars, eventVars,
      cursors, prodVars, consVars, Total
<1>4. QED
  BY <1>1, <1>3

\* The rest of a datagram.
LEMMA UdpRestStep == ASSUME IInv, PInv, UdpRest PROVE [Next]_vars /\ PInv'
<1> USE ParserConstants DEF Cells, Lengths
<1>1. [Next]_vars
  BY DEF UdpRest, Next, RecvNext, PInv, ParserType
<1>2. TypeOK /\ ParserInv /\ ProducerInv
  BY DEF IInv
<1>3. /\ udp /\ rest' = 0 /\ prodPc = "window" /\ prodPc' = "written"
      /\ prodLen' = rest
      /\ UNCHANGED <<cursors, nIn, nUse, nOut, streamVars, parseVars, eventVars,
                     nRun, closed>>
  BY DEF UdpRest, RecvIntoWindow
<1>4. ParserType' /\ EventInv' /\ PositionInv' /\ LoopInv' /\ TailInv' /\ TcpInv' /\ RestInv'
  BY <1>2, <1>3 DEF PInv, ParserType, EventInv, PositionInv, LoopInv, TailInv,
     TcpInv, RestInv, Piece, cursors, streamVars, parseVars, eventVars
<1>5. WithinStream'
  <2>1. nIn \in Nat /\ rest \in Nat /\ nIn + rest <= Total /\ Total' = Total
    BY <1>2, <1>3 DEF PInv, ParserType, WithinStream, TypeOK, Total, streamVars
  <2>2. Total \in Nat
    BY StreamType DEF PInv, ParserType, Total
  <2>3. QED
    BY <1>3, <2>1, <2>2 DEF WithinStream
<1>6. QED
  BY <1>1, <1>4, <1>5 DEF PInv

\* OnRecv returns.
LEMMA EndRecvStep == ASSUME IInv, PInv, EndRecv PROVE [Next]_vars /\ PInv'
<1> USE ParserConstants DEF Cells, Lengths
<1>1. [Next]_vars
  BY DEF EndRecv, Next, RecvNext
<1>2. TypeOK /\ ParserInv /\ ProducerInv /\ TypeOK'
  BY <1>1, NextInv DEF IInv
<1>3. PInv'
  BY <1>1, <1>2 DEF EndRecv, EndParse, TypeOK, ParserInv, ProducerInv, Written,
      PInv, ParserType, WithinStream, EventInv, PositionInv, LoopInv,
      TailInv, TcpInv, RestInv, Piece, streamVars, parseVars, eventVars,
      cursors, prodVars, consVars, Total
<1>4. QED
  BY <1>1, <1>3

\* The lock is released.
LEMMA EndPopStep == ASSUME IInv, PInv, EndPop PROVE [Next]_vars /\ PInv'
<1> USE ParserConstants DEF Cells, Lengths
<1>1. [Next]_vars
  BY DEF EndPop, Next, RecvNext
<1>2. TypeOK /\ ParserInv /\ ProducerInv /\ TypeOK'
  BY <1>1, NextInv DEF IInv
<1>3. PInv'
  BY <1>1, <1>2 DEF EndPop, EndRemove, TypeOK, ParserInv, ProducerInv, Written,
      PInv, ParserType, WithinStream, EventInv, PositionInv, LoopInv,
      TailInv, TcpInv, RestInv, Piece, streamVars, parseVars, eventVars,
      cursors, prodVars, consVars, Total
<1>4. QED
  BY <1>1, <1>3

\* The first part of a datagram, committed before it is copied.
LEMMA UdpDatagramStep ==
  ASSUME NEW n \in Lengths, IInv, PInv, UdpDatagram(n) PROVE [Next]_vars /\ PInv'
<1> USE ParserConstants DEF Cells, Lengths
<1>1. TypeOK /\ ParserInv /\ ProducerInv
  BY DEF IInv
<1>2. PICK m \in Lengths : /\ CommitThenCopy(m) /\ m <= n /\ rest' = n - m
  <2>1. prodPc = "window" /\ prodLen \in Lengths
    BY <1>1 DEF UdpDatagram, CommitThenCopy, TypeOK, ProducerInv
  <2>2. CASE n <= prodLen /\ CommitThenCopy(n) /\ UNCHANGED rest
    BY <2>2 DEF UdpDatagram
  <2>3. CASE n > prodLen /\ CommitThenCopy(prodLen) /\ rest' = n - prodLen
    BY <2>1, <2>3
  <2>4. QED
    BY <2>2, <2>3 DEF UdpDatagram
<1>3. [Next]_vars
  BY <1>2 DEF Next, RecvNext
<1>4. /\ udp /\ closed = "no" /\ rest = 0 /\ nIn + n <= Total
      /\ nIn' = nIn + m /\ prodPc = "window" /\ prodPc' = "committed"
      /\ rest' = n - m
      /\ UNCHANGED <<nUse, nOut, streamVars, parseVars, eventVars, nRun, closed>>
  BY <1>2 DEF UdpDatagram, CommitThenCopy, CostBuff
<1>5. ParserType' /\ EventInv' /\ PositionInv' /\ LoopInv' /\ TailInv' /\ TcpInv' /\ RestInv'
  BY <1>1, <1>2, <1>4 DEF PInv, ParserType, EventInv, PositionInv, LoopInv, TailInv,
     TcpInv, RestInv, streamVars, parseVars, eventVars
<1>6. WithinStream'
  <2>1. Total' = Total /\ nIn \in Nat
    BY <1>1, <1>4 DEF Total, streamVars, TypeOK
  <2>2. Total \in Nat
    BY StreamType DEF PInv, ParserType, Total
  <2>3. nIn' + rest' = nIn + n
    BY <1>2, <1>4, <2>1
  <2>4. QED
    BY <1>4, <2>1, <2>2, <2>3 DEF WithinStream
<1>7. QED
  BY <1>3, <1>5, <1>6 DEF PInv

\* CostBuff after recv(): what TCP had unparsed was less than a header, and the
\* window ends at the end of the ring.
LEMMA CommitStep == ASSUME IInv, PInv, Commit PROVE [Next]_vars /\ PInv'
<1> USE ParserConstants DEF Cells, Lengths
<1>1. [Next]_vars
  BY DEF Commit, Next, RecvNext
<1>2. TypeOK /\ Geometry /\ ConsumerInv /\ ParserInv /\ ProducerInv /\ TypeOK' /\ ParserInv'
  BY <1>1, NextInv DEF IInv
<1>3. /\ prodPc = "written" /\ prodPc' = "parse" /\ nIn' = nIn + prodLen
      /\ UNCHANGED <<nUse, nOut, m_nUseCursor, streamVars, parseVars, rest,
                     eventVars, nRun, closed>>
  BY DEF Commit, CommitRecv, CostBuff
<1>4. /\ prodLen \in Lengths /\ prodLen <= m_nFreeLen
      /\ m_nInCursor + prodLen <= TotalLen /\ LockFree
  BY <1>2, <1>3 DEF ProducerInv, TypeOK, Geometry, ConsumerInv, Removing, Commit,
     CommitRecv, CostBuff, LockFree
<1>5. ParserType' /\ EventInv' /\ PositionInv' /\ TailInv' /\ RestInv'
  BY <1>2, <1>3 DEF PInv, ParserType, EventInv, PositionInv, TailInv, LoopInv,
     RestInv, streamVars, parseVars, eventVars
<1>6. parsePc = "none" /\ LoopInv'
  BY <1>2, <1>3 DEF PInv, ParserType, LoopInv, parseVars
<1>7. WithinStream'
  BY <1>2, <1>3, <1>4 DEF PInv, WithinStream, Total, streamVars, TypeOK
<1>8. ASSUME ~udp PROVE TcpInv'
  <2>1. /\ nIn - nUse < HeaderLen /\ (m_nNeedData # 0 => nUse = nIn) /\ rest = 0
        /\ nUse <= nIn /\ nUse \in Nat /\ nIn \in Nat
    BY <1>2, <1>3, <1>8 DEF PInv, TcpInv, ParserInv, Written, TypeOK
  <2>2. nUse' < nIn'
    BY <1>3, <1>4, <2>1
  <2>3. ASSUME m_bUseLoop', m_nInCursor' > 0
        PROVE  m_nNeedData' = 0 /\ Piece' < HeaderLen
    <3>1. Fits(prodLen) /\ AdvanceIn(prodLen)
      BY <1>2, <1>4 DEF Commit, CommitRecv, CostBuff, Fits
    <3>2. m_bUseLoop
      <4>1. CASE prodLen + m_nInCursor < TotalLen
        BY <2>3, <3>1, <4>1, Zenon DEF AdvanceIn
      <4>2. CASE ~(prodLen + m_nInCursor < TotalLen)
        BY <1>2, <1>4, <2>3, <3>1, <4>2 DEF AdvanceIn, TypeOK
      <4>3. QED
        BY <4>1, <4>2
    <3>3. nIn - nUse = TotalLen - m_nUseCursor + m_nInCursor
      BY <1>2, <3>2 DEF ParserInv
    <3>4. Piece' = TotalLen - m_nUseCursor
      BY <1>3, <2>3 DEF Piece
    <3>5. QED
      BY <1>2, <1>3, <2>1, <3>3, <3>4 DEF TypeOK, parseVars
  <2>4. QED
    BY <1>3, <2>1, <2>2, <2>3 DEF TcpInv
<1>9. ASSUME udp PROVE TcpInv'
  BY <1>3, <1>9 DEF TcpInv, streamVars
<1>10. QED
  BY <1>1, <1>5, <1>6, <1>7, <1>8, <1>9 DEF PInv

-----------------------------------------------------------------------------
(* The parser                                                               *)

\* The numbers the parser works with.
LEMMA ParserNumbers ==
  ASSUME IInv, PInv
  PROVE  /\ nIn \in Nat /\ nUse \in Nat /\ nOut \in Nat /\ Total \in Nat
         /\ start \in [0 .. MaxMsgs -> Nat] /\ start[nEvent] \in Nat
         /\ nEvent \in 0 .. MaxMsgs /\ nRun \in 0 .. nEvent
         /\ nIn <= Total /\ start[nEvent] <= nUse
         /\ nEvent = MaxMsgs => start[nEvent] = Total
<1> USE ParserConstants
<1>1. start \in Streams /\ nEvent \in 0 .. MaxMsgs /\ nRun \in 0 .. nEvent /\ rest \in Nat
  BY DEF PInv, ParserType
<1>2. nIn \in Nat /\ nUse \in Nat /\ nOut \in Nat
  BY DEF IInv, TypeOK
<1>3. start \in [0 .. MaxMsgs -> Nat]
  BY <1>1, StreamType
<1>4. Total \in Nat /\ start[nEvent] \in Nat /\ (nEvent = MaxMsgs => start[nEvent] = Total)
  BY <1>1, <1>3 DEF Total
<1>5. QED
  BY <1>1, <1>2, <1>3, <1>4 DEF PInv, WithinStream, PositionInv

\* With unaccepted bytes of it in the ring, there is a next message.
LEMMA NextMessage ==
  ASSUME IInv, PInv, start[nEvent] < nIn
  PROVE  /\ nEvent < MaxMsgs /\ nEvent + 1 \in Msgs /\ nEvent + 1 \in 0 .. MaxMsgs
         /\ start[nEvent + 1] \in Nat /\ start[nEvent + 1] - start[nEvent] \in Nat
         /\ HeaderLen <= start[nEvent + 1] - start[nEvent]
         /\ start[nEvent + 1] - start[nEvent] <= MaxPacket
         /\ CheckPkgHeader(start[nEvent]) = start[nEvent + 1] - start[nEvent]
<1> USE ParserConstants
<1>1. start \in Streams
  BY DEF PInv, ParserType
<1>2. nEvent < MaxMsgs
  BY ParserNumbers
<1>3. /\ CheckPkgHeader(start[nEvent]) = start[nEvent + 1] - start[nEvent]
      /\ start[nEvent + 1] - start[nEvent] \in HeaderLen .. MaxPacket
      /\ nEvent + 1 \in Msgs /\ nEvent + 1 \in 0 .. MaxMsgs
  BY <1>1, <1>2, ParserNumbers, HeaderAt
<1>4. start[nEvent + 1] \in Nat
  BY <1>3, ParserNumbers
<1>5. QED
  BY <1>2, <1>3, <1>4

\* NETEVT_RECV for the next message.
LEMMA PushStep ==
  ASSUME IInv, PInv, nEvent < MaxMsgs,
         PushRecv(start[nEvent + 1] - start[nEvent]),
         UNCHANGED <<start, nRun, nOut>>
  PROVE  /\ EventInv' /\ nEvent' = nEvent + 1
         /\ nEvent' \in 0 .. MaxMsgs /\ nRun' \in 0 .. nEvent'
         /\ evLen' \in [Msgs -> Nat]
<1> USE ParserConstants
<1> DEFINE len == start[nEvent + 1] - start[nEvent]
<1>0. nEvent \in 0 .. MaxMsgs /\ nRun \in 0 .. nEvent /\ start \in Streams
        /\ evLen \in [Msgs -> Nat]
  BY DEF PInv, ParserType
<1>1. len \in Nat /\ nEvent + 1 \in Msgs
  BY <1>0, HeaderAt
<1>2. evLen' = [evLen EXCEPT ![nEvent + 1] = len] /\ nEvent' = nEvent + 1
  BY DEF PushRecv
<1>3. evLen' \in [Msgs -> Nat]
  BY <1>0, <1>1, <1>2
<1>4. ASSUME NEW k \in 1 .. nEvent' PROVE evLen'[k] = start'[k] - start'[k - 1]
  <2>1. CASE k = nEvent + 1
    BY <1>0, <1>1, <1>2, <2>1
  <2>2. CASE k # nEvent + 1
    <3>1. k \in 1 .. nEvent /\ k \in Msgs
      BY <1>0, <1>2, <2>2 DEF Msgs
    <3>2. evLen'[k] = evLen[k]
      BY <1>0, <1>2, <2>2, <3>1
    <3>3. QED
      BY <3>1, <3>2 DEF PInv, EventInv
  <2>3. QED
    BY <2>1, <2>2
<1>5. QED
  BY <1>0, <1>2, <1>3, <1>4 DEF PInv, EventInv

\* A message is complete: what is left of it is accepted, and announced.
LEMMA FinishStep ==
  ASSUME IInv, PInv, prodPc = "parse", closed = "no", parsePc # "none",
         NEW n \in Nat, n # 0, n <= Piece, UseBuff(n),
         nEvent < MaxMsgs, nUse + n = start[nEvent + 1],
         PushRecv(start[nEvent + 1] - start[nEvent]),
         ~udp /\ m_bUseLoop => m_nInCursor = 0,
         parsePc' = "loop", nLen' = Piece - n, pParseBuf' \in Nat,
         nLen' # 0 => pParseBuf' = m_nUseCursor + n,
         nUsedLen' = 0, m_nNeedData' = 0, m_nPacketLen' = 0,
         UNCHANGED <<closed, streamVars, rest, nRun>>
  PROVE  [Next]_vars /\ PInv'
<1> USE ParserConstants DEF Cells
<1>1. /\ Next /\ IInv' /\ nUse' = nUse + n
      /\ UNCHANGED <<nIn, nOut, prodPc, prodLen, m_nInCursor>>
      /\ \/ ~m_bUseLoop /\ ~m_bUseLoop' /\ m_nUseCursor' = m_nUseCursor + n
         \/ m_bUseLoop /\ m_bUseLoop' /\ m_nUseCursor' = m_nUseCursor + n
         \/ m_bUseLoop /\ n = Piece /\ ~m_bUseLoop' /\ m_nUseCursor' = 0
      /\ ~(m_bUseLoop /\ n = Piece) => Piece' = Piece - n
      /\ Piece' \in Nat
  BY UseStep
<1>2. /\ EventInv' /\ nEvent' = nEvent + 1
      /\ nEvent' \in 0 .. MaxMsgs /\ nRun' \in 0 .. nEvent'
      /\ evLen' \in [Msgs -> Nat]
  BY <1>1, PushStep DEF streamVars
<1>3. /\ nIn \in Nat /\ nUse \in Nat /\ Piece \in Nat /\ m_nInCursor \in Nat
      /\ nIn - nUse = IF m_bUseLoop THEN Piece + m_nInCursor ELSE Piece
      /\ m_nUseCursor \in Nat
  BY PieceShown, ParserNumbers
<1>4. ParserType' /\ WithinStream' /\ TailInv' /\ RestInv'
  <2>1. nLen' \in Nat
    BY <1>3
  <2>2. QED
    BY <1>1, <1>2, <2>1 DEF PInv, ParserType, WithinStream, TailInv, RestInv, Total,
       streamVars
<1>5. PositionInv'
  <2>1. start[nEvent + 1] \in Nat /\ start' = start
    BY ParserNumbers DEF streamVars
  <2>2. QED
    BY <1>1, <1>2, <2>1 DEF PositionInv
<1>6. LoopInv'
  <2>1. rest' = 0
    BY DEF PInv, LoopInv
  <2>2. CASE nLen' # 0
    BY <1>1, <1>3, <2>1, <2>2 DEF LoopInv
  <2>3. CASE nLen' = 0 /\ ~m_bUseLoop
    <3>1. nIn' - (nUse' + nUsedLen') < HeaderLen
      BY <1>1, <1>3, <2>3
    <3>2. QED
      BY <1>1, <2>1, <2>3, <3>1 DEF LoopInv
  <2>4. CASE nLen' = 0 /\ m_bUseLoop /\ ~udp
    <3>1. nIn' - (nUse' + nUsedLen') < HeaderLen
      BY <1>1, <1>3, <2>4
    <3>2. QED
      BY <1>1, <2>1, <2>4, <3>1 DEF LoopInv
  <2>5. CASE nLen' = 0 /\ m_bUseLoop /\ udp
    <3>1. n = Piece
      BY <1>3, <2>5
    <3>2. m_nUseCursor' = 0
      <4>1. m_nUseCursor + n = TotalLen /\ m_nUseCursor' # TotalLen
        BY <1>1, <1>3, <2>5, <3>1 DEF Piece, IInv, TypeOK
      <4>2. QED
        BY <1>1, <4>1
    <3>3. udp'
      BY <2>5 DEF streamVars
    <3>4. QED
      BY <1>1, <2>1, <2>5, <3>2, <3>3 DEF LoopInv
  <2>6. QED
    BY <2>2, <2>3, <2>4, <2>5
<1>7. TcpInv'
  <2>1. ASSUME ~udp', m_bUseLoop' PROVE m_nInCursor' = 0
    BY <1>1, <2>1 DEF streamVars
  <2>2. rest' = 0 /\ prodPc' = "parse"
    BY <1>1 DEF PInv, LoopInv
  <2>3. QED
    BY <2>1, <2>2 DEF TcpInv
<1>8. QED
  BY <1>1, <1>2, <1>4, <1>5, <1>6, <1>7 DEF PInv

\* GetUsedCursorPtr: TCP never comes here with nothing to show.
LEMMA BeginParseStep == ASSUME IInv, PInv, BeginParse PROVE [Next]_vars /\ PInv'
<1> USE ParserConstants DEF Cells
<1>1. /\ prodPc = "parse" /\ parsePc = "none" /\ rest = 0 /\ closed = "no"
      /\ UNCHANGED vars
      /\ parsePc' = "loop" /\ nUsedLen' = 0
      /\ nLen' = UsedCursorLen /\ pParseBuf' = m_nUseCursor
      /\ closed' = IF UsedCursorLen <= 0 /\ ~udp THEN "header" ELSE closed
      /\ UNCHANGED <<udp, start, m_nNeedData, m_nPacketLen, header, rest, evLen,
                     nEvent, nRun>>
  BY DEF BeginParse, streamVars, eventVars
<1>2. /\ UNCHANGED <<nIn, nUse, nOut, prodPc, prodLen, m_nUseCursor, m_nInCursor,
                     m_bUseLoop>>
      /\ Piece' = Piece
  BY <1>1 DEF vars, cursors, prodVars, Piece
<1>3. /\ UsedCursorLen = Piece /\ Piece \in Nat /\ m_nUseCursor \in Nat
      /\ nIn - nUse = IF m_bUseLoop THEN Piece + m_nInCursor ELSE Piece
      /\ nUse < nIn => Piece > 0
      /\ nUse <= nIn /\ nIn \in Nat /\ nUse \in Nat /\ m_nInCursor \in Nat
  BY <1>1, PieceShown, ParserNumbers
<1>4. closed' = "no"
  <2>1. ~udp => nUse < nIn
    BY <1>1 DEF PInv, TcpInv
  <2>2. QED
    BY <1>1, <1>3, <2>1
<1>5. nUsedLen = 0
  BY <1>1 DEF PInv, LoopInv
<1>6. ParserType' /\ WithinStream' /\ EventInv' /\ PositionInv' /\ TailInv' /\ RestInv'
  BY <1>1, <1>2, <1>3, <1>4, <1>5 DEF PInv, ParserType, WithinStream, EventInv,
     PositionInv, TailInv, RestInv, Total
<1>7. LoopInv'
  <2>1. nLen' = 0 => nIn = nUse
    BY <1>1, <1>3
  <2>2. QED
    BY <1>1, <1>2, <1>3, <2>1 DEF LoopInv
<1>8. TcpInv'
  BY <1>1, <1>2 DEF PInv, TcpInv
<1>9. QED
  BY <1>1, <1>6, <1>7, <1>8 DEF PInv

\* What the parser knows at the head of its loop.
LEMMA AtLoop ==
  ASSUME IInv, PInv, Parsing
  PROVE  /\ prodPc = "parse" /\ parsePc = "loop" /\ rest = 0
         /\ nLen \in Nat /\ nLen > 0 /\ nUsedLen \in Nat /\ m_nNeedData \in Nat
         /\ pParseBuf = m_nUseCursor + nUsedLen /\ pParseBuf \in Nat
         /\ m_nUseCursor \in Nat /\ m_nInCursor \in Nat
         /\ nUsedLen + nLen = Piece /\ Piece \in Nat
         /\ nIn \in Nat /\ nUse \in Nat /\ nUse < nIn
         /\ start[nEvent] \in Nat /\ start[nEvent] < nIn
         /\ nIn - nUse = IF m_bUseLoop THEN Piece + m_nInCursor ELSE Piece
         /\ m_nNeedData = 0 => nUsedLen = 0 /\ nUse = start[nEvent]
         /\ ~udp /\ m_bUseLoop /\ m_nInCursor # 0 => m_nNeedData = 0 /\ nLen < HeaderLen
<1> USE ParserConstants DEF Cells
<1>1. /\ prodPc = "parse" /\ parsePc = "loop" /\ rest = 0
      /\ nLen \in Nat /\ nLen > 0 /\ nUsedLen \in Nat /\ m_nNeedData \in Nat
      /\ pParseBuf = m_nUseCursor + nUsedLen /\ pParseBuf \in Nat
      /\ nUsedLen + nLen = Piece
      /\ m_nNeedData = 0 => nUsedLen = 0 /\ nUse = start[nEvent]
  BY DEF Parsing, PInv, ParserType, LoopInv, PositionInv
<1>2. /\ Piece \in Nat /\ m_nUseCursor \in Nat /\ m_nInCursor \in Nat
      /\ nIn - nUse = IF m_bUseLoop THEN Piece + m_nInCursor ELSE Piece
      /\ nIn \in Nat /\ nUse \in Nat /\ start[nEvent] \in Nat /\ start[nEvent] <= nUse
  BY <1>1, PieceShown, ParserNumbers
<1>3. nUse < nIn
  BY <1>1, <1>2
<1>4. ~udp /\ m_bUseLoop /\ m_nInCursor # 0 => m_nNeedData = 0 /\ Piece < HeaderLen
  BY <1>1, <1>2 DEF PInv, TcpInv
<1>5. QED
  BY <1>1, <1>2, <1>3, <1>4

LEMMA TakeBodyStep ==
  ASSUME IInv, PInv, closed = "no", TakeBody, UNCHANGED <<streamVars, rest, nRun>>
  PROVE  [Next]_vars /\ PInv'
<1> USE ParserConstants
<1> DEFINE n == nUsedLen + m_nNeedData
<1>1. Parsing /\ m_nNeedData # 0 /\ nLen >= m_nNeedData
  BY DEF TakeBody
<1>2. /\ nEvent < MaxMsgs
      /\ m_nPacketLen = start[nEvent + 1] - start[nEvent]
      /\ nUse + nUsedLen = start[nEvent] + m_nPacketLen - m_nNeedData
  BY <1>1 DEF PInv, PositionInv
<1>3. start[nEvent + 1] \in Nat
  BY <1>1, AtLoop, NextMessage
<1>4. n \in Nat /\ n # 0 /\ n <= Piece /\ nUse + n = start[nEvent + 1]
      /\ nLen - m_nNeedData = Piece - n
      /\ pParseBuf + m_nNeedData = m_nUseCursor + n
      /\ pParseBuf + m_nNeedData \in Nat
  BY <1>1, <1>2, <1>3, AtLoop
<1>5. ~udp /\ m_bUseLoop => m_nInCursor = 0
  BY <1>1, AtLoop
<1>6. /\ UseBuff(n) /\ PushRecv(start[nEvent + 1] - start[nEvent])
      /\ parsePc' = "loop" /\ nLen' = Piece - n /\ pParseBuf' = m_nUseCursor + n
      /\ nUsedLen' = 0 /\ m_nNeedData' = 0 /\ m_nPacketLen' = 0 /\ closed' = closed
      /\ prodPc = "parse" /\ parsePc # "none"
  BY <1>1, <1>2, <1>4, AtLoop DEF TakeBody
<1> HIDE DEF n
<1>7. QED
  BY <1>2, <1>4, <1>5, <1>6, FinishStep

\* The part of a message that the piece ends with: inside the piece nothing but
\* m_nNeedData and nUsedLen moves.
LEMMA PartStep ==
  ASSUME IInv, PInv, closed = "no", Parsing, UNCHANGED vars,
         nEvent < MaxMsgs,
         m_nPacketLen' = start[nEvent + 1] - start[nEvent],
         m_nNeedData' \in Nat, m_nNeedData' # 0, m_nNeedData' < m_nPacketLen',
         m_nPacketLen' \in Nat,
         nUsedLen' = nUsedLen + nLen, nLen' = 0,
         nUse + nUsedLen + nLen = start[nEvent] + m_nPacketLen' - m_nNeedData',
         ~udp /\ m_bUseLoop => m_nInCursor = 0,
         UNCHANGED <<parsePc, pParseBuf, header, eventVars, closed, streamVars, rest, nRun>>
  PROVE  PInv'
<1> USE ParserConstants
<1>1. /\ UNCHANGED <<nIn, nUse, nOut, prodPc, prodLen, m_nUseCursor, m_nInCursor,
                     m_bUseLoop>>
      /\ Piece' = Piece
  BY DEF vars, cursors, prodVars, Piece
<1>2. /\ UNCHANGED <<udp, start, evLen, nEvent>>
  BY DEF streamVars, eventVars
<1>3. nUsedLen' \in Nat /\ nUsedLen' = Piece
  BY AtLoop
<1>4. ParserType' /\ WithinStream' /\ EventInv' /\ RestInv'
  BY <1>1, <1>2, <1>3 DEF PInv, ParserType, WithinStream, EventInv, RestInv, Total
<1>5. PositionInv'
  BY <1>1, <1>2, <1>3, AtLoop DEF PInv, PositionInv
<1>6. TailInv' /\ TcpInv'
  BY <1>1, <1>2, AtLoop DEF PInv, TailInv, TcpInv
<1>7. LoopInv'
  <2>1. prodPc' = "parse" /\ rest' = 0 /\ parsePc' = "loop" /\ nUsedLen' + nLen' <= Piece'
    BY <1>1, <1>3, AtLoop
  <2>2. CASE m_bUseLoop /\ udp
    BY <1>1, <1>2, <1>3, <2>1, <2>2 DEF LoopInv
  <2>3. CASE ~(m_bUseLoop /\ udp)
    <3>1. nUse + nUsedLen' = nIn
      BY <1>3, <2>3, AtLoop
    <3>2. nUse' + nUsedLen' = nIn' /\ nIn' - (nUse' + nUsedLen') < HeaderLen
      BY <1>1, <1>3, <3>1, AtLoop
    <3>3. QED
      BY <2>1, <3>2 DEF LoopInv
  <2>4. QED
    BY <2>2, <2>3
<1>8. QED
  BY <1>4, <1>5, <1>6, <1>7 DEF PInv

LEMMA TakePartStep ==
  ASSUME IInv, PInv, closed = "no", TakePart, UNCHANGED <<streamVars, rest, nRun>>
  PROVE  [Next]_vars /\ PInv'
<1> USE ParserConstants
<1>1. /\ Parsing /\ m_nNeedData # 0 /\ nLen < m_nNeedData
      /\ m_nNeedData' = m_nNeedData - nLen /\ nUsedLen' = nUsedLen + nLen /\ nLen' = 0
      /\ UNCHANGED <<vars, m_nPacketLen, parsePc, pParseBuf, header, eventVars, closed>>
  BY DEF TakePart
<1>2. /\ nEvent < MaxMsgs /\ m_nPacketLen \in Nat
      /\ m_nPacketLen = start[nEvent + 1] - start[nEvent]
      /\ m_nNeedData < m_nPacketLen
      /\ nUse + nUsedLen = start[nEvent] + m_nPacketLen - m_nNeedData
  BY <1>1 DEF PInv, PositionInv, ParserType
<1>3. /\ m_nNeedData' \in Nat /\ m_nNeedData' # 0 /\ m_nNeedData' < m_nPacketLen'
      /\ nUse + nUsedLen + nLen = start[nEvent] + m_nPacketLen' - m_nNeedData'
  BY <1>1, <1>2, AtLoop
<1>4. ~udp /\ m_bUseLoop => m_nInCursor = 0
  BY <1>1, AtLoop
<1>5. PInv'
  BY <1>1, <1>2, <1>3, <1>4, PartStep
<1>6. QED
  BY <1>1, <1>5

\* The header the parser reads in one piece is the header of the next message.
LEMMA HeaderSeen ==
  ASSUME IInv, PInv, Parsing, m_nNeedData = 0, nLen >= HeaderLen
  PROVE  ParsePacket(pParseBuf) = start[nEvent + 1] - start[nEvent]
<1> USE ParserConstants
<1>1. pParseBuf = m_nUseCursor /\ HeaderLen <= Piece /\ nUse = start[nEvent]
        /\ start[nEvent] < nIn /\ Piece \in Nat /\ m_nUseCursor \in Nat
  BY AtLoop
<1>2. \A i \in 0 .. Piece - 1 : m_pszBuff[m_nUseCursor + i] = nUse + i
  BY AtLoop, PieceShown
<1>3. m_pszBuff[pParseBuf] = start[nEvent]
  <2>1. m_pszBuff[m_nUseCursor + 0] = nUse + 0
    BY <1>1, <1>2
  <2>2. m_nUseCursor + 0 = m_nUseCursor /\ nUse + 0 = nUse
    BY <1>1, AtLoop
  <2>3. QED
    BY <1>1, <2>1, <2>2
<1>4. Holds(pParseBuf, HeaderLen, m_pszBuff[pParseBuf])
  BY <1>1, <1>2, <1>3 DEF Holds
<1>5. CheckPkgHeader(start[nEvent]) = start[nEvent + 1] - start[nEvent]
  BY <1>1, NextMessage
<1>6. QED
  BY <1>3, <1>4, <1>5 DEF ParsePacket

LEMMA TakeMessageStep ==
  ASSUME IInv, PInv, closed = "no", TakeMessage, UNCHANGED <<streamVars, rest, nRun>>
  PROVE  [Next]_vars /\ PInv'
<1> USE ParserConstants
<1> DEFINE len == start[nEvent + 1] - start[nEvent]
<1>1. Parsing /\ m_nNeedData = 0 /\ nLen >= HeaderLen
  BY DEF TakeMessage
<1>2. ParsePacket(pParseBuf) = len
  BY <1>1, HeaderSeen
<1>3. /\ nEvent < MaxMsgs /\ len \in Nat /\ HeaderLen <= len /\ len # -1 /\ len # 0
      /\ start[nEvent + 1] \in Nat
  BY <1>1, AtLoop, NextMessage
<1>4. /\ nUse = start[nEvent] /\ nUsedLen = 0 /\ nLen = Piece /\ pParseBuf = m_nUseCursor
      /\ m_nUseCursor \in Nat /\ Piece \in Nat /\ start[nEvent] \in Nat
      /\ prodPc = "parse" /\ parsePc = "loop"
  BY <1>1, AtLoop
<1>5. ~udp /\ m_bUseLoop => m_nInCursor = 0
  BY <1>1, AtLoop
<1>6. \/ /\ nLen >= len
         /\ UseBuff(nUsedLen + len)
         /\ PushRecv(len)
         /\ nLen' = nLen - len
         /\ pParseBuf' = pParseBuf + nUsedLen + len
         /\ nUsedLen' = 0
         /\ m_nPacketLen' = 0 /\ m_nNeedData' = 0
         /\ UNCHANGED <<parsePc, header, closed>>
      \/ /\ nLen < len
         /\ m_nPacketLen' = len
         /\ m_nNeedData' = len - nLen
         /\ nUsedLen' = nUsedLen + nLen
         /\ nLen' = 0
         /\ UNCHANGED <<vars, parsePc, pParseBuf, header, eventVars, closed>>
  BY <1>2, <1>3, Zenon DEF TakeMessage
<1>7. CASE nLen >= len /\ UseBuff(nUsedLen + len)
  <2>1. UseBuff(len) /\ len <= Piece /\ nUse + len = start[nEvent + 1]
    <3>1. nUsedLen + len = len
      BY <1>3, <1>4
    <3>2. QED
      BY <1>3, <1>4, <1>7, <3>1
  <2>2. /\ PushRecv(start[nEvent + 1] - start[nEvent]) /\ parsePc' = "loop"
        /\ nLen' = Piece - len /\ pParseBuf' = m_nUseCursor + len /\ pParseBuf' \in Nat
        /\ nUsedLen' = 0 /\ m_nPacketLen' = 0 /\ m_nNeedData' = 0 /\ closed' = closed
    BY <1>3, <1>4, <1>6, <1>7
  <2> HIDE DEF len
  <2>3. QED
    BY <1>3, <1>4, <1>5, <2>1, <2>2, FinishStep
<1>8. CASE nLen < len /\ UNCHANGED vars
  <2>1. /\ m_nPacketLen' = start[nEvent + 1] - start[nEvent]
        /\ m_nNeedData' = len - nLen
        /\ nUsedLen' = nUsedLen + nLen /\ nLen' = 0
        /\ UNCHANGED <<parsePc, pParseBuf, header, eventVars, closed>>
    BY <1>3, <1>4, <1>6, <1>8
  <2>2. /\ m_nNeedData' \in Nat /\ m_nNeedData' # 0 /\ m_nNeedData' < m_nPacketLen'
        /\ m_nPacketLen' \in Nat
        /\ nUse + nUsedLen + nLen = start[nEvent] + m_nPacketLen' - m_nNeedData'
    BY <1>1, <1>3, <1>4, <1>8, <2>1
  <2>3. PInv'
    BY <1>1, <1>3, <1>5, <1>8, <2>1, <2>2, PartStep
  <2>4. QED
    BY <1>8, <2>3
<1>9. QED
  BY <1>6, <1>7, <1>8

\* The beginning of a header at the end of the ring is kept.
LEMMA SplitHeaderStep ==
  ASSUME IInv, PInv, closed = "no", SplitHeader, UNCHANGED <<streamVars, rest, nRun>>
  PROVE  [Next]_vars /\ PInv'
<1> USE ParserConstants DEF Cells
<1>1. /\ Parsing /\ m_nNeedData = 0 /\ nLen < HeaderLen /\ HeaderThere
      /\ header' = IF Holds(pParseBuf, nLen, m_pszBuff[pParseBuf])
                     THEN m_pszBuff[pParseBuf] ELSE -1
      /\ UseBuff(nLen) /\ parsePc' = "tail"
      /\ UNCHANGED <<m_nNeedData, m_nPacketLen, nLen, nUsedLen, pParseBuf, evLen,
                     nEvent, closed, udp, start>>
  BY DEF SplitHeader, eventVars, streamVars
<1>2. /\ prodPc = "parse" /\ nUsedLen = 0 /\ nLen = Piece /\ pParseBuf = m_nUseCursor
      /\ nUse = start[nEvent] /\ nUse \in Nat /\ nIn \in Nat /\ rest = 0
      /\ nLen \in Nat /\ nLen > 0 /\ m_nUseCursor \in Nat
      /\ nIn - nUse = IF m_bUseLoop THEN Piece + m_nInCursor ELSE Piece
  BY <1>1, AtLoop
<1>3. HeaderLen <= nIn - nUse
  BY <1>1, <1>2, PieceShown DEF HeaderThere
<1>4. m_bUseLoop
  BY <1>1, <1>2, <1>3
<1>5. /\ Next /\ nUse' = nUse + nLen
      /\ UNCHANGED <<nIn, nOut, prodPc, prodLen, m_nInCursor>>
      /\ \/ m_bUseLoop' /\ m_nUseCursor' = m_nUseCursor + nLen
         \/ ~m_bUseLoop' /\ m_nUseCursor' = 0
      /\ IInv'
  BY <1>1, <1>2, <1>4, UseStep
<1>6. m_nUseCursor' = 0 /\ ~m_bUseLoop'
  <2>1. m_nUseCursor + nLen = TotalLen /\ m_nUseCursor' # TotalLen
    BY <1>2, <1>4, <1>5 DEF Piece, IInv, TypeOK
  <2>2. QED
    BY <1>5, <2>1
<1>7. header' = start[nEvent]
  <2>1. \A i \in 0 .. Piece - 1 : m_pszBuff[m_nUseCursor + i] = nUse + i
    BY <1>2, PieceShown
  <2>2. m_pszBuff[pParseBuf] = nUse
    <3>1. m_pszBuff[m_nUseCursor + 0] = nUse + 0
      BY <1>2, <2>1
    <3>2. m_nUseCursor + 0 = m_nUseCursor /\ nUse + 0 = nUse
      BY <1>2
    <3>3. QED
      BY <1>2, <3>1, <3>2
  <2>3. Holds(pParseBuf, nLen, m_pszBuff[pParseBuf])
    BY <1>2, <2>1, <2>2 DEF Holds
  <2>4. QED
    BY <1>1, <1>2, <2>2, <2>3
<1>8. ParserType' /\ WithinStream' /\ EventInv' /\ RestInv'
  BY <1>1, <1>2, <1>5 DEF PInv, ParserType, WithinStream, EventInv, RestInv, Total
<1>9. PositionInv' /\ TailInv'
  BY <1>1, <1>2, <1>3, <1>5, <1>6, <1>7 DEF PositionInv, TailInv
<1>10. LoopInv' /\ TcpInv'
  BY <1>1, <1>2, <1>5, <1>6 DEF LoopInv, TcpInv
<1>11. QED
  BY <1>5, <1>8, <1>9, <1>10 DEF PInv

\* The rest of a split header: with what was kept it is the next message's.
LEMMA TailOfHeaderStep ==
  ASSUME IInv, PInv, closed = "no", TailOfHeader, UNCHANGED <<streamVars, rest, nRun>>
  PROVE  [Next]_vars /\ PInv'
<1> USE ParserConstants DEF Cells
<1> DEFINE more == HeaderLen - nLen
           len == start[nEvent + 1] - start[nEvent]
<1>1. prodPc = "parse" /\ parsePc = "tail"
  BY DEF TailOfHeader
<1>2. /\ m_nNeedData = 0 /\ nUsedLen = 0 /\ nLen \in 1 .. HeaderLen - 1
      /\ nUse = start[nEvent] + nLen /\ header = start[nEvent]
      /\ m_nUseCursor = 0 /\ ~m_bUseLoop /\ nIn - nUse >= more /\ rest = 0
  BY <1>1 DEF PInv, TailInv, PositionInv, LoopInv
<1>3. /\ UsedCursorLen = Piece /\ Piece = nIn - nUse /\ Piece \in Nat
      /\ nIn \in Nat /\ nUse \in Nat /\ start[nEvent] \in Nat
      /\ \A i \in 0 .. Piece - 1 : m_pszBuff[m_nUseCursor + i] = nUse + i
  BY <1>1, <1>2, PieceShown, ParserNumbers
<1>4. more \in Nat /\ more > 0 /\ more <= Piece /\ start[nEvent] < nIn
  BY <1>2, <1>3
<1>5. /\ nEvent < MaxMsgs /\ len \in Nat /\ HeaderLen <= len /\ len > 0
      /\ start[nEvent + 1] \in Nat
      /\ CheckPkgHeader(start[nEvent]) = len
  BY <1>4, NextMessage
<1>6. ParseSplit(nLen, m_nUseCursor) = len
  <2>1. header + nLen = nUse
    BY <1>2, <1>3
  <2>2. Holds(m_nUseCursor, more, header + nLen)
    BY <1>3, <1>4, <2>1 DEF Holds
  <2>3. QED
    BY <1>2, <1>5, <2>2 DEF ParseSplit
<1>7. /\ parsePc' = "loop" /\ m_nNeedData' = len - HeaderLen
      /\ nLen' = Piece - more /\ pParseBuf' = m_nUseCursor + more
      /\ \/ /\ len = HeaderLen /\ UseBuff(more) /\ PushRecv(len)
            /\ nUsedLen' = 0 /\ m_nPacketLen' = 0
         \/ /\ len # HeaderLen /\ nUsedLen' = more /\ m_nPacketLen' = len
            /\ UNCHANGED <<vars, eventVars>>
      /\ UNCHANGED <<header, closed>>
  <2>1. ~(more > UsedCursorLen \/ len <= 0)
    BY <1>3, <1>4, <1>5
  <2>2. QED
    BY <1>3, <1>6, <2>1, Zenon DEF TailOfHeader
<1>8. CASE len = HeaderLen /\ UseBuff(more)
  <2>1. nUse + more = start[nEvent + 1]
    BY <1>2, <1>3, <1>5, <1>8
  <2>2. /\ PushRecv(start[nEvent + 1] - start[nEvent]) /\ pParseBuf' \in Nat
        /\ nUsedLen' = 0 /\ m_nPacketLen' = 0 /\ m_nNeedData' = 0 /\ closed' = closed
        /\ more # 0
    BY <1>2, <1>4, <1>7, <1>8
  <2> HIDE DEF more, len
  <2>3. QED
    BY <1>1, <1>2, <1>4, <1>5, <1>7, <1>8, <2>1, <2>2, FinishStep
<1>9. CASE len # HeaderLen /\ UNCHANGED <<vars, eventVars>>
  <2>1. /\ UNCHANGED <<nIn, nUse, nOut, prodPc, prodLen, m_nUseCursor, m_nInCursor,
                       m_bUseLoop>>
        /\ Piece' = Piece /\ UNCHANGED <<udp, start, evLen, nEvent>>
        /\ [Next]_vars
    BY <1>9 DEF vars, cursors, prodVars, Piece, streamVars, eventVars
  <2>2. nUsedLen' = more /\ m_nPacketLen' = len /\ m_nNeedData' = len - HeaderLen
          /\ len - HeaderLen \in Nat /\ len - HeaderLen # 0
    BY <1>5, <1>7, <1>9
  <2>3. ParserType' /\ WithinStream' /\ EventInv' /\ RestInv'
    <3>1. nLen' \in Nat /\ pParseBuf' \in Nat /\ nUsedLen' \in Nat /\ m_nPacketLen' \in Nat
      BY <1>2, <1>3, <1>4, <1>5, <1>7, <2>2
    <3>2. QED
      BY <1>1, <1>7, <2>1, <2>2, <3>1 DEF PInv, ParserType, WithinStream, EventInv,
         RestInv, Total
  <2>4. PositionInv'
    BY <1>2, <1>3, <1>4, <1>5, <1>7, <2>1, <2>2 DEF PositionInv
  <2>5. TailInv' /\ TcpInv'
    BY <1>1, <1>2, <1>7, <2>1 DEF TailInv, TcpInv
  <2>6. LoopInv'
    <3>1. nUsedLen' + nLen' = Piece'
      BY <1>3, <1>4, <1>7, <2>1, <2>2
    <3>2. nLen' = 0 => nUse' + nUsedLen' = nIn' /\ nIn' - (nUse' + nUsedLen') < HeaderLen
      BY <1>3, <1>4, <1>7, <2>1, <2>2
    <3>3. pParseBuf' = m_nUseCursor' + nUsedLen'
      BY <1>7, <2>1, <2>2
    <3>4. QED
      BY <1>1, <1>2, <1>3, <1>7, <2>1, <3>1, <3>2, <3>3 DEF LoopInv
  <2>7. QED
    BY <2>1, <2>3, <2>4, <2>5, <2>6 DEF PInv
<1>10. QED
  BY <1>7, <1>8, <1>9

\* Less than a header is there, on either side of the end of the ring.
LEMMA WaitHeaderStep ==
  ASSUME IInv, PInv, closed = "no", WaitHeader, UNCHANGED <<streamVars, rest, nRun>>
  PROVE  [Next]_vars /\ PInv'
<1> USE ParserConstants
<1>1. /\ Parsing /\ m_nNeedData = 0 /\ ~HeaderThere /\ nLen' = 0
      /\ UNCHANGED <<vars, m_nNeedData, m_nPacketLen, parsePc, nUsedLen, pParseBuf,
                     header, evLen, nEvent, closed, udp, start>>
  BY DEF WaitHeader, eventVars, streamVars
<1>2. /\ UNCHANGED <<nIn, nUse, nOut, prodPc, prodLen, m_nUseCursor, m_nInCursor,
                     m_bUseLoop>>
      /\ Piece' = Piece
  BY <1>1 DEF vars, cursors, prodVars, Piece
<1>3. nIn - nUse < HeaderLen
  <2>1. UseLen = nIn - nUse
    BY <1>1, AtLoop, PieceShown
  <2>2. QED
    BY <1>1, <2>1, AtLoop DEF HeaderThere
<1>4. ParserType' /\ WithinStream' /\ EventInv' /\ PositionInv' /\ RestInv'
  BY <1>1, <1>2 DEF PInv, ParserType, WithinStream, EventInv, PositionInv, RestInv, Total
<1>5. TailInv' /\ TcpInv'
  BY <1>1, <1>2, AtLoop DEF PInv, TailInv, TcpInv
<1>6. LoopInv'
  <2>1. nUsedLen = 0 /\ Piece \in Nat /\ nUse + nUsedLen = nUse
    BY <1>1, AtLoop
  <2>2. QED
    BY <1>1, <1>2, <1>3, <2>1, AtLoop DEF LoopInv
<1>7. QED
  BY <1>1, <1>4, <1>5, <1>6 DEF PInv

\* What was parsed of an unfinished message is accepted after the loop.
LEMMA FlushUsedStep == ASSUME IInv, PInv, FlushUsed PROVE [Next]_vars /\ PInv'
<1> USE ParserConstants DEF Cells
<1>1. /\ prodPc = "parse" /\ parsePc = "loop" /\ closed = "no" /\ nLen = 0
      /\ nUsedLen # 0 /\ UseBuff(nUsedLen) /\ nUsedLen' = 0
      /\ UNCHANGED <<udp, start, m_nNeedData, m_nPacketLen, parsePc, nLen, pParseBuf,
                     header, rest, evLen, nEvent, nRun, closed>>
  BY DEF FlushUsed, streamVars, eventVars
<1>2. /\ nUsedLen \in Nat /\ nUsedLen <= Piece /\ rest = 0 /\ m_nNeedData # 0
      /\ m_nNeedData \in Nat
      /\ \/ /\ nIn - (nUse + nUsedLen) < HeaderLen
            /\ nUse + nUsedLen = nIn
         \/ udp /\ m_bUseLoop /\ nUsedLen = Piece
  BY <1>1, PieceShown DEF PInv, LoopInv, PositionInv, ParserType
<1>3. /\ Next /\ IInv' /\ nUse' = nUse + nUsedLen
      /\ UNCHANGED <<nIn, nOut, prodPc, prodLen, m_nInCursor>>
      /\ \/ ~m_bUseLoop /\ ~m_bUseLoop' /\ m_nUseCursor' = m_nUseCursor + nUsedLen
         \/ m_bUseLoop /\ m_bUseLoop' /\ m_nUseCursor' = m_nUseCursor + nUsedLen
         \/ m_bUseLoop /\ nUsedLen = Piece /\ ~m_bUseLoop' /\ m_nUseCursor' = 0
      /\ Piece' \in Nat
  BY <1>1, <1>2, UseStep
<1>4. nIn \in Nat /\ nUse \in Nat /\ start[nEvent] \in Nat /\ start[nEvent] <= nUse
        /\ m_nUseCursor \in Nat
  BY <1>1, ParserNumbers, PieceShown
<1>5. ParserType' /\ WithinStream' /\ EventInv' /\ RestInv'
  BY <1>1, <1>2, <1>3 DEF PInv, ParserType, WithinStream, EventInv, RestInv, Total
<1>6. PositionInv'
  <2>1. nUse' + nUsedLen' = nUse + nUsedLen /\ start[nEvent] <= nUse'
    BY <1>1, <1>2, <1>3, <1>4
  <2>2. QED
    BY <1>1, <1>2, <1>3, <2>1 DEF PInv, PositionInv
<1>7. TailInv' /\ TcpInv'
  BY <1>1, <1>2, <1>3 DEF PInv, TailInv, TcpInv
<1>8. LoopInv'
  <2>1. CASE nUse + nUsedLen = nIn
    <3>1. nUse' + nUsedLen' = nIn' /\ nIn' - (nUse' + nUsedLen') < HeaderLen
      BY <1>1, <1>2, <1>3, <1>4, <2>1
    <3>2. QED
      BY <1>1, <1>2, <1>3, <3>1 DEF LoopInv
  <2>2. CASE udp /\ m_bUseLoop /\ nUsedLen = Piece
    <3>1. m_nUseCursor' = 0
      <4>1. m_nUseCursor + nUsedLen = TotalLen /\ m_nUseCursor' # TotalLen
        BY <1>3, <1>4, <2>2 DEF Piece, IInv, TypeOK
      <4>2. QED
        BY <1>3, <4>1
    <3>2. QED
      BY <1>1, <1>2, <1>3, <2>2, <3>1 DEF LoopInv
  <2>3. QED
    BY <1>2, <2>1, <2>2
<1>9. QED
  BY <1>3, <1>5, <1>6, <1>7, <1>8 DEF PInv

\* __ProcRecv pops the next announced message, which the parser has accepted.
LEMMA ProcRecvStep == ASSUME IInv, PInv, ProcRecv PROVE [Next]_vars /\ PInv'
<1> USE ParserConstants DEF Cells, Lengths
<1> DEFINE n == evLen[nRun + 1]
<1>1. /\ consPc = "idle" /\ nRun < nEvent /\ CopyOut(n) /\ nRun' = nRun + 1
      /\ UNCHANGED <<streamVars, parseVars, rest, eventVars, closed>>
  BY DEF ProcRecv
<1>2. start \in Streams /\ nEvent \in 0 .. MaxMsgs /\ nRun \in 0 .. nEvent
  BY DEF PInv, ParserType
<1>3. /\ nRun \in 0 .. MaxMsgs /\ nRun < MaxMsgs /\ nRun + 1 \in 0 .. MaxMsgs
      /\ nRun + 1 \in 1 .. nEvent /\ (nRun + 1) - 1 = nRun
  BY <1>1, <1>2
<1>4. n = start[nRun + 1] - start[nRun] /\ nOut = start[nRun]
  BY <1>3 DEF PInv, EventInv
<1>5. /\ start[nRun + 1] - start[nRun] \in HeaderLen .. MaxPacket
      /\ start[nRun + 1] \in Nat /\ start[nRun] \in Nat
  BY <1>2, <1>3, HeaderAt, StreamType
<1>6. start[nRun + 1] <= start[nEvent]
  <2>1. CASE nRun + 1 = nEvent
    BY <1>5, <2>1
  <2>2. CASE nRun + 1 # nEvent
    <3>1. start[nRun + 1] < start[nEvent]
      BY <1>2, <1>3, <2>2, StreamGrows
    <3>2. QED
      BY <1>5, <3>1, ParserNumbers
  <2>3. QED
    BY <2>1, <2>2
<1>7. n \in Lengths /\ n <= nUse - nOut /\ nOut + n = start[nRun + 1]
  <2>1. start[nEvent] <= nUse /\ nUse \in Nat /\ start[nEvent] \in Nat
    BY ParserNumbers
  <2> HIDE DEF n
  <2>2. QED
    BY <1>4, <1>5, <1>6, <2>1
<1>8. PopBuff(n)
  BY <1>1, <1>7 DEF PopBuff
<1>9. Next
  BY <1>7, <1>8 DEF Next, RecvNext
<1>10. /\ nOut' = start[nRun + 1]
       /\ UNCHANGED <<nIn, nUse, prodPc, prodLen, m_nInCursor, m_nUseCursor, m_bUseLoop>>
       /\ UNCHANGED <<udp, start, evLen, nEvent, m_nNeedData, m_nPacketLen, parsePc,
                      nLen, nUsedLen, pParseBuf, header, rest, closed>>
  BY <1>1, <1>7 DEF CopyOut, BeginRemove, prodVars, streamVars, parseVars, eventVars
<1>11. Piece' = Piece
  BY <1>10 DEF Piece
<1>12. ParserType' /\ EventInv'
  BY <1>1, <1>2, <1>3, <1>10 DEF PInv, ParserType, EventInv
<1>13. WithinStream' /\ PositionInv' /\ LoopInv' /\ TailInv' /\ TcpInv' /\ RestInv'
  BY <1>10, <1>11 DEF PInv, WithinStream, PositionInv, LoopInv, TailInv, TcpInv,
     RestInv, Total
<1>14. QED
  BY <1>9, <1>12, <1>13 DEF PInv

-----------------------------------------------------------------------------
(* The theorems                                                             *)

LEMMA ParserInitInv == ASSUME ParserInit PROVE IInv /\ PInv
<1> USE ParserConstants
<1>1. IInv
  BY InitInv DEF ParserInit
<1>2. /\ nIn = 0 /\ nUse = 0 /\ nOut = 0 /\ prodPc = "idle"
  BY DEF ParserInit, Init
<1>3. start \in Streams /\ start \in [0 .. MaxMsgs -> Nat] /\ start[0] = 0 /\ Total \in Nat
  BY StreamType DEF ParserInit, Total
<1>4. evLen \in [Msgs -> Nat]
  BY DEF ParserInit
<1>5. PInv
  BY <1>2, <1>3, <1>4 DEF ParserInit, PInv, ParserType, WithinStream, EventInv,
     PositionInv, LoopInv, TailInv, TcpInv, RestInv
<1>6. QED
  BY <1>1, <1>5

\* Every step of OnRecv, of the parser and of __ProcRecv is one that LoopBuff
\* allows, or leaves the ring alone.
LEMMA ParserStep ==
  ASSUME IInv, PInv, [ParserNext]_pvars PROVE [Next]_vars /\ IInv' /\ PInv'
<1>1. [Next]_vars /\ PInv'
  <2>1. CASE UNCHANGED pvars
    BY <2>1 DEF pvars, vars, cursors, prodVars, streamVars, parseVars, eventVars,
       PInv, ParserType, WithinStream, EventInv, PositionInv, LoopInv, TailInv,
       TcpInv, RestInv, Piece, Total
  <2>2. CASE \E n \in Lengths : TcpRecv(n) \/ UdpDatagram(n) \/ UdpFull(n)
    BY <2>2, TcpRecvStep, UdpDatagramStep, UdpFullStep
  <2>3. CASE Parse
    <3>1. closed = "no" /\ UNCHANGED <<streamVars, rest, nRun>>
      BY <2>3 DEF Parse
    <3>2. TakeBody \/ TakePart \/ TakeMessage \/ SplitHeader \/ TailOfHeader \/ WaitHeader
      BY <2>3 DEF Parse
    <3>3. QED
      BY <3>1, <3>2, TakeBodyStep, TakePartStep, TakeMessageStep, SplitHeaderStep,
         TailOfHeaderStep, WaitHeaderStep
  <2>4. CASE \/ BeginRecv \/ GetWindow \/ UdpCopy \/ UdpMore \/ UdpRest \/ Commit
             \/ BeginParse \/ FlushUsed \/ EndRecv
    BY <2>4, BeginRecvStep, GetWindowStep, UdpCopyStep, UdpMoreStep, UdpRestStep,
       CommitStep, BeginParseStep, FlushUsedStep, EndRecvStep
  <2>5. CASE MainStep
    BY <2>5, ProcRecvStep, EndPopStep DEF MainStep
  <2>6. QED
    BY <2>1, <2>2, <2>3, <2>4, <2>5 DEF ParserNext, IoStep
<1>2. QED
  BY <1>1, NextInv

LEMMA ParserInvariance == ParserSpec => [](IInv /\ PInv)
<1>1. ParserInit => IInv /\ PInv
  BY ParserInitInv
<1>2. (IInv /\ PInv) /\ [ParserNext]_pvars => (IInv /\ PInv)'
  BY ParserStep
<1>3. QED
  BY <1>1, <1>2, PTL DEF ParserSpec

\* The parser and the reader of the code use the ring as LoopBuff allows: OnRecv,
\* its parser and __ProcRecv implement LoopBuff's specification, whatever the
\* sizes of ring, header and messages.
THEOREM RingSpecCorrect == ParserSpec => RingSpec
<1>1. ParserInit => Init
  BY DEF ParserInit
<1>2. (IInv /\ PInv) /\ [ParserNext]_pvars => [Next]_vars
  BY ParserStep
<1>3. QED
  BY <1>1, <1>2, ParserInvariance, PTL DEF ParserSpec, RingSpec, Spec

\* Each NETEVT_RECV announces the next message of the stream with its own length
\* and only when all of it is there, no sequence of pieces, splits and wraps makes
\* the parser see a wrong header, and __ProcRecv takes out whole messages.
THEOREM MessagesWholeCorrect == ParserSpec => []MessagesWhole
<1>1. IInv /\ PInv => MessagesWhole
  <2> SUFFICES ASSUME IInv, PInv PROVE MessagesWhole
    OBVIOUS
  <2>1. closed # "header" /\ nRun <= nEvent /\ nEvent <= MaxMsgs
    BY ParserConstants, ParserNumbers DEF PInv, ParserType
  <2>2. start[nEvent] <= nIn
    <3>1. nUse <= nIn
      BY ParserConstants DEF IInv, ParserInv, Written, TypeOK
    <3>2. QED
      BY <3>1, ParserNumbers
  <2>3. QED
    BY <2>1, <2>2 DEF PInv, EventInv, MessagesWhole
<1>2. QED
  BY <1>1, ParserInvariance, PTL

\* When OnRecv returns without closing, TCP has left less than a header unparsed,
\* and UDP more only at the head of the ring.
THEOREM CaughtUpCorrect == ParserSpec => []CaughtUp
<1>1. IInv /\ PInv => CaughtUp
  BY DEF PInv, RestInv, CaughtUp, Unparsed, LeftAtHead
<1>2. QED
  BY <1>1, ParserInvariance, PTL
=============================================================================
