----------------------------- MODULE RecvParser -----------------------------
(***************************************************************************)
(* From bytes to messages: OnRecv of FxTCPConnectSockBase and of           *)
(* FxUDPConnectSock (src/Server/Net/mytcpsock.cpp, myudpsock.cpp) with the *)
(* parser both contain, over the receive ring of module LoopBuff, and      *)
(* __ProcRecv, which takes each message out on the main thread.            *)
(*                                                                         *)
(* LoopBuff lets an arbitrary parser and an arbitrary reader use the ring; *)
(* here they are the ones of the code, and the specification is shown to   *)
(* implement LoopBuff's.  A byte is still its position in the stream, so a *)
(* header is the HeaderLen bytes that begin at the start of a message, and *)
(* the magic number in it tells any other bytes from a header.  TCP writes *)
(* one contiguous window per OnRecv; UDP writes whole datagrams, which may *)
(* go round the end of the ring, and possibly several before it parses.    *)
(***************************************************************************)
EXTENDS LoopBuff

CONSTANTS
  HeaderLen,   \* GetHeaderLength()
  MaxMsgs,     \* bound: messages in the stream
  MaxPacket    \* the longest message, at most what a send buffer holds

ASSUME ParserAssumption ==
  /\ Role = "recv"
  /\ HeaderLen \in Nat \ {0}
  /\ MaxMsgs \in Nat
  /\ MaxPacket \in Nat /\ HeaderLen <= MaxPacket /\ MaxPacket <= TotalLen
  /\ MaxMsgs * MaxPacket <= MaxBytes

VARIABLES
  udp,           \* which of the two OnRecv this is
  start,         \* start[k]: where message k + 1 begins in the stream
  m_nNeedData,   \* bytes the message being received still lacks
  m_nPacketLen,  \* its length
  parsePc,       \* where the parser stands: "none", "loop" or "tail"
  nLen,          \* bytes of the piece GetUsedCursorPtr showed, not yet parsed
  nUsedLen,      \* bytes parsed and not yet passed to CostUsedBuff
  pParseBuf,     \* the cell the parser looks at
  header,        \* the beginning of a split header that BuildRecvPkgHeader kept
  rest,          \* UDP: bytes of the datagram that go to the head of the ring
  evLen,         \* history: the dwValue of every NETEVT_RECV pushed
  nEvent, nRun,  \* NETEVT_RECV events pushed, and run
  closed         \* why OnRecv closed the socket, or "no"

streamVars == <<udp, start>>
parseVars == <<m_nNeedData, m_nPacketLen, parsePc, nLen, nUsedLen, pParseBuf,
               header>>
eventVars == <<evLen, nEvent>>
pvars == <<vars, streamVars, parseVars, rest, eventVars, nRun, closed>>

Msgs == 1 .. MaxMsgs
Total == start[MaxMsgs]

\* Every stream of MaxMsgs messages.
Streams ==
  {s \in [0 .. MaxMsgs -> 0 .. MaxMsgs * MaxPacket] :
     /\ s[0] = 0
     /\ \A k \in Msgs : s[k] - s[k - 1] \in HeaderLen .. MaxPacket}

ParserInit ==
  /\ Init
  /\ udp \in BOOLEAN
  /\ start \in Streams
  /\ m_nNeedData = 0 /\ m_nPacketLen = 0
  /\ parsePc = "none"
  /\ nLen = 0 /\ nUsedLen = 0 /\ pParseBuf = 0 /\ header = 0
  /\ rest = 0
  /\ evLen = [k \in Msgs |-> 0]
  /\ nEvent = 0 /\ nRun = 0
  /\ closed = "no"

-----------------------------------------------------------------------------
(* OnRecv up to the parser                                                  *)

\* A slip that would wait for the main thread to take everything out first; no
\* part of the model.
BeginRecv_WhenEmpty ==
  /\ closed = "no" /\ nIn < Total
  /\ (Empty /\ IsEmpty) \/ Clear
  /\ UNCHANGED <<streamVars, parseVars, rest, eventVars, nRun, closed>>

\* EPOLLIN: there are bytes to read.
BeginRecv ==
  /\ closed = "no" /\ nIn < Total
  /\ IsEmpty \/ Clear
  /\ UNCHANGED <<streamVars, parseVars, rest, eventVars, nRun, closed>>

\* The ring has no room for the rest of a datagram, and OnRecv closes.
Overflows == udp /\ (m_nFreeLen = 0 \/ InCursorLen < rest)

GetWindow ==
  /\ closed = "no"
  /\ udp /\ rest = 0 => m_nFreeLen > 0
  /\ GetInCursorPtr
  /\ closed' = IF Overflows THEN "overflow" ELSE closed
  /\ UNCHANGED <<streamVars, parseVars, rest, eventVars, nRun>>

\* TCP: recv() into the window, then CostBuff.
TcpRecv(n) ==
  /\ ~udp /\ closed = "no"
  /\ nIn + n <= Total
  /\ RecvIntoWindow(n)
  /\ UNCHANGED <<streamVars, parseVars, rest, eventVars, nRun, closed>>

\* UDP: the next datagram in sequence carries n bytes; what the window cannot
\* take is left for the head of the ring.
UdpDatagram(n) ==
  /\ udp /\ closed = "no" /\ rest = 0
  /\ nIn + n <= Total
  /\ \/ n <= prodLen /\ CommitThenCopy(n) /\ UNCHANGED rest
     \/ n > prodLen /\ CommitThenCopy(prodLen) /\ rest' = n - prodLen
  /\ UNCHANGED <<streamVars, parseVars, eventVars, nRun, closed>>

\* UDP finds the ring full: all of the datagram is left for a second call of
\* GetInCursorPtr, which finds room if the main thread made some in between.
UdpFull(n) ==
  /\ udp /\ closed = "no" /\ rest = 0
  /\ prodPc = "ready" /\ LockFree /\ m_nFreeLen = 0
  /\ nIn + n <= Total
  /\ rest' = n
  /\ UNCHANGED <<vars, streamVars, parseVars, eventVars, nRun, closed>>

UdpCopy ==
  /\ CopyIntoWindow
  /\ UNCHANGED <<streamVars, parseVars, rest, eventVars, nRun, closed>>

\* Back to GetInCursorPtr: for the rest, or for another datagram.
UdpMore ==
  /\ udp /\ parsePc = "none"
  /\ rest > 0 \/ nIn < Total
  /\ NextPiece
  /\ UNCHANGED <<streamVars, parseVars, rest, eventVars, nRun, closed>>

\* The rest is copied first and committed after it.
UdpRest ==
  /\ udp /\ closed = "no" /\ rest > 0
  /\ RecvIntoWindow(rest)
  /\ rest' = 0
  /\ UNCHANGED <<streamVars, parseVars, eventVars, nRun, closed>>

Commit ==
  /\ CommitRecv
  /\ UNCHANGED <<streamVars, parseVars, rest, eventVars, nRun, closed>>

-----------------------------------------------------------------------------
(* The parser                                                               *)

\* The n cells from c hold the stream from position p on.
Holds(c, n, p) == \A i \in 0 .. n - 1 : m_pszBuff[c + i] = p + i

\* Slips that the properties notice: a length without the header's own, and a
\* test that is off by one.
CheckPkgHeader_BodyOnly(p) ==
  IF \E k \in Msgs : start[k - 1] = p
    THEN LET k == CHOOSE k \in Msgs : start[k - 1] = p
         IN  start[k] - start[k - 1] - 1
    ELSE -1

HeaderThere_Strict == HeaderLen < UseLen

\* What the header whose first byte is p says, with itself; -1 is no header.
CheckPkgHeader(p) ==
  IF \E k \in Msgs : start[k - 1] = p
    THEN LET k == CHOOSE k \in Msgs : start[k - 1] = p
         IN  start[k] - start[k - 1]
    ELSE -1

\* ParsePacket of a header that lies in one piece at cell c.
ParsePacket(c) == IF Holds(c, HeaderLen, m_pszBuff[c])
                    THEN CheckPkgHeader(m_pszBuff[c]) ELSE -1

\* ParsePacket of one whose first n bytes were kept and whose others lie at c.
ParseSplit(n, c) == IF Holds(c, HeaderLen - n, header + n)
                      THEN CheckPkgHeader(header) ELSE -1

\* A header is there, if not in one piece.
HeaderThere == HeaderLen <= UseLen

\* PushNetEvent(NETEVT_RECV, len).
PushRecv(len) ==
  /\ nEvent' = nEvent + 1
  /\ evLen' = [evLen EXCEPT ![nEvent + 1] = len]

\* The parser is at the head of its loop with something to parse.
Parsing == prodPc = "parse" /\ parsePc = "loop" /\ nLen > 0

\* What OnRecv takes for a broken stream.
HeaderError ==
  /\ closed' = "header"
  /\ UNCHANGED <<vars, parseVars, eventVars>>

\* GetUsedCursorPtr.  Nothing to show is an error (TCP).
BeginParse ==
  /\ prodPc = "parse" /\ parsePc = "none" /\ closed = "no"
  /\ rest = 0
  /\ LockFree
  /\ parsePc' = "loop"
  /\ nLen' = UsedCursorLen /\ pParseBuf' = m_nUseCursor
  /\ nUsedLen' = 0
  /\ closed' = IF UsedCursorLen <= 0 /\ ~udp THEN "header" ELSE closed
  /\ UNCHANGED <<vars, streamVars, m_nNeedData, m_nPacketLen, header, rest,
                 eventVars, nRun>>

\* A slip: the event is pushed first and the bytes accepted after the loop.
TakeBody_EventFirst ==
  /\ Parsing /\ m_nNeedData # 0
  /\ nLen >= m_nNeedData
  /\ PushRecv(m_nPacketLen)
  /\ nLen' = nLen - m_nNeedData
  /\ pParseBuf' = pParseBuf + m_nNeedData
  /\ nUsedLen' = nUsedLen + m_nNeedData
  /\ m_nPacketLen' = 0 /\ m_nNeedData' = 0
  /\ UNCHANGED <<vars, parsePc, header, closed>>

\* The piece holds the rest of the message.
TakeBody ==
  /\ Parsing /\ m_nNeedData # 0
  /\ nLen >= m_nNeedData
  /\ UseBuff(nUsedLen + m_nNeedData)
  /\ PushRecv(m_nPacketLen)
  /\ nLen' = nLen - m_nNeedData
  /\ pParseBuf' = pParseBuf + m_nNeedData
  /\ nUsedLen' = 0
  /\ m_nPacketLen' = 0 /\ m_nNeedData' = 0
  /\ UNCHANGED <<parsePc, header, closed>>

\* Only a part of it.
TakePart ==
  /\ Parsing /\ m_nNeedData # 0
  /\ nLen < m_nNeedData
  /\ m_nNeedData' = m_nNeedData - nLen
  /\ nUsedLen' = nUsedLen + nLen
  /\ nLen' = 0
  /\ UNCHANGED <<vars, m_nPacketLen, parsePc, pParseBuf, header, eventVars,
                 closed>>

\* A header in one piece, and the whole of its message with it or not.
TakeMessage ==
  /\ Parsing /\ m_nNeedData = 0
  /\ nLen >= HeaderLen
  /\ LET len == ParsePacket(pParseBuf)
     IN  \/ len = -1 /\ HeaderError
         \/ /\ len # -1 /\ nLen >= len
            /\ UseBuff(nUsedLen + len)
            /\ PushRecv(len)
            /\ nLen' = nLen - len
            /\ pParseBuf' = pParseBuf + nUsedLen + len
            /\ nUsedLen' = 0
            /\ m_nPacketLen' = 0 /\ m_nNeedData' = 0
            /\ UNCHANGED <<parsePc, header, closed>>
         \/ /\ len # -1 /\ nLen < len
            /\ m_nPacketLen' = len
            /\ m_nNeedData' = len - nLen
            /\ nUsedLen' = nUsedLen + nLen
            /\ nLen' = 0
            /\ UNCHANGED <<vars, parsePc, pParseBuf, header, eventVars, closed>>

\* A header that goes round the end of the ring: its first nLen bytes are kept
\* and passed to CostUsedBuff.  (nUsedLen is 0 whenever m_nNeedData is.)
SplitHeader ==
  /\ Parsing /\ m_nNeedData = 0
  /\ nLen < HeaderLen /\ HeaderThere
  /\ header' = IF Holds(pParseBuf, nLen, m_pszBuff[pParseBuf])
                 THEN m_pszBuff[pParseBuf] ELSE -1
  /\ UseBuff(nLen)
  /\ parsePc' = "tail"
  /\ UNCHANGED <<m_nNeedData, m_nPacketLen, nLen, nUsedLen, pParseBuf,
                 eventVars, closed>>

\* The other bytes of the header, from the head of the ring.
TailOfHeader ==
  /\ prodPc = "parse" /\ parsePc = "tail"
  /\ LockFree
  /\ LET more == HeaderLen - nLen
         len == ParseSplit(nLen, m_nUseCursor)
     IN  \/ (more > UsedCursorLen \/ len <= 0) /\ HeaderError
         \/ /\ more <= UsedCursorLen /\ len > 0
            /\ parsePc' = "loop"
            /\ m_nNeedData' = len - HeaderLen
            /\ nLen' = UsedCursorLen - more
            /\ pParseBuf' = m_nUseCursor + more
            /\ \/ /\ len = HeaderLen
                  /\ UseBuff(more)
                  /\ PushRecv(len)
                  /\ nUsedLen' = 0 /\ m_nPacketLen' = 0
               \/ /\ len # HeaderLen
                  /\ nUsedLen' = more /\ m_nPacketLen' = len
                  /\ UNCHANGED <<vars, eventVars>>
            /\ UNCHANGED <<header, closed>>

\* The header is not all there yet.
WaitHeader ==
  /\ Parsing /\ m_nNeedData = 0
  /\ nLen < HeaderLen /\ ~HeaderThere
  /\ LockFree
  /\ nLen' = 0
  /\ UNCHANGED <<vars, m_nNeedData, m_nPacketLen, parsePc, nUsedLen,
                 pParseBuf, header, eventVars, closed>>

Parse ==
  /\ closed = "no"
  /\ TakeBody \/ TakePart \/ TakeMessage \/ SplitHeader \/ TailOfHeader
       \/ WaitHeader
  /\ UNCHANGED <<streamVars, rest, nRun>>

\* After the loop: what was parsed of an unfinished message, and the return.
FlushUsed ==
  /\ prodPc = "parse" /\ parsePc = "loop" /\ closed = "no"
  /\ nLen = 0 /\ nUsedLen # 0
  /\ UseBuff(nUsedLen)
  /\ nUsedLen' = 0
  /\ UNCHANGED <<streamVars, m_nNeedData, m_nPacketLen, parsePc, nLen,
                 pParseBuf, header, rest, eventVars, nRun, closed>>

EndRecv ==
  /\ parsePc = "loop" /\ closed = "no"
  /\ nLen = 0 /\ nUsedLen = 0
  /\ EndParse
  /\ parsePc' = "none"
  /\ UNCHANGED <<streamVars, m_nNeedData, m_nPacketLen, nLen, nUsedLen,
                 pParseBuf, header, rest, eventVars, nRun, closed>>

-----------------------------------------------------------------------------
(* The main thread                                                          *)

\* __ProcRecv: PopBuff of the length the event carries.
ProcRecv ==
  /\ consPc = "idle"
  /\ nRun < nEvent
  /\ CopyOut(evLen[nRun + 1])
  /\ nRun' = nRun + 1
  /\ UNCHANGED <<streamVars, parseVars, rest, eventVars, closed>>

EndPop ==
  /\ EndRemove
  /\ UNCHANGED <<streamVars, parseVars, rest, eventVars, nRun, closed>>

-----------------------------------------------------------------------------
IoStep ==
  \/ BeginRecv \/ GetWindow
  \/ \E n \in Lengths : TcpRecv(n) \/ UdpDatagram(n) \/ UdpFull(n)
  \/ UdpCopy \/ UdpMore \/ UdpRest \/ Commit
  \/ BeginParse \/ Parse \/ FlushUsed \/ EndRecv

MainStep == ProcRecv \/ EndPop

ParserNext == IoStep \/ MainStep

ParserSpec == ParserInit /\ [][ParserNext]_pvars

\* The peer sends what it has, EPOLLIN is level triggered, so that the IO thread
\* comes back as long as there is something to read, and Run runs every event.
ParserFairSpec == ParserSpec /\ WF_pvars(IoStep) /\ WF_pvars(MainStep)

-----------------------------------------------------------------------------
(* Properties.                                                             *)

\* The parser and the reader of the code use the ring as LoopBuff allows: they
\* never accept bytes that GetUsedCursorPtr did not show and never pop bytes the
\* parser has not accepted, so that everything LoopBuff promises holds here.
RingSpec == Spec

\* The events announce the messages of the stream one by one with their own
\* lengths, each only when all of it has been received, and no sequence of
\* pieces, splits and wraps makes the parser see a wrong header in a well-formed
\* stream.
MessagesWhole ==
  /\ closed # "header"
  /\ nRun <= nEvent /\ nEvent <= MaxMsgs
  /\ \A k \in 1 .. nEvent : evLen[k] = start[k] - start[k - 1]
  /\ start[nEvent] <= nIn
  /\ nOut = start[nRun]

\* Bytes received that the parser has not accepted.
Unparsed == nIn - nUse

\* UDP stopped at the end of the ring with bytes at its head: the loop goes on
\* to the head only when a header goes round the end.
LeftAtHead == udp /\ m_nUseCursor = 0 /\ prodPc = "idle"

\* When OnRecv returns without closing, the parser has gone through everything
\* received but for the beginning of a header; only UDP can leave more, at the
\* head of the ring.
CaughtUp ==
  prodPc = "idle" /\ closed = "no" => Unparsed < HeaderLen \/ LeftAtHead

\* Over TCP every message of the stream is run, whatever pieces it arrives in,
\* although the ring fills up and empties; over UDP each message that has been
\* received is, unless OnRecv closed the socket or left it at the head of the
\* ring with nothing after it.
EveryMessageRun ==
  /\ ~udp => <>(nRun = MaxMsgs)
  /\ \A k \in Msgs :
       (nIn >= start[k])
         ~> (nRun >= k \/ closed # "no" \/ (LeftAtHead /\ nIn = Total))
=============================================================================
