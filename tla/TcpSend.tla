------------------------------ MODULE TcpSend ------------------------------
(***************************************************************************)
(* How the bytes of one TCP connection leave the process on Linux          *)
(* (FxTCPConnectSockBase, src/Server/Net/mytcpsock.cpp): the main thread   *)
(* puts a packet into the send buffer and asks epoll for EPOLLOUT; the IO  *)
(* thread of the socket, woken by EPOLLOUT, gives the kernel what it will  *)
(* take and, when it finds the buffer empty, asks epoll for EPOLLIN only.  *)
(* A socket this process connected is told so by EPOLLOUT too: OnConnect   *)
(* announces it to the main thread and then asks for EPOLLIN only.         *)
(* Nothing but the registration with epoll wakes the IO thread, and the    *)
(* two threads change it without a lock, so its order against the changes  *)
(* of the buffer decides whether bytes are ever sent.                      *)
(*                                                                         *)
(* The buffer is a number of bytes: module LoopBuff models its cursors.    *)
(* The kernel's socket buffer and epoll (level triggered) are external.    *)
(* Of the event queue only whether it is full matters here: CloseQueue     *)
(* models it, and the waits of Close and of the IO threads for room in it. *)
(***************************************************************************)
EXTENDS Integers

CONSTANTS
  BufLen,       \* FxLoopBuff::GetTotalLen: room of the send buffer
  KernelLen,    \* SO_SNDBUF: room of the kernel's socket buffer
  MaxPacket,    \* bound: header and data of a packet Send is given
  MaxBytes,     \* bound: bytes put into the send buffer in all
  Origins       \* the states a socket begins in: accepted, connecting

ASSUME TcpSendAssumption ==
  /\ BufLen \in Nat \ {0}
  /\ KernelLen \in Nat \ {0}
  /\ MaxPacket \in Nat
  /\ MaxBytes \in Nat
  /\ Origins \subseteq {"SSTATE_CONNECT", "SSTATE_ESTABLISH"}

EPOLLIN == "EPOLLIN"
EPOLLOUT == "EPOLLOUT"
Connecting == "SSTATE_CONNECT"
Established == "SSTATE_ESTABLISH"
Closed == "SSTATE_CLOSE"

VARIABLES
  state,         \* m_nState
  interest,      \* the events the socket is registered for with epoll
  len,           \* bytes in m_poSendBuf
  m_bSending,
  kernel,        \* bytes in the kernel's socket buffer
  delayClose,    \* the socket is in m_oDelayCloseSockQueue
  main,          \* where the main thread is in Send
  packet,        \* the length of the packet Send was given
  queueFull,     \* PushNetEvent finds no room in the event queue
  io,            \* where the IO thread is in OnConnect, OnSend and PostSend
  nRet,          \* what send() took and DiscardBuff has yet to remove
  pushed,        \* history: bytes put into the send buffer
  handed,        \* history: bytes the kernel took
  crossed        \* history: Send registered EPOLLOUT after the IO thread
                 \* had found the buffer empty, or had announced the
                 \* connection, and before it asked for EPOLLIN only

mainVars == <<main, packet, queueFull, pushed>>
ioVars == <<io, nRet, m_bSending, handed>>
vars == <<state, interest, len, kernel, delayClose, crossed, mainVars, ioVars>>

MainSteps == {"idle", "PushBuff", "PostSendFree", "PushError"}
IoSteps == {"WaitEvents", "OnConnect", "PostSend", "nothing", "DiscardBuff",
            "ChangeEvent"}

\* Where the IO thread is about to ask for EPOLLIN only.
AboutToDrop == {"OnConnect", "nothing"}

Init ==
  /\ state \in Origins
  /\ interest = {EPOLLIN, EPOLLOUT}       \* AddEvent
  /\ len = 0
  /\ m_bSending = FALSE
  /\ kernel = 0
  /\ delayClose = FALSE
  /\ main = "idle" /\ packet = 0 /\ pushed = 0
  /\ queueFull = FALSE
  /\ io = "WaitEvents" /\ nRet = 0 /\ handed = 0
  /\ crossed = FALSE

IsConnected == state = Established

-----------------------------------------------------------------------------
(* The main thread                                                          *)

\* Send up to the loop: a packet the buffer can never hold is an error.
Send ==
  /\ main = "idle"
  /\ IsConnected
  /\ \E n \in 1 .. MaxPacket :
       /\ pushed + n <= MaxBytes
       /\ IF n > BufLen
            THEN main' = "PushError" /\ UNCHANGED packet
            ELSE main' = "PushBuff" /\ packet' = n
  /\ UNCHANGED <<state, interest, len, kernel, delayClose, crossed,
                 queueFull, pushed, ioVars>>

\* A slip: the packet is put in whether it fits or not.
PushBuff_NoCheck ==
  /\ main = "PushBuff"
  /\ len' = len + packet
  /\ pushed' = pushed + packet
  /\ main' = "PostSendFree"
  /\ UNCHANGED <<state, interest, kernel, delayClose, crossed,
                 packet, queueFull, ioVars>>

\* One round of Send's loop that finds room.
PushBuff ==
  /\ main = "PushBuff"
  /\ len + packet <= BufLen
  /\ len' = len + packet
  /\ pushed' = pushed + packet
  /\ main' = "PostSendFree"
  /\ UNCHANGED <<state, interest, kernel, delayClose, crossed,
                 packet, queueFull, ioVars>>

\* A slip: Send tries again until there is room.
NoRoom_Waits ==
  /\ main = "PushBuff"
  /\ len + packet > BufLen
  /\ UNCHANGED vars

\* PushBuff finds no room and Send gives the packet up: m_bSendLinger, which
\* would make it wait, is never set.
NoRoom ==
  /\ main = "PushBuff"
  /\ len + packet > BufLen
  /\ main' = "idle"
  /\ UNCHANGED <<state, interest, len, kernel, delayClose, crossed,
                 packet, queueFull, pushed, ioVars>>

\* PostSendFree while the socket is open: ChangeEvent(EPOLLOUT | EPOLLIN).
PostSendFree ==
  /\ main = "PostSendFree"
  /\ IsConnected
  /\ interest' = {EPOLLIN, EPOLLOUT}
  /\ main' = "idle"
  /\ crossed' = (io \in AboutToDrop)
  /\ UNCHANGED <<state, len, kernel, delayClose,
                 packet, queueFull, pushed, ioVars>>

\* PostSendFree of a socket closed meanwhile fails.
PostSendFreeClosed ==
  /\ main = "PostSendFree"
  /\ ~IsConnected
  /\ main' = "PushError"
  /\ UNCHANGED <<state, interest, len, kernel, delayClose, crossed,
                 packet, queueFull, pushed, ioVars>>

\* Send pushes ERROR, as soon as the event queue has room, and asks for a
\* close.
PushError ==
  /\ main = "PushError"
  /\ ~queueFull
  /\ queueFull' \in BOOLEAN
  /\ delayClose' = TRUE
  /\ main' = "idle"
  /\ UNCHANGED <<state, interest, len, kernel, crossed, packet, pushed, ioVars>>

\* The IO threads, this socket's among them, push events.
OthersPush ==
  /\ ~queueFull
  /\ queueFull' = TRUE
  /\ UNCHANGED <<state, interest, len, kernel, delayClose, crossed,
                 main, packet, pushed, ioVars>>

\* Only the main loop takes events out, never while it is inside Send.
RunEvents ==
  /\ main = "idle"
  /\ queueFull
  /\ queueFull' = FALSE
  /\ UNCHANGED <<state, interest, len, kernel, delayClose, crossed,
                 main, packet, pushed, ioVars>>

\* Close of an open descriptor, which DelEvents the socket: it leaves epoll.
\* A socket still connecting keeps its state.
Close ==
  /\ state' = IF IsConnected THEN Closed ELSE state
  /\ interest' = {}

\* FxConnection::Reconnect closes the socket from the main thread.
Reconnect ==
  /\ main = "idle"
  /\ interest # {}
  /\ Close
  /\ UNCHANGED <<len, kernel, delayClose, crossed, mainVars, ioVars>>

-----------------------------------------------------------------------------
(* The IO thread                                                            *)

\* __DealData drains m_oDelayCloseSockQueue before it waits.
DrainDelayClose ==
  /\ io = "WaitEvents"
  /\ delayClose
  /\ delayClose' = FALSE
  /\ IF IsConnected THEN Close ELSE UNCHANGED <<state, interest>>
  /\ UNCHANGED <<len, kernel, crossed, mainVars, ioVars>>

\* OnParserIoEvent with EPOLLOUT on a connecting socket, and OnConnect up to
\* its push of ESTABLISH: from here on the session may Send.
OnConnect ==
  /\ io = "WaitEvents"
  /\ state = Connecting
  /\ EPOLLOUT \in interest
  /\ state' = Established
  /\ io' = "OnConnect"
  /\ UNCHANGED <<interest, len, kernel, delayClose, crossed, mainVars,
                 nRet, m_bSending, handed>>

\* OnConnect finds SO_ERROR set.
OnConnectFails ==
  /\ io = "OnConnect"
  /\ io' = "WaitEvents"
  /\ IF IsConnected THEN Close ELSE UNCHANGED <<state, interest>>
  /\ UNCHANGED <<len, kernel, delayClose, crossed, mainVars, nRet,
                 m_bSending, handed>>

\* OnParserIoEvent with EPOLLOUT, and OnSend up to its call of PostSend.
OnSend ==
  /\ io = "WaitEvents"
  /\ IsConnected
  /\ EPOLLOUT \in interest
  /\ kernel < KernelLen
  /\ m_bSending' = FALSE
  /\ io' = "PostSend"
  /\ UNCHANGED <<state, interest, len, kernel, delayClose, crossed,
                 mainVars, nRet, handed>>

\* The peer or the network ends the connection: OnRecv gets 0 or an error,
\* or epoll reports EPOLLERR, or no EPOLLOUT of a connecting socket.
OnRecvCloses ==
  /\ io = "WaitEvents"
  /\ interest # {}
  /\ Close
  /\ UNCHANGED <<len, kernel, delayClose, crossed, mainVars, ioVars>>

\* PostSend's early returns: closed meanwhile (OnSend then calls Close, which
\* does nothing), or a send is under way.
PostSendReturns ==
  /\ io = "PostSend"
  /\ ~IsConnected \/ m_bSending
  /\ io' = "WaitEvents"
  /\ UNCHANGED <<state, interest, len, kernel, delayClose, crossed,
                 mainVars, nRet, m_bSending, handed>>

\* GetOutCursorPtr returns nothing.
FindsNothing ==
  /\ io = "PostSend"
  /\ IsConnected /\ ~m_bSending
  /\ len = 0
  /\ io' = "nothing"
  /\ UNCHANGED <<state, interest, len, kernel, delayClose, crossed,
                 mainVars, nRet, m_bSending, handed>>

\* send() takes some of what GetOutCursorPtr shows.
SendSome ==
  /\ io = "PostSend"
  /\ IsConnected /\ ~m_bSending
  /\ \E k \in 1 .. len :
       /\ kernel + k <= KernelLen
       /\ kernel' = kernel + k
       /\ handed' = handed + k
       /\ nRet' = k
  /\ m_bSending' = TRUE
  /\ io' = "DiscardBuff"
  /\ UNCHANGED <<state, interest, len, delayClose, crossed, mainVars>>

\* send() fails with EAGAIN: nothing is taken, EPOLLOUT is asked for again.
SendAgain ==
  /\ io = "PostSend"
  /\ IsConnected /\ ~m_bSending
  /\ len > 0
  /\ m_bSending' = TRUE
  /\ io' = "ChangeEvent"
  /\ UNCHANGED <<state, interest, len, kernel, delayClose, crossed,
                 mainVars, nRet, handed>>

\* send() fails otherwise, and OnSend closes the socket.
SendFails ==
  /\ io = "PostSend"
  /\ IsConnected /\ ~m_bSending
  /\ len > 0
  /\ m_bSending' = FALSE
  /\ io' = "WaitEvents"
  /\ Close
  /\ UNCHANGED <<len, kernel, delayClose, crossed, mainVars, nRet, handed>>

\* A slip: everything in the buffer is discarded.
DiscardBuff_All ==
  /\ io = "DiscardBuff"
  /\ len' = 0
  /\ nRet' = 0
  /\ io' = "ChangeEvent"
  /\ UNCHANGED <<state, interest, kernel, delayClose, crossed, mainVars,
                 m_bSending, handed>>

\* What send() took leaves the buffer.
DiscardBuff ==
  /\ io = "DiscardBuff"
  /\ len' = len - nRet
  /\ nRet' = 0
  /\ io' = "ChangeEvent"
  /\ UNCHANGED <<state, interest, kernel, delayClose, crossed, mainVars,
                 m_bSending, handed>>

\* A slip: the registration is left as it was.
Register_Keeps(events) ==
  /\ io' = "WaitEvents"
  /\ IF IsConnected
       THEN UNCHANGED <<interest, m_bSending>>
       ELSE m_bSending' = FALSE /\ UNCHANGED interest

\* The registration PostSend leaves behind.  It fails when the main thread
\* has closed the socket: PostSend then gives up and Close does nothing.
Register(events) ==
  /\ io' = "WaitEvents"
  /\ IF IsConnected
       THEN interest' = events /\ UNCHANGED m_bSending
       ELSE m_bSending' = FALSE /\ UNCHANGED interest

\* A slip: EPOLLIN only.
ChangeEventOut_InOnly ==
  /\ io = "ChangeEvent"
  /\ Register({EPOLLIN})
  /\ crossed' = FALSE
  /\ UNCHANGED <<state, len, kernel, delayClose, mainVars, nRet, handed>>

\* After a send, and after EAGAIN: EPOLLOUT | EPOLLIN.
ChangeEventOut ==
  /\ io = "ChangeEvent"
  /\ Register({EPOLLIN, EPOLLOUT})
  /\ crossed' = FALSE
  /\ UNCHANGED <<state, len, kernel, delayClose, mainVars, nRet, handed>>

\* After the buffer was found empty, and at the end of OnConnect: EPOLLIN
\* only.
ChangeEventIn ==
  /\ io \in AboutToDrop
  /\ Register({EPOLLIN})
  /\ UNCHANGED <<state, len, kernel, delayClose, crossed, mainVars,
                 nRet, handed>>

\* The peer reads, and the kernel has room again.  (external)
PeerReads ==
  /\ kernel > 0
  /\ kernel' = kernel - 1
  /\ UNCHANGED <<state, interest, len, delayClose, crossed, mainVars, ioVars>>

MainStep ==
  PushBuff \/ NoRoom \/ PostSendFree \/ PostSendFreeClosed \/ PushError

IoStep ==
  \/ OnConnect \/ OnConnectFails
  \/ OnSend \/ PostSendReturns \/ FindsNothing \/ SendSome \/ SendAgain
  \/ SendFails \/ DiscardBuff \/ ChangeEventOut \/ ChangeEventIn

Next ==
  \/ Send \/ MainStep \/ Reconnect \/ OthersPush \/ RunEvents
  \/ DrainDelayClose \/ OnRecvCloses \/ IoStep
  \/ PeerReads

Spec == Init /\ [][Next]_vars

\* Both threads run, the kernel ends a connect() one way or the other, the
\* peer reads, and a kernel with room does not answer EAGAIN for ever.
Fairness ==
  /\ WF_vars(MainStep)
  /\ WF_vars(IoStep) /\ SF_vars(SendSome)
  /\ WF_vars(DrainDelayClose)
  /\ WF_vars(PeerReads)

FairSpec == Spec /\ Fairness

-----------------------------------------------------------------------------
(* Properties                                                               *)

\* Every variable keeps its type, and both buffers their bounds.
TypeOK ==
  /\ state \in {Connecting, Established, Closed}
  /\ interest \in SUBSET {EPOLLIN, EPOLLOUT}
  /\ len \in 0 .. BufLen
  /\ m_bSending \in BOOLEAN
  /\ kernel \in 0 .. KernelLen
  /\ delayClose \in BOOLEAN
  /\ main \in MainSteps
  /\ packet \in 0 .. BufLen
  /\ queueFull \in BOOLEAN
  /\ io \in IoSteps
  /\ nRet \in Nat
  /\ pushed \in Nat
  /\ handed \in Nat
  /\ crossed \in BOOLEAN

\* What Send puts into the buffer is in the buffer or with the kernel: the
\* IO thread discards (DiscardBuff) exactly what send() took, although the
\* main thread goes on filling the buffer in between.
NothingLost == pushed = handed + len - nRet

\* A socket with bytes to send is registered for EPOLLOUT whenever neither
\* thread is about to register it, unless Send's registration crossed one of
\* the two places at which the IO thread decides to drop EPOLLOUT and then
\* does: PostSend's branch that found no bytes, and OnConnect after its push
\* of ESTABLISH.
Registered ==
  (IsConnected /\ len > 0 /\ main = "idle" /\ io = "WaitEvents")
    => (EPOLLOUT \in interest \/ crossed)

\* Every byte Send accepted reaches the kernel, unless the socket is closed
\* or Send's registration crossed one of the IO thread's two that drop it.
SentUnlessCrossed ==
  \A k \in 1 .. MaxBytes :
    pushed >= k ~> (handed >= k \/ ~IsConnected \/ crossed)

\* PostSend says of the bytes it does not find "next time can continue": so
\* every byte Send accepted should reach the kernel while the socket is open.
Sent ==
  \A k \in 1 .. MaxBytes : pushed >= k ~> (handed >= k \/ ~IsConnected)

\* The IO thread does not spin: a socket with nothing to send does not keep
\* waking it with EPOLLOUT ("EPOLLIN must be set here, otherwise the OUT
\* event stays set and the CPU is high").
NoSpin == []<>(len > 0 \/ EPOLLOUT \notin interest)

\* Send returns, whatever the peer and the IO thread do, unless it is left
\* pushing ERROR (a packet too long, a socket closed between PushBuff and
\* PostSendFree) into an event queue that is full and that only the main
\* thread, which is in Send, could empty.
SendReturns ==
  main # "idle" ~> (main = "idle" \/ (main = "PushError" /\ queueFull))
=============================================================================
