--------------------------- MODULE SockLifecycle ---------------------------
(***************************************************************************)
(* The life of a TCP connection on Linux, from accept() or connect() to    *)
(* the return of its socket object to the pool: FxTCPListenSock::OnAccept, *)
(* FxTCPConnectSock (src/Server/Net/mytcpsock.cpp), FxConnection           *)
(* (connection.cpp), FxMySockMgr (sockmgr.cpp) and the loop of FxIoThread  *)
(* (iothread.cpp).  Three threads take part: the main thread, which runs   *)
(* the events and the application; the IO thread of the listening socket;  *)
(* and the IO thread of the connections.  A socket object is reused for    *)
(* one connection after the other, and the event queue, the delayed-close  *)
(* queue and epoll refer to it by its address.                             *)
(*                                                                         *)
(* A link is one FxConnection with its session; it is never reused here,   *)
(* while socket objects are.  The event queue is a sequence: module        *)
(* EventQueue models the ring behind it.  Data is left out: module         *)
(* TcpSend and module LoopBuff model it.                                   *)
(***************************************************************************)
EXTENDS Integers, Sequences, FiniteSets

CONSTANTS
  Sock,          \* the objects of m_oTCPSockPool
  NoSock,        \* NULL for a socket pointer
  MaxLinks,      \* bound: connections accepted or started
  MaxFds,        \* bound: descriptors opened
  MaxRecv,       \* bound: messages received per connection
  MaxQueue,      \* bound: events pending when the IO thread looks for more
  Reconnects,    \* the connections that have m_bReconnect
  Failures       \* which system calls may fail: "socket", "connect", "add";
                 \* "recv": a message may be too long for its session

ASSUME LifecycleAssumption ==
  /\ IsFiniteSet(Sock) /\ NoSock \notin Sock
  /\ MaxLinks \in Nat /\ MaxFds \in Nat /\ MaxRecv \in Nat
  /\ MaxQueue \in Nat
  /\ Reconnects \subseteq 1 .. MaxLinks
  /\ Failures \subseteq {"socket", "connect", "add", "recv"}

Link == 1 .. MaxLinks
NoLink == 0          \* NULL for a connection pointer
INVALID_SOCKET == 0
Fd == 1 .. MaxFds

SockStates == {"INVALID", "CONNECT", "ESTABLISH", "CLOSE"}
ConnStats == {"NONE", "CONN", "OK", "ASSOCIATE", "CLOSING"}
EventTypes == {"ESTABLISH", "ASSOCIATE", "RECV", "CONN_ERR", "ERROR",
               "TERMINATE", "RELEASE"}
Calls == {"OnConnect", "OnRecv", "OnError", "OnClose", "Release"}
Threads == {"main", "accept"}

VARIABLES
  free,          \* m_ListFree of the pool: objects with m_byRef = 0
  conn,          \* m_poConnection of each socket object
  state,         \* m_nState
  hSock,         \* m_hSock
  open,          \* descriptors open in the process
  epoll,         \* the descriptors registered, each with its socket object
  m_nConnStat,   \* of each connection
  m_poSock,      \* of each connection
  told,          \* history: the calls each session has received
  queue,         \* events pushed and not yet run
  delayed,       \* m_oDelayCloseSockQueue
  ready,         \* epoll_wait's answer, the part not yet handled
  connecting,    \* the socket the IO thread is in OnConnect of
  at,            \* where main is in Connect, and accept in OnAccept
  arg,           \* the socket, connection and descriptor they work on
  nLink, nFd,    \* how many have been made
  nRecv,         \* messages received per connection
  early,         \* history: links with an event pushed by the IO thread
                 \* before their ESTABLISH event could be run
  reused         \* history: socket objects that Connect opened again, or
                 \* OnAccept gave back, with their TERMINATE pending

sockVars == <<free, conn, state, hSock, open, epoll>>
connVars == <<m_nConnStat, m_poSock, told>>
ioVars == <<ready, connecting>>
threadVars == <<at, arg>>
counters == <<nLink, nFd, nRecv>>
vars == <<sockVars, connVars, queue, delayed, ioVars, threadVars, counters,
          early, reused>>

Init ==
  /\ free = Sock
  /\ conn = [s \in Sock |-> NoLink]
  /\ state = [s \in Sock |-> "INVALID"]
  /\ hSock = [s \in Sock |-> INVALID_SOCKET]
  /\ open = {} /\ epoll = {}
  /\ m_nConnStat = [l \in Link |-> "NONE"]
  /\ m_poSock = [l \in Link |-> NoSock]
  /\ told = [l \in Link |-> <<>>]
  /\ queue = <<>> /\ delayed = <<>>
  /\ ready = {} /\ connecting = NoSock
  /\ at = [t \in Threads |-> "idle"]
  /\ arg = [t \in Threads |-> [sock |-> NoSock, link |-> NoLink,
                             fd |-> INVALID_SOCKET]]
  /\ nLink = 0 /\ nFd = 0 /\ nRecv = [l \in Link |-> 0]
  /\ early = {} /\ reused = {}

-----------------------------------------------------------------------------
(* Events and the socket's Close                                            *)

\* An event for socket s; its link is a history field: the connection the
\* thread that pushes it is working for.
Event(s, type, l) == [poSock |-> s, eType |-> type, link |-> l]

IsConnected(s) == state[s] = "ESTABLISH"

\* Variants of CloseIsDone with one test missing, and with one too many.
CloseIsDone_StateOnly(s) == state[s] = "CLOSE"
CloseIsDone_Connecting(s) ==
  state[s] \in {"CLOSE", "CONNECT"} \/ hSock[s] = INVALID_SOCKET

\* Close has nothing to do.
CloseIsDone(s) == state[s] = "CLOSE" \/ hSock[s] = INVALID_SOCKET

\* A variant of Close that forgets close().
Close_KeepsDescriptor(s, q, evs) ==
  /\ state' = IF IsConnected(s) THEN [state EXCEPT ![s] = "CLOSE"] ELSE state
  /\ IF CloseIsDone(s)
       THEN queue' = q \o evs /\ UNCHANGED <<hSock, open, epoll>>
       ELSE /\ queue' = q \o evs \o <<Event(s, "TERMINATE", conn[s])>>
            /\ hSock' = [hSock EXCEPT ![s] = INVALID_SOCKET]
            /\ epoll' = {r \in epoll : r.fd # hSock[s]}
            /\ UNCHANGED open

\* FxTCPConnectSockBase::Close, after the events evs of the same handler, with
\* the events q pending: the descriptor leaves epoll and is closed, and
\* TERMINATE is pushed.
Close(s, q, evs) ==
  /\ state' = IF IsConnected(s) THEN [state EXCEPT ![s] = "CLOSE"] ELSE state
  /\ IF CloseIsDone(s)
       THEN queue' = q \o evs /\ UNCHANGED <<hSock, open, epoll>>
       ELSE /\ queue' = q \o evs \o <<Event(s, "TERMINATE", conn[s])>>
            /\ hSock' = [hSock EXCEPT ![s] = INVALID_SOCKET]
            /\ open' = open \ {hSock[s]}
            /\ epoll' = {r \in epoll : r.fd # hSock[s]}

\* A session receives calls.
Tell(l, calls) == told' = [told EXCEPT ![l] = @ \o calls]

\* A session receives OnError; one after another is recorded once.
TellError(l) ==
  told' = [told EXCEPT ![l] = IF @ # <<>> /\ @[Len(@)] = "OnError" THEN @
                                ELSE Append(@, "OnError")]

Gone(l) == \E i \in 1 .. Len(told[l]) : told[l][i] = "Release"

-----------------------------------------------------------------------------
(* OnAccept, on the IO thread of the listening socket                       *)

\* A connection, a session and a socket object are made for the descriptor,
\* which AddEvent registers: from here on the other IO thread may use it.
OnAccept ==
  /\ at["accept"] = "idle"
  /\ nLink < MaxLinks /\ nFd < MaxFds
  /\ \E s \in free :
       LET l == nLink + 1
           fd == nFd + 1
       IN  /\ free' = free \ {s}
           /\ conn' = [conn EXCEPT ![s] = l]
           /\ m_poSock' = [m_poSock EXCEPT ![l] = s]
           /\ nLink' = l /\ nFd' = fd
           /\ arg' = [arg EXCEPT !["accept"] =
                         [sock |-> s, link |-> l, fd |-> fd]]
           /\ \/ /\ state' = [state EXCEPT ![s] = "ESTABLISH"]
                 /\ hSock' = [hSock EXCEPT ![s] = fd]
                 /\ open' = open \cup {fd}
                 /\ epoll' = epoll \cup {[fd |-> fd, sock |-> s]}
                 /\ at' = [at EXCEPT !["accept"] = "associate"]
                 /\ UNCHANGED queue
              \/ \* epoll_ctl fails: AddEvent pushes ERROR and closes.
                 /\ "add" \in Failures
                 /\ state' = [state EXCEPT ![s] = "CLOSE"]
                 /\ queue' = queue \o <<Event(s, "ERROR", l),
                                        Event(s, "TERMINATE", l)>>
                 /\ at' = [at EXCEPT !["accept"] = "undo"]
                 /\ UNCHANGED <<hSock, open, epoll>>
  /\ UNCHANGED <<m_nConnStat, told, delayed, ioVars, nRecv, early, reused>>

\* A variant that forgets the first event.
PushAssociate_Skips ==
  /\ at["accept"] = "associate"
  /\ at' = [at EXCEPT !["accept"] = "establish"]
  /\ UNCHANGED <<sockVars, connVars, queue, delayed, ioVars, arg, counters,
                 early, reused>>

\* The two events that announce the connection, pushed one after the other.
PushAssociate ==
  /\ at["accept"] = "associate"
  /\ queue' = Append(queue, Event(arg["accept"].sock, "ASSOCIATE",
                                  arg["accept"].link))
  /\ at' = [at EXCEPT !["accept"] = "establish"]
  /\ UNCHANGED <<sockVars, connVars, delayed, ioVars, arg, counters, early,
                 reused>>

PushEstablish ==
  /\ at["accept"] = "establish"
  /\ queue' = Append(queue, Event(arg["accept"].sock, "ESTABLISH",
                                  arg["accept"].link))
  /\ at' = [at EXCEPT !["accept"] = "idle"]
  /\ UNCHANGED <<sockVars, connVars, delayed, ioVars, arg, counters, early,
                 reused>>

\* A variant of Reset that keeps m_poConnection.
SockRelease_KeepsConnection(s) ==
  /\ state' = [state EXCEPT ![s] = "INVALID"]
  /\ hSock' = [hSock EXCEPT ![s] = INVALID_SOCKET]
  /\ free' = free \cup {s}
  /\ UNCHANGED conn

\* FxMySockMgr::Release: Reset, and back to the pool if m_byRef is 1.  Reset
\* forgets the descriptor without closing it.
SockRelease(s) ==
  /\ conn' = [conn EXCEPT ![s] = NoLink]
  /\ state' = [state EXCEPT ![s] = "INVALID"]
  /\ hSock' = [hSock EXCEPT ![s] = INVALID_SOCKET]
  /\ free' = free \cup {s}

\* The descriptors that can have been given the number of fd since fd was
\* closed.  (A member of Fd stands for one opening, not for a number.)
OpenedSince(fd) == {f \in open : f > fd}

\* OnAccept gives up on what AddEvent has closed: the descriptor is closed, the
\* socket object and the session are released here, and again by the events
\* AddEvent pushed.  The number of the descriptor may be another's by now,
\* whose descriptor is then closed under its socket.
UndoAccept ==
  /\ at["accept"] = "undo"
  /\ \E hit \in {{}} \cup {{f} : f \in OpenedSince(arg["accept"].fd)} :
       /\ open' = open \ hit
       /\ epoll' = {r \in epoll : r.fd \notin hit}
  /\ LET s == arg["accept"].sock
         l == arg["accept"].link
     IN  /\ SockRelease(s)
         /\ m_poSock' = IF conn[s] = NoLink THEN m_poSock
                        ELSE [m_poSock EXCEPT ![conn[s]] = NoSock]
         /\ Tell(l, <<"Release">>)
         /\ reused' = reused \cup {s}
  /\ at' = [at EXCEPT !["accept"] = "idle"]
  /\ UNCHANGED <<m_nConnStat, queue, delayed, ioVars, arg, counters, early>>

-----------------------------------------------------------------------------
(* Connect, on the main thread                                              *)

\* FxTCPConnectSock::Connect of socket s for link l up to epoll_ctl, which
\* comes before connect() and before the ASSOCIATE event; q are the events
\* pending.  A socket() that fails leaves an ERROR event and a Close that does
\* nothing; an epoll_ctl that fails is reported twice.
BeginConnect(s, l, q) ==
  \/ /\ nFd < MaxFds
     /\ nFd' = nFd + 1
     /\ hSock' = [hSock EXCEPT ![s] = nFd + 1]
     /\ state' = [state EXCEPT ![s] = "CONNECT"]
     /\ open' = open \cup {nFd + 1}
     /\ epoll' = epoll \cup {[fd |-> nFd + 1, sock |-> s]}
     /\ at' = [at EXCEPT !["main"] = "associate"]
     /\ arg' = [arg EXCEPT !["main"] =
                   [sock |-> s, link |-> l, fd |-> nFd + 1]]
     /\ queue' = q
  \/ /\ "socket" \in Failures
     /\ queue' = Append(q, Event(s, "ERROR", l))
     /\ UNCHANGED <<nFd, hSock, state, open, epoll, at, arg>>
  \/ /\ "add" \in Failures
     /\ state' = [state EXCEPT ![s] = "CONNECT"]
     /\ queue' = q \o <<Event(s, "ERROR", l), Event(s, "TERMINATE", l),
                        Event(s, "ERROR", l)>>
     /\ UNCHANGED <<nFd, hSock, open, epoll, at, arg>>

\* FxNetModule::TcpConnect and FxConnection::Reconnect without a socket.
TcpConnect ==
  /\ at["main"] = "idle"
  /\ nLink < MaxLinks
  /\ \E s \in free :
       LET l == nLink + 1
       IN  /\ free' = free \ {s}
           /\ conn' = [conn EXCEPT ![s] = l]
           /\ m_poSock' = [m_poSock EXCEPT ![l] = s]
           /\ m_nConnStat' = [m_nConnStat EXCEPT ![l] = "CONN"]
           /\ nLink' = l
           /\ BeginConnect(s, l, queue)
  /\ UNCHANGED <<told, delayed, ioVars, nRecv, early, reused>>

\* The end of AddEvent.
PushAssociateMain ==
  /\ at["main"] = "associate"
  /\ queue' = Append(queue, Event(arg["main"].sock, "ASSOCIATE",
                                  arg["main"].link))
  /\ at' = [at EXCEPT !["main"] = "connect"]
  /\ UNCHANGED <<sockVars, connVars, delayed, ioVars, arg, counters, early,
                 reused>>

\* connect() returns: the connection stands (or will), or CONN_ERR and Close.
EndConnect ==
  /\ at["main"] = "connect"
  /\ \/ UNCHANGED <<state, hSock, open, epoll, queue>>
     \/ /\ "connect" \in Failures
        /\ Close(arg["main"].sock, queue,
                 <<Event(arg["main"].sock, "CONN_ERR", arg["main"].link)>>)
  /\ at' = [at EXCEPT !["main"] = "idle"]
  /\ UNCHANGED <<free, conn, connVars, delayed, ioVars, arg, counters, early,
                 reused>>

-----------------------------------------------------------------------------
(* What the application asks for, on the main thread                        *)

\* FxConnection::Close: PostClose leaves the close to the IO thread.
SessionClose(l) ==
  /\ at["main"] = "idle"
  /\ m_poSock[l] # NoSock
  /\ m_nConnStat[l] = "OK"
  /\ m_nConnStat' = [m_nConnStat EXCEPT ![l] = "CLOSING"]
  /\ delayed' = Append(delayed, [sock |-> m_poSock[l], link |-> l])
  /\ UNCHANGED <<sockVars, m_poSock, told, queue, ioVars, threadVars,
                 counters, early, reused>>

\* FxConnection::Reconnect with a socket closes it at once.
Reconnect(l) ==
  /\ at["main"] = "idle"
  /\ m_poSock[l] # NoSock
  /\ m_nConnStat' = [m_nConnStat EXCEPT ![l] = "CLOSING"]
  /\ Close(m_poSock[l], queue, <<>>)
  /\ UNCHANGED <<free, conn, m_poSock, told, delayed, ioVars, threadVars,
                 counters, early, reused>>

-----------------------------------------------------------------------------
(* The IO thread of the connections                                         *)

\* __DealData drains the delayed closes before it waits.
DrainDelayClose ==
  /\ ready = {} /\ connecting = NoSock
  /\ delayed # <<>>
  /\ Close(Head(delayed).sock, queue, <<>>)
  /\ delayed' = Tail(delayed)
  /\ UNCHANGED <<free, conn, connVars, ioVars, threadVars, counters, early,
                 reused>>

\* epoll_wait answers for some of the registered descriptors.
WaitEvents ==
  /\ ready = {} /\ connecting = NoSock
  /\ Len(queue) < MaxQueue
  /\ \E some \in SUBSET {r.sock : r \in epoll} : some # {} /\ ready' = some
  /\ UNCHANGED <<sockVars, connVars, queue, delayed, connecting, threadVars,
                 counters, early, reused>>

\* An event of the IO thread comes early when the socket's link has not been
\* announced: its ASSOCIATE (and, accepted, its ESTABLISH) is yet to be pushed.
NoteEarly(s) ==
  early' = IF \E t \in Threads : at[t] # "idle" /\ arg[t].sock = s
             THEN early \cup {conn[s]} ELSE early

\* A variant that reads a message and pushes no event.
OnRecv_Unreported(s) ==
  /\ s \in ready
  /\ connecting = NoSock
  /\ IsConnected(s)
  /\ conn[s] # NoLink /\ nRecv[conn[s]] < MaxRecv
  /\ nRecv' = [nRecv EXCEPT ![conn[s]] = @ + 1]
  /\ ready' = ready \ {s}
  /\ UNCHANGED <<sockVars, connVars, queue, delayed, connecting, threadVars,
                 nLink, nFd, early, reused>>

\* OnParserIoEvent of an established socket that has a message.
OnRecv(s) ==
  /\ s \in ready
  /\ connecting = NoSock
  /\ IsConnected(s)
  /\ conn[s] # NoLink /\ nRecv[conn[s]] < MaxRecv
  /\ nRecv' = [nRecv EXCEPT ![conn[s]] = @ + 1]
  /\ queue' = Append(queue, Event(s, "RECV", conn[s]))
  /\ ready' = ready \ {s}
  /\ NoteEarly(s)
  /\ UNCHANGED <<sockVars, connVars, delayed, connecting, threadVars, nLink,
                 nFd, reused>>

\* It has nothing to read, or only EPOLLHUP.
OnNothing(s) ==
  /\ s \in ready
  /\ connecting = NoSock
  /\ IsConnected(s)
  /\ ready' = ready \ {s}
  /\ UNCHANGED <<sockVars, connVars, queue, delayed, connecting, threadVars,
                 counters, early, reused>>

\* End of stream or an error on an established socket, EPOLLOUT missing on a
\* connecting one, or a socket that is neither: ERROR, and Close.
OnIoError(s) ==
  /\ s \in ready
  /\ connecting = NoSock
  /\ Close(s, queue, <<Event(s, "ERROR", conn[s])>>)
  /\ ready' = ready \ {s}
  /\ NoteEarly(s)
  /\ UNCHANGED <<free, conn, connVars, delayed, connecting, threadVars,
                 counters, reused>>

\* EPOLLOUT on a connecting socket: OnConnect up to getsockopt().
OnConnect(s) ==
  /\ s \in ready
  /\ connecting = NoSock
  /\ state[s] = "CONNECT"
  /\ state' = [state EXCEPT ![s] = "ESTABLISH"]
  /\ queue' = Append(queue, Event(s, "ESTABLISH", conn[s]))
  /\ ready' = ready \ {s}
  /\ connecting' = s
  /\ NoteEarly(s)
  /\ UNCHANGED <<free, conn, hSock, open, epoll, connVars, delayed,
                 threadVars, counters, reused>>

\* The rest of OnConnect: SO_ERROR or a closed descriptor closes the socket.
EndOnConnect ==
  /\ connecting # NoSock
  /\ \/ /\ hSock[connecting] # INVALID_SOCKET
        /\ UNCHANGED <<state, hSock, open, epoll, queue>>
     \/ /\ hSock[connecting] = INVALID_SOCKET \/ "connect" \in Failures
        /\ Close(connecting, queue,
                 <<Event(connecting, "ERROR", conn[connecting])>>)
  /\ connecting' = NoSock
  /\ UNCHANGED <<free, conn, connVars, delayed, ready, threadVars, counters,
                 early, reused>>

-----------------------------------------------------------------------------
(* Run: the main thread runs the oldest event                               *)

\* An event of the type is the oldest, and the main thread is free.
Runs(type) == /\ at["main"] = "idle"
              /\ queue # <<>>
              /\ Head(queue).eType = type

EventSock == Head(queue).poSock
EventConn == conn[EventSock]

\* The event changes nothing: no connection, or one in another state.
Ignored == /\ queue' = Tail(queue)
           /\ UNCHANGED <<sockVars, connVars, threadVars, nFd, reused>>

ProcAssociate ==
  /\ Runs("ASSOCIATE")
  /\ \/ EventConn = NoLink /\ Ignored
     \/ /\ EventConn # NoLink
        /\ m_nConnStat[EventConn] \notin {"NONE", "CONN"}
        /\ Ignored
     \/ /\ EventConn # NoLink
        /\ m_nConnStat[EventConn] \in {"NONE", "CONN"}
        /\ m_nConnStat' = [m_nConnStat EXCEPT ![EventConn] = "ASSOCIATE"]
        /\ queue' = Tail(queue)
        /\ UNCHANGED <<sockVars, m_poSock, told, threadVars, nFd, reused>>
  /\ UNCHANGED <<delayed, ioVars, nLink, nRecv, early>>

ProcEstablish ==
  /\ Runs("ESTABLISH")
  /\ \/ EventConn = NoLink /\ Ignored
     \/ /\ EventConn # NoLink
        /\ m_nConnStat[EventConn] # "ASSOCIATE"
        /\ Ignored
     \/ /\ EventConn # NoLink
        /\ m_nConnStat[EventConn] = "ASSOCIATE"
        /\ m_nConnStat' = [m_nConnStat EXCEPT ![EventConn] = "OK"]
        /\ Tell(EventConn, <<"OnConnect">>)
        /\ queue' = Tail(queue)
        /\ UNCHANGED <<sockVars, m_poSock, threadVars, nFd, reused>>
  /\ UNCHANGED <<delayed, ioVars, nLink, nRecv, early>>

\* RECV and ERROR reach the session of a connection that is OK.
ProcToSession(type) ==
  /\ Runs(type)
  /\ \/ EventConn = NoLink /\ Ignored
     \/ /\ EventConn # NoLink
        /\ m_nConnStat[EventConn] # "OK"
        /\ Ignored
     \/ /\ EventConn # NoLink
        /\ m_nConnStat[EventConn] = "OK"
        /\ IF type = "RECV" THEN Tell(EventConn, <<"OnRecv">>)
                            ELSE TellError(EventConn)
        /\ queue' = Tail(queue)
        /\ UNCHANGED <<sockVars, m_nConnStat, m_poSock, threadVars, nFd, reused>>
  /\ UNCHANGED <<delayed, ioVars, nLink, nRecv, early>>

\* A message longer than the session's buffer closes the socket instead.
ProcRecv ==
  \/ ProcToSession("RECV")
  \/ /\ Runs("RECV") /\ "recv" \in Failures
     /\ EventConn # NoLink
     /\ Close(EventSock, Tail(queue), <<Event(EventSock, "ERROR", EventConn)>>)
     /\ UNCHANGED <<free, conn, connVars, delayed, ioVars, threadVars,
                    counters, early, reused>>

ProcError == ProcToSession("ERROR")

\* CONN_ERR: OnError, and with m_bReconnect Connect on the same socket object.
ProcConnectError ==
  /\ Runs("CONN_ERR")
  /\ LET s == EventSock  l == EventConn
         Again == l \in Reconnects /\ m_poSock[l] # NoSock
     IN  \/ l = NoLink /\ Ignored
         \/ /\ l # NoLink
            /\ TellError(l)
            /\ \/ /\ ~Again \/ IsConnected(s) \/ hSock[s] # INVALID_SOCKET
                  /\ queue' = Tail(queue)
                  /\ UNCHANGED <<state, hSock, open, epoll, threadVars, nFd,
                                 reused>>
               \/ /\ Again /\ ~IsConnected(s) /\ hSock[s] = INVALID_SOCKET
                  /\ BeginConnect(m_poSock[l], l, Tail(queue))
                  /\ reused' = reused \cup {s}
            /\ UNCHANGED <<free, conn, m_nConnStat, m_poSock>>
  /\ UNCHANGED <<delayed, ioVars, nLink, nRecv, early>>

ProcTerminate ==
  /\ Runs("TERMINATE")
  /\ queue' = Append(Tail(queue), [Head(queue) EXCEPT !.eType = "RELEASE"])
  /\ UNCHANGED <<sockVars, connVars, delayed, ioVars, threadVars, counters,
                 early, reused>>

\* __ProcRelease: the connection forgets the socket, its session learns of the
\* end (and before it, if need be, of the beginning), and the socket object
\* goes back to the pool.
ProcRelease ==
  /\ Runs("RELEASE")
  /\ LET s == EventSock  l == EventConn
         last == CASE m_nConnStat[l] = "NONE" -> <<"Release">>
                   [] m_nConnStat[l] = "ASSOCIATE" ->
                        <<"OnConnect", "OnClose", "Release">>
                   [] OTHER -> <<"OnClose", "Release">>
     IN  /\ \/ l = NoLink /\ UNCHANGED connVars
            \/ /\ l # NoLink
               /\ m_poSock' = [m_poSock EXCEPT ![l] = NoSock]
               /\ m_nConnStat' = [m_nConnStat EXCEPT ![l] = "NONE"]
               /\ Tell(l, last)
         /\ SockRelease(s)
  /\ queue' = Tail(queue)
  /\ UNCHANGED <<open, epoll, delayed, ioVars, threadVars, counters, early,
                 reused>>

-----------------------------------------------------------------------------
ProcEvent ==
  \/ ProcAssociate \/ ProcEstablish \/ ProcRecv \/ ProcError
  \/ ProcConnectError \/ ProcTerminate \/ ProcRelease

Accept == PushAssociate \/ PushEstablish \/ UndoAccept
Connect == PushAssociateMain \/ EndConnect

\* The IO thread handles what epoll_wait answered.
HandleEvents ==
  \/ EndOnConnect
  \/ \E s \in Sock : OnRecv(s) \/ OnNothing(s) \/ OnIoError(s) \/ OnConnect(s)

Next ==
  \/ OnAccept \/ Accept
  \/ TcpConnect \/ Connect
  \/ \E l \in Link : SessionClose(l) \/ Reconnect(l)
  \/ DrainDelayClose \/ WaitEvents \/ HandleEvents
  \/ ProcEvent

Spec == Init /\ [][Next]_vars

\* Every thread keeps running: Run takes event after event, a handler that
\* has begun ends, and the IO thread drains its delayed closes on every turn
\* (epoll_wait returns after 1 ms), which a busy descriptor can put off but
\* not for ever.
FairSpec ==
  /\ Spec
  /\ WF_vars(ProcEvent) /\ WF_vars(Accept) /\ WF_vars(Connect)
  /\ WF_vars(HandleEvents) /\ SF_vars(DrainDelayClose)

-----------------------------------------------------------------------------
(* Properties                                                               *)

\* Every variable has a value of its kind.
TypeOK ==
  /\ free \subseteq Sock /\ reused \subseteq Sock
  /\ conn \in [Sock -> Link \cup {NoLink}]
  /\ state \in [Sock -> SockStates]
  /\ hSock \in [Sock -> Fd \cup {INVALID_SOCKET}]
  /\ open \subseteq Fd
  /\ epoll \subseteq [fd : Fd, sock : Sock]
  /\ m_nConnStat \in [Link -> ConnStats]
  /\ m_poSock \in [Link -> Sock \cup {NoSock}]
  /\ \A l \in Link : \A i \in 1 .. Len(told[l]) : told[l][i] \in Calls
  /\ \A i \in 1 .. Len(queue) :
       queue[i] \in [poSock : Sock, eType : EventTypes,
                     link : Link \cup {NoLink}]
  /\ ready \subseteq Sock /\ connecting \in Sock \cup {NoSock}
  /\ early \subseteq Link \cup {NoLink}

\* How often a session has received a call.
Times(l, call) == Cardinality({i \in 1 .. Len(told[l]) : told[l][i] = call})

\* What a session sees is a conversation, whatever order the two IO threads
\* and the main thread push events in and however often its socket object is
\* recycled: at most one OnConnect, messages only after it, at most one OnClose
\* with the Release right after it, and nothing after the Release.  (As long as
\* no object was reused with an end pending, like the properties below.)
SessionProtocol ==
  reused = {} => \A l \in Link :
    /\ \A call \in {"OnConnect", "OnClose", "Release"} : Times(l, call) <= 1
    /\ Gone(l) => told[l][Len(told[l])] = "Release"
    /\ \A i \in 1 .. Len(told[l]) :
         /\ told[l][i] = "OnRecv" =>
              \E j \in 1 .. i - 1 : told[l][j] = "OnConnect"
         /\ told[l][i] = "OnClose" => i = Len(told[l]) - 1

IsDeath(e) == e.eType \in {"TERMINATE", "RELEASE"}

\* The events that end a connection reach it and no other: events name the
\* socket object, and its next connection must not be released by the end of
\* the one before.  Objects that were reused with an end pending are excepted.
DeathIsOwn ==
  \A i \in 1 .. Len(queue) :
    LET e == queue[i]
    IN  IsDeath(e) /\ e.poSock \notin reused => conn[e.poSock] = e.link

\* No descriptor leaks: each one open is the m_hSock of some socket object, as
\* long as no object was reused with its end pending.
DescriptorsOwned == reused = {} => open \subseteq {hSock[s] : s \in Sock}

\* The comment in ReleaseObj (src/Server/meta_header/dynamicpoolex.h:159) calls
\* it misuse to release an object whose reference count is not 1: RELEASE runs
\* only for socket objects that are out of the pool.
ReleasedInUse == Runs("RELEASE") => EventSock \notin free

Quiet == queue = <<>> /\ \A t \in Threads : at[t] = "idle"

\* Once the queue has been run, an established socket has a connection that
\* the session was told of or asked to close; only an event of the IO thread
\* that came before the announcement (early) can leave one it never hears of.
AnnouncedAtRest ==
  Quiet /\ reused = {} => \A s \in Sock :
    IsConnected(s) /\ conn[s] # NoLink =>
      m_nConnStat[conn[s]] \in {"OK", "CLOSING"} \/ conn[s] \in early

\* Messages of l received and not yet run.
Pending(l) == Cardinality({i \in 1 .. Len(queue) :
                             queue[i].eType = "RECV" /\ queue[i].link = l})

\* No message is dropped on an open connection: each one received has reached
\* the session or is pending; only one that came early can be missing.
MessagesKept ==
  reused = {} => \A l \in Link :
    /\ m_nConnStat[l] = "OK" /\ l \notin early
    /\ m_poSock[l] # NoSock => IsConnected(m_poSock[l])
    => Times(l, "OnRecv") + Pending(l) = nRecv[l]

\* Connect could not get a descriptor for the object: socket() failed, and Close
\* found nothing to close.
NeverOpened(s) == s \notin free /\ state[s] = "INVALID"

\* Some thread is in the middle of Connect or OnAccept with the object.
InHand(s) == \E t \in Threads : at[t] # "idle" /\ arg[t].sock = s

\* The ends pending for an object.
Ends(s) == {i \in 1 .. Len(queue) : IsDeath(queue[i]) /\ queue[i].poSock = s}

\* An object goes back to the pool exactly once: none has two ends pending, one
\* in the pool has none, which ReleaseObj would have to refuse, and one that is
\* out of it without a descriptor has one.  The exception is Connect after a
\* failed socket(), which leaves the object and its connection out for good.
OneDeath ==
  \A s \in Sock \ reused :
    /\ Cardinality(Ends(s)) <= 1
    /\ s \in free => Ends(s) = {}
    /\ s \notin free /\ hSock[s] = INVALID_SOCKET /\ ~InHand(s) =>
         Ends(s) # {} \/ NeverOpened(s)

\* A connection that the session closes, or reconnects, ends: the delayed close,
\* TERMINATE and RELEASE all come, and the session is released.  (Except, again,
\* when its socket() failed or its object was reused with an end pending.)
ClosingEnds ==
  \A l \in Link :
    m_nConnStat[l] = "CLOSING" ~>
      Gone(l) \/ reused # {} \/ \E s \in Sock : conn[s] = l /\ NeverOpened(s)
=============================================================================
