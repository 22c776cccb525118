---------------------------- MODULE UdpHandshake ----------------------------
(***************************************************************************)
(* How a UDP connection is made (src/Server/Net/myudpsock.cpp):            *)
(* FxUDPConnectSock::Connect on the main thread of the client, which       *)
(* repeats its SYN until something arrives, and FxUDPListenSock::OnAccept  *)
(* on an IO thread of the server, which makes an endpoint for each SYN.    *)
(* An endpoint is bound to the listener's own port and connected to its    *)
(* client last of all, when another IO thread may already serve it.        *)
(*                                                                         *)
(* Every Connect binds a port of its own, so that a client is one call of  *)
(* Connect.  The network loses, repeats and reorders packets (a packet to  *)
(* a client that waits needs no copy: the first one ends the wait, and     *)
(* PostSend sends more).  The datagrams are those this program sends: an   *)
(* empty one, for which OnAccept skips its checks, is not.  The server's   *)
(* kernel (external) gives a packet to an endpoint connected to its sender *)
(* if there is one, and otherwise to the listener or to any endpoint that  *)
(* is bound and not yet connected.  An endpoint's OnRecv is taken with the *)
(* packet's arrival: an IO thread that reads late is a network that        *)
(* delivers late.  Failures of socket(), bind(), sendto() and AddEvent are *)
(* not modelled.                                                           *)
(***************************************************************************)
EXTENDS Integers, Sequences

CONSTANTS
  Client,
  Watched,      \* the clients the histories are kept for: as clients are alike,
                \* the properties are stated for these
  Endpoint,     \* the sockets of the server's pool
  QueueCap,     \* bound: the SYNs the kernel queues for the listener
  NoClient, NoEndpoint

ASSUME HandshakeAssumption ==
  /\ Watched \subseteq Client
  /\ QueueCap \in Nat \ {0}
  /\ NoClient \notin Client /\ NoEndpoint \notin Endpoint

VARIABLES
  conn,        \* where each client stands: "idle", "wait" in recvfrom, "added"
               \* to its IO thread, "est", "closed"; "refused": it gave up
  syn,         \* the clients with a SYN in flight
  toClient,    \* the kinds of packet in flight to each client that waits
               \* (the packets of a connection are ReliableUdp's matter)
  lq,          \* the SYNs in the listener's receive queue (what OnAccept does
               \* not accept it drops, and that has no effect)
  accepting,   \* the endpoint OnAccept is at work on, or NoEndpoint
  ep,          \* each endpoint: "free", "bound", "conn"
  owner,       \* the client it was made for, or NoClient
  window,      \* its send window: "first", with the SYNACK in it; "retry" when
               \* the SYNACK's retry timer has run out; "open" when it is acked
  excused,     \* history, until the client ends: it sent its SYN again, or the
               \* network repeated it, or it lost an endpoint to a timeout or,
               \* before its connect(), to Update or another's SYN
  loosened     \* history, while the client waits: an endpoint of it met a retry
               \* timeout, or took another's packet for an ack

netVars == <<syn, toClient>>
epVars == <<ep, owner, window>>
historyVars == <<excused, loosened>>
vars == <<conn, netVars, lq, accepting, epVars, historyVars>>

\* What a client sends: SYN is syn 1, ack 0, SSTATE_CONNECT; DATA is anything
\* later, and has an ack and SSTATE_ESTABLISH.  What an endpoint sends: SYNACK
\* is syn 1, ack 1; DATA has a later number; both are SSTATE_ESTABLISH.
ToServer == {"SYN", "DATA"}
ToClient == {"SYNACK", "DATA"}

Init ==
  /\ conn = [c \in Client |-> "idle"]
  /\ syn = {} /\ toClient = [c \in Client |-> {}]
  /\ lq = <<>> /\ accepting = NoEndpoint
  /\ ep = [e \in Endpoint |-> "free"]
  /\ owner = [e \in Endpoint |-> NoClient]
  /\ window = [e \in Endpoint |-> "first"]
  /\ excused = {} /\ loosened = {}

Live(e) == ep[e] # "free"
Sent(c, kind) ==
  [toClient EXCEPT ![c] = IF conn[c] = "wait" THEN @ \cup {kind} ELSE @]

\* The histories with the clients C, or client c, added.
Excusing(C) ==
  excused \cup {d \in C \cap Watched : conn[d] \in {"wait", "added", "est"}}
Loosening(c) == loosened \cup {d \in {c} \cap Watched : conn[d] = "wait"}

-----------------------------------------------------------------------------
(* Slips that the properties must notice; no part of the model.             *)

Validates_Any(kind) == TRUE
MaySendData_Always(e) == TRUE
Resend_Nothing(c) == UNCHANGED syn

-----------------------------------------------------------------------------
(* Connect                                                                  *)

Connect(c) ==
  /\ conn[c] = "idle"
  /\ conn' = [conn EXCEPT ![c] = "wait"]
  /\ syn' = syn \cup {c}
  /\ UNCHANGED <<toClient, lq, accepting, epVars, historyVars>>

\* goto ContinuetSend: sendto.
Resend(c) == syn' = syn \cup {c}

\* recvfrom times out: the SYN is sent again, for as long as it takes.
RecvTimeout(c) ==
  /\ conn[c] = "wait"
  /\ Resend(c)
  /\ excused' = Excusing({c})
  /\ UNCHANGED <<conn, toClient, lq, accepting, epVars, loosened>>

\* recvfrom returns the first packet that comes.  A SYNACK establishes, and the
\* socket is added to its IO thread.
ConnectRecv(c) ==
  /\ conn[c] = "wait"
  /\ "SYNACK" \in toClient[c]
  /\ toClient' = [toClient EXCEPT ![c] = {}]
  /\ conn' = [conn EXCEPT ![c] = "added"]
  /\ loosened' = loosened \ {c}
  /\ UNCHANGED <<syn, lq, accepting, epVars, excused>>

\* Anything else makes Connect give up.
ConnectRefuses(c) ==
  /\ conn[c] = "wait"
  /\ toClient[c] \ {"SYNACK"} # {}
  /\ toClient' = [toClient EXCEPT ![c] = {}]
  /\ conn' = [conn EXCEPT ![c] = "refused"]
  /\ excused' = excused \ {c}
  /\ UNCHANGED <<syn, lq, accepting, epVars, loosened>>

\* connect(), and Connect returns the socket.
ConnectDone(c) ==
  /\ conn[c] = "added"
  /\ conn' = [conn EXCEPT ![c] = "est"]
  /\ UNCHANGED <<netVars, lq, accepting, epVars, historyVars>>

\* The IO thread's Update comes before connect(): send() has no address to send
\* to, the socket is closed, and connect() then fails.
EarlyUpdate(c) ==
  /\ conn[c] = "added"
  /\ conn' = [conn EXCEPT ![c] = "closed"]
  /\ excused' = excused \ {c}
  /\ UNCHANGED <<netVars, lq, accepting, epVars, loosened>>

\* An established client ends: the acks time out, or its session closes it.
ClientEnds(c) ==
  /\ conn[c] = "est"
  /\ conn' = [conn EXCEPT ![c] = "closed"]
  /\ excused' = excused \ {c}
  /\ UNCHANGED <<netVars, lq, accepting, epVars, loosened>>

-----------------------------------------------------------------------------
(* The network, and the server's kernel                                     *)

LoseSyn(c) ==
  /\ c \in syn
  /\ syn' = syn \ {c}
  /\ UNCHANGED <<conn, toClient, lq, accepting, epVars, historyVars>>

LoseReply(c, kind) ==
  /\ kind \in toClient[c]
  /\ toClient' = [toClient EXCEPT ![c] = @ \ {kind}]
  /\ UNCHANGED <<conn, syn, lq, accepting, epVars, historyVars>>

\* A packet of client c can arrive.  An established client sends all the time,
\* and its last packets may still come when it is closed.
InFlight(c, kind) ==
  IF kind = "SYN" THEN c \in syn ELSE conn[c] \in {"est", "closed"}

\* A packet of client c is taken from the network, which may keep a copy of a
\* SYN to deliver it again.  The clients C have met another mishap.
Taken(c, kind, C) ==
  \/ /\ syn' = IF kind = "SYN" THEN syn \ {c} ELSE syn
     /\ excused' = Excusing(C)
  \/ /\ kind = "SYN"
     /\ UNCHANGED syn
     /\ excused' = Excusing(C \cup {c})

Connected(c) == {e \in Endpoint : ep[e] = "conn" /\ owner[e] = c}
Unconnected == {e \in Endpoint : ep[e] = "bound"}

\* Of several endpoints connected to one client the kernel always takes the
\* same.
Served(c) == CHOOSE e \in Connected(c) : TRUE

\* OnAccept's checks of ack, syn and status.  (It makes them of what recvfrom
\* returns when that is not 0 bytes, and no packet of this program is empty.)
Validates(kind) == kind = "SYN"

ArriveAtListener(c, kind) ==
  /\ InFlight(c, kind) /\ Validates(kind)
  /\ Connected(c) = {} /\ Len(lq) < QueueCap
  /\ lq' = Append(lq, c)
  /\ Taken(c, kind, {})
  /\ UNCHANGED <<conn, toClient, accepting, epVars, loosened>>

\* Where else the kernel can put a packet of client c.
Reached(c, e) ==
  IF Connected(c) # {} THEN e = Served(c) ELSE e \in Unconnected

-----------------------------------------------------------------------------
(* OnAccept                                                                 *)

\* FxMySockMgr::CreateUdpSock: whichever comes first in the pool.
FreeEndpoint ==
  IF \E e \in Endpoint : ep[e] = "free"
    THEN CHOOSE e \in Endpoint : ep[e] = "free" ELSE NoEndpoint

\* The pool is empty: the SYN is dropped.
AcceptDrops ==
  /\ accepting = NoEndpoint /\ lq # <<>>
  /\ FreeEndpoint = NoEndpoint
  /\ lq' = Tail(lq)
  /\ UNCHANGED <<conn, netVars, accepting, epVars, historyVars>>

\* An endpoint is made, bound to the listener's port; it answers and is added
\* to its IO thread.
AcceptBinds(e) ==
  /\ accepting = NoEndpoint /\ lq # <<>>
  /\ e = FreeEndpoint
  /\ ep' = [ep EXCEPT ![e] = "bound"]
  /\ owner' = [owner EXCEPT ![e] = Head(lq)]
  /\ toClient' = Sent(Head(lq), "SYNACK")
  /\ accepting' = e
  /\ lq' = Tail(lq)
  /\ UNCHANGED <<conn, syn, window, historyVars>>

\* connect(); on an endpoint that was closed meanwhile it fails.
AcceptConnects ==
  /\ accepting # NoEndpoint
  /\ ep' = [ep EXCEPT ![accepting] = IF @ = "bound" THEN "conn" ELSE @]
  /\ accepting' = NoEndpoint
  /\ UNCHANGED <<conn, netVars, lq, owner, window, historyVars>>

-----------------------------------------------------------------------------
(* An endpoint on its IO thread                                             *)

\* Close, and the main thread's TERMINATE and RELEASE: the descriptor is closed
\* and the socket goes back to the pool.
Close(e) ==
  /\ ep' = [ep EXCEPT ![e] = "free"]
  /\ owner' = [owner EXCEPT ![e] = NoClient]
  /\ window' = [window EXCEPT ![e] = "first"]

\* OnRecv of a packet that is not SSTATE_ESTABLISH: its own client's SYN once
\* more, or another's that came before connect().
OnRecvSyn(e, c) ==
  /\ InFlight(c, "SYN") /\ Reached(c, e)
  /\ Close(e)
  /\ Taken(c, "SYN", {owner[e]} \ {c})
  /\ UNCHANGED <<conn, toClient, lq, accepting, loosened>>

\* OnRecv of DATA acknowledges the SYNACK.  (A stranger's may have an ack that
\* does not fit, and then has no effect here.)
OnRecvData(e, c) ==
  /\ InFlight(c, "DATA") /\ Reached(c, e)
  /\ window' = [window EXCEPT ![e] = "open"]
  /\ loosened' = IF c # owner[e] THEN Loosening(owner[e]) ELSE loosened
  /\ UNCHANGED <<conn, netVars, lq, accepting, ep, owner, excused>>

\* PostSend sends the SYNACK again.
PostSend(e) ==
  /\ ep[e] = "conn" /\ window[e] # "open"
  /\ toClient' = Sent(owner[e], "SYNACK")
  /\ UNCHANGED <<conn, syn, lq, accepting, epVars, historyVars>>

\* PostSend finds that the SYNACK, sent by it before, has timed out: the slow
\* start sets m_dSendWindowControl, which was 1, to 2.
RetryTimeout(e) ==
  /\ ep[e] = "conn" /\ window[e] = "first"
  /\ window' = [window EXCEPT ![e] = "retry"]
  /\ loosened' = Loosening(owner[e])
  /\ UNCHANGED <<conn, netVars, lq, accepting, ep, owner, excused>>

\* Whether m_dSendWindowControl lets number 2 out, beside the SYNACK or alone.
MaySendData(e) == window[e] # "first"

\* PostSend when the session has sent something.
PostSendData(e) ==
  /\ ep[e] = "conn" /\ MaySendData(e)
  /\ toClient' = Sent(owner[e], "DATA")
  /\ UNCHANGED <<conn, syn, lq, accepting, epVars, historyVars>>

\* Update comes before connect(): send() fails, and the endpoint is closed.
PostSendFails(e) ==
  /\ ep[e] = "bound"
  /\ Close(e)
  /\ excused' = Excusing({owner[e]})
  /\ UNCHANGED <<conn, netVars, lq, accepting, loosened>>

\* No ack has come for m_dAckTimeoutRetry periods (or the client's host says
\* that its port is gone).
AckTimeout(e) ==
  /\ ep[e] = "conn"
  /\ Close(e)
  /\ excused' = Excusing({owner[e]})
  /\ UNCHANGED <<conn, netVars, lq, accepting, loosened>>

-----------------------------------------------------------------------------
Next ==
  \/ \E c \in Client :
       \/ Connect(c) \/ RecvTimeout(c) \/ ConnectRecv(c) \/ ConnectRefuses(c)
       \/ ConnectDone(c) \/ EarlyUpdate(c) \/ ClientEnds(c) \/ LoseSyn(c)
       \/ \E k \in ToClient : LoseReply(c, k)
       \/ \E k \in ToServer : ArriveAtListener(c, k)
       \/ \E e \in Endpoint : OnRecvSyn(e, c) \/ OnRecvData(e, c)
  \/ AcceptDrops \/ AcceptConnects
  \/ \E e \in Endpoint :
       \/ AcceptBinds(e) \/ PostSend(e) \/ PostSendData(e) \/ PostSendFails(e)
       \/ RetryTimeout(e) \/ AckTimeout(e)

\* Nothing acknowledges the endpoint's packets: its client is not connected, or
\* its packets reach another endpoint.
PeerSilent(e) ==
  /\ ep[e] = "conn"
  /\ \/ conn[owner[e]] \notin {"added", "est"}
     \/ e # Served(owner[e])

\* No endpoint of the server is connected to the client.
Unserved(c) == conn[c] = "est" /\ Connected(c) = {}

\* The threads run; at either end a silent peer times out in the end (what
\* ReliableUdp's HalfOpenEnds shows); and the network lets a packet through
\* that is sent again and again, and does not keep a copy for ever.
Fairness ==
  /\ \A c \in Client :
       /\ WF_vars(RecvTimeout(c))
       /\ WF_vars(ConnectDone(c))
       /\ SF_vars(ConnectRecv(c))
       /\ SF_vars(ArriveAtListener(c, "SYN"))
       /\ WF_vars(LoseSyn(c))
       /\ WF_vars(Unserved(c) /\ ClientEnds(c))
  /\ WF_vars(AcceptDrops) /\ WF_vars(AcceptConnects)
  /\ WF_vars(\E e \in Endpoint : AcceptBinds(e))
  /\ \A e \in Endpoint : WF_vars(PeerSilent(e) /\ AckTimeout(e))

Spec == Init /\ [][Next]_vars
FairSpec == Spec /\ Fairness

-----------------------------------------------------------------------------
(* Properties.                                                             *)

HasOneEndpoint(c) ==
  \E e \in Endpoint : {f \in Endpoint : Live(f) /\ owner[f] = c} = {e}

\* A client whose Connect succeeded, whose SYN was sent once and delivered once,
\* has exactly one endpoint on the server, whatever order its packets and the
\* steps of OnAccept came in, unless that endpoint met a mishap of its own:
\* Update, or another client's SYN, before connect(), or a timeout.
Paired ==
  \A c \in Watched : conn[c] = "est" /\ c \notin excused => HasOneEndpoint(c)

\* Connect refuses a reply only if its endpoint ran into a retry timeout, or took
\* a stranger's packet for an acknowledgement before it was connected: until
\* then the window's control of 1 keeps data from overtaking the SYNACK.
RefusedOnlyIf ==
  \A c \in Watched : conn[c] = "refused" => c \in loosened

Orphan(e) == Live(e) /\ conn[owner[e]] \in {"refused", "closed"}

\* Connect returns, although SYN and SYNACK are lost, the SYN that is repeated
\* closes the very endpoint that answered the last one, and endpoints nobody
\* talks to fill the pool; an endpoint whose client has gone, or gave up, ends;
\* and whatever mishaps an established client has met, it comes to have exactly
\* one endpoint, or ends.
HandshakeEnds ==
  /\ \A c \in Client : conn[c] = "wait" ~> conn[c] # "wait"
  /\ \A e \in Endpoint : Orphan(e) ~> ~Orphan(e)
  /\ \A c \in Client : conn[c] = "est" ~> conn[c] # "est" \/ HasOneEndpoint(c)
=============================================================================
