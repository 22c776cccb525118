---------------------------- MODULE ReliableUdp ----------------------------
(***************************************************************************)
(* The reliable transport over UDP of FxUDPConnectSock                     *)
(* (src/Server/Net/myudpsock.h, myudpsock.cpp): two established endpoints, *)
(* each with a sliding send window and a sliding receive window over       *)
(* sequence numbers of one byte, and a network that loses, duplicates and  *)
(* reorders packets.                                                       *)
(*                                                                         *)
(* One action per entry point: Send (main thread), PostSend (called by     *)
(* Update on the IO thread) and OnRecv (IO thread, one packet).  PostSend  *)
(* and OnRecv of an endpoint run on the same IO thread, so each is one     *)
(* step.  The clock is abstracted: a retransmission timer may or may not   *)
(* have run out, and the congestion window (m_dSendWindowControl) is any   *)
(* value from 1 to the window size, however the code moves it.  It is a    *)
(* double in the code: here it is counted in halves, an odd number         *)
(* standing for any value strictly between two integers, which is all its  *)
(* comparisons with integers tell.  A payload is the number of the piece   *)
(* of the stream it carries, or Heartbeat for a packet that is a header    *)
(* only.                                                                   *)
(***************************************************************************)
EXTENDS Integers, Sequences, FiniteSets

CONSTANTS
  Node,         \* the two endpoints
  W,            \* s_dwWindowSize: slots, and buffers, of each window
  SeqMod,       \* the sequence numbers, 2^8 in the code
  MaxData,      \* bound: [Node -> Nat], pieces each endpoint sends
  NetCap,       \* bound: [Node -> Nat], packets of each in flight
  Beats,        \* bound: the endpoints whose heartbeat timer ever runs out
  Lifetime,     \* how many sequence numbers a packet can fall behind
  AckTimeoutRetry, \* late acks in a row that end the connection, 3 in the code
  MaxLeaks,     \* bound: [Node -> Nat], receive calls that find no packet
  Failures      \* which failures of the environment may happen

ASSUME UdpAssumption ==
  /\ IsFiniteSet(Node) /\ Cardinality(Node) = 2
  /\ W \in Nat \ {0}
  /\ SeqMod \in Nat \ {0}
  /\ SeqMod % W = 0               \* a slot belongs to one number of a window
  /\ Lifetime \in Nat \ {0}
  /\ Lifetime + 2 * W <= SeqMod   \* no packet outlives a lap of the numbers
  /\ MaxData \in [Node -> Nat]
  /\ NetCap \in [Node -> Nat \ {0}]
  /\ Beats \subseteq Node
  /\ AckTimeoutRetry \in Nat \ {0}
  /\ MaxLeaks \in [Node -> Nat]
  /\ Failures \subseteq {"send", "recv", "overflow"}

Seq8 == 0 .. SeqMod - 1
Slots == 0 .. W - 1
Heartbeat == 0
NoBuffer == -1       \* m_pSeqBufferId[i] >= s_dwWindowSize: the slot is empty

MostData == CHOOSE k \in {MaxData[n] : n \in Node} :
              \A n \in Node : MaxData[n] <= k
Payload == 0 .. MostData

Packet == [m_cSyn : Seq8, m_cAck : Seq8, payload : Payload]

VARIABLES
  state,       \* "est", "closed", or "starved": closed for want of one
  pushed,      \* pieces the main thread has put in the send buffer
  taken,       \* pieces PostSend has moved to the send window
  sBegin, sEnd, sBuf, sFree,   \* m_oSendWindow; sFree counts the free list
  rBegin, rEnd, rBuf, rFree,   \* m_oRecvWindow
  m_bSendAck,
  m_dAckTimeoutRetry,
  leaks,       \* receive buffers lost by calls that found no packet
  delivered,   \* pieces copied to the receive buffer, in order
  net          \* net[n]: the packets n has sent that may still arrive

sendVars == <<sBegin, sEnd, sBuf, sFree>>
recvVars == <<rBegin, rEnd, rBuf, rFree, leaks, delivered>>
vars == <<state, pushed, taken, sendVars, recvVars, m_bSendAck,
          m_dAckTimeoutRetry, net>>

Peer(n) == CHOOSE m \in Node : m # n

\* After the handshake number 1 is in use on both sides: the SYN and its answer
\* occupy the send windows, and both have been received.  The endpoint that
\* accepted owes an ack; the one that connected does not.
Init ==
  /\ state = [n \in Node |-> "est"]
  /\ pushed = [n \in Node |-> 0] /\ taken = [n \in Node |-> 0]
  /\ sBegin = [n \in Node |-> 1] /\ sEnd = [n \in Node |-> 2]
  /\ sBuf = [n \in Node |-> [i \in Slots |-> Heartbeat]]
  /\ sFree = [n \in Node |-> W - 1]
  /\ rBegin = [n \in Node |-> 2] /\ rEnd = [n \in Node |-> (2 + W) % SeqMod]
  /\ rBuf = [n \in Node |-> [i \in Slots |-> NoBuffer]]
  /\ rFree = [n \in Node |-> W]
  /\ \E server \in Node : m_bSendAck = [n \in Node |-> n = server]
  /\ m_dAckTimeoutRetry = [n \in Node |-> AckTimeoutRetry]
  /\ leaks = [n \in Node |-> 0]
  /\ delivered = [n \in Node |-> <<>>]
  /\ net = [n \in Node |-> {}]

-----------------------------------------------------------------------------
(* Arithmetic on sequence numbers: bytes wrap, their differences in an      *)
(* expression are ints.                                                     *)

Byte_Int(x) == x      \* a slip: the difference is not cut to a byte
Byte(x) == x % SeqMod
Slot(s) == s % W
Count(b, e) == Byte(e - b)

(* Slips that the properties must notice; no part of the model.            *)
RunLength_Whole(n, buf) == W
HeartbeatDue_Never(n) == FALSE

\* SlidingWindow::IsValidIndex.
IsValidIndex(id, b, e) == Byte(id - b) < Byte(e - b)

\* The numbers from b up to but not including e.
Window(b, e) == {s \in Seq8 : IsValidIndex(s, b, e)}

-----------------------------------------------------------------------------
(* Send: the main thread appends a piece to m_poSendBuf.                   *)

Send(n) ==
  /\ state[n] = "est"
  /\ pushed[n] < MaxData[n]
  /\ pushed' = [pushed EXCEPT ![n] = @ + 1]
  /\ UNCHANGED <<state, taken, sendVars, recvVars, m_bSendAck,
                 m_dAckTimeoutRetry, net>>

-----------------------------------------------------------------------------
(* PostSend.                                                               *)

\* How many pieces the fill loop moves to the window under the limit c: it
\* stops at an empty free list, an empty send buffer, or when m_btEnd -
\* m_btBegin, which is an int and negative once the window wraps, exceeds c.
FillCount(n, c) ==
  LET most == {j \in 0 .. W : j <= sFree[n] /\ j <= pushed[n] - taken[n]}
      stop == {j \in most : \/ j + 1 \notin most
                            \/ 2 * (Byte(sEnd[n] + j) - sBegin[n]) > c}
  IN  CHOOSE j \in stop : \A i \in stop : j <= i

\* An empty packet goes out when its time has come, nothing is outstanding and
\* a buffer is free.
HeartbeatDue(n) == n \in Beats /\ sBegin[n] = sEnd[n] /\ sFree[n] > 0

\* The slots the send loop reaches under the limit c: it stops at the first
\* number whose distance, again an int, is c or more.
Reachable(b, e, c) ==
  {Slot(Byte(b + j)) : j \in {i \in 0 .. Count(b, e) - 1 :
                               \A h \in 0 .. i : 2 * (Byte(b + h) - b) < c}}

\* A slip: the ack names the packet expected next.
PacketOf_AckNext(n, s, data) ==
  [m_cSyn |-> s, m_cAck |-> rBegin[n], payload |-> data]

\* The header of everything n sends now: m_cAck is m_oRecvWindow.m_btBegin - 1.
PacketOf(n, s, data) ==
  [m_cSyn |-> s, m_cAck |-> Byte(rBegin[n] - 1), payload |-> data]

Close(n, why) == state' = [state EXCEPT ![n] = why]

\* Packets handed to send(): they join those in flight, they push them out of a
\* network that has no room, or they are lost on the spot, as everything is that
\* is sent to a peer that has closed.
Transmit(n, packets) ==
  \/ UNCHANGED net
  \/ /\ state[Peer(n)] = "est"
     /\ \E old \in {net[n], {}} :
          /\ Cardinality(old \cup packets) <= NetCap[n]
          /\ net' = [net EXCEPT ![n] = old \cup packets]

\* k pieces, or a heartbeat (h = 1), go into the window, which then ends at end.
Fill(n, k, h, end) ==
  LET New(i) == {j \in 0 .. k + h - 1 : Slot(Byte(sEnd[n] + j)) = i}
  IN  /\ taken' = [taken EXCEPT ![n] = @ + k]
      /\ sEnd' = [sEnd EXCEPT ![n] = end]
      /\ sBuf' = [sBuf EXCEPT ![n] =
                    [i \in Slots |->
                       IF New(i) = {} THEN sBuf[n][i]
                       ELSE IF h = 1 THEN Heartbeat
                       ELSE taken[n] + 1 + CHOOSE j \in New(i) : TRUE]]
      /\ sFree' = [sFree EXCEPT ![n] = @ - (k + h)]

\* The send loop over the slots whose timer has run out (due), and the bare ack
\* when no packet has carried it.  EAGAIN ends the call at once, so that the ack
\* may stay owed.
SendDue(n, end, due) ==
  LET out == {s \in Window(sBegin[n], end) : Slot(s) \in due}
      ack == PacketOf(n, Byte(sBegin[n] - 1), Heartbeat)
  IN  \/ /\ due # {}
         /\ Transmit(n, {PacketOf(n, s, sBuf'[n][Slot(s)]) : s \in out})
         /\ m_bSendAck' = [m_bSendAck EXCEPT ![n] = FALSE]
      \/ /\ due = {} /\ m_bSendAck[n]
         /\ Transmit(n, {ack})
         /\ m_bSendAck' = [m_bSendAck EXCEPT ![n] = FALSE]
      \/ due = {} /\ UNCHANGED <<m_bSendAck, net>>

\* The whole call (beat: the time of the heartbeat has come).
SendPackets(n, c, beat, due) ==
  \E k \in {FillCount(n, c)} :
  \E h \in {IF k = 0 /\ beat THEN 1 ELSE 0} :
  \E end \in {Byte(sEnd[n] + k + h)} :
    /\ beat => HeartbeatDue(n)
    /\ due \subseteq Reachable(sBegin[n], end, c)
    /\ Fill(n, k, h, end)
    /\ SendDue(n, end, due)

\* Any limit, any timers.
SendSome(n) == \E c \in 2 .. 2 * W, beat \in BOOLEAN, due \in SUBSET Slots :
                 SendPackets(n, c, beat, due)

\* Five seconds without a valid ack.  Taken to happen once the peer is gone: late
\* acks of a peer that is up do no more than close this endpoint, which a send()
\* that fails may do at any time.
AckLate(n) == state[Peer(n)] # "est"

PostSendInTime(n) ==
  /\ state[n] = "est"
  /\ SendSome(n)
  /\ UNCHANGED <<state, m_dAckTimeoutRetry, pushed, sBegin, recvVars>>

\* A slip: the late acks are not counted.
PostSendLate_KeepsCount(n) ==
  /\ state[n] = "est"
  /\ AckLate(n)
  /\ SendSome(n)
  /\ UNCHANGED <<state, m_dAckTimeoutRetry, pushed, sBegin, recvVars>>

\* The last of AckTimeoutRetry late acks in a row ends the connection: PostSend
\* returns false and Update closes.
PostSendLate(n) ==
  /\ state[n] = "est"
  /\ AckLate(n)
  /\ m_dAckTimeoutRetry' = [m_dAckTimeoutRetry EXCEPT ![n] = @ - 1]
  /\ IF m_dAckTimeoutRetry[n] - 1 <= 0
       THEN /\ Close(n, "closed")
            /\ UNCHANGED <<taken, sEnd, sBuf, sFree, m_bSendAck, net>>
       ELSE /\ UNCHANGED state
            /\ \/ SendSome(n)
               \/ \* m_dSendTime: it is too early to send again
                  UNCHANGED <<taken, sEnd, sBuf, sFree, m_bSendAck, net>>
  /\ UNCHANGED <<pushed, sBegin, recvVars>>

\* send() fails with another error than EAGAIN: Update closes.  What the call
\* sent before is a PostSendInTime; the windows of a closed endpoint are not
\* used again, so that what else the call did to them is left out.
PostSendFails(n) ==
  /\ state[n] = "est"
  /\ "send" \in Failures
  /\ Close(n, "closed")
  /\ UNCHANGED <<pushed, taken, sendVars, recvVars, m_bSendAck,
                 m_dAckTimeoutRetry, net>>

-----------------------------------------------------------------------------
(* OnRecv.                                                                 *)

\* Packets of n that are still young enough once n's windows stand at b and r:
\* older ones have left the network.
Alive(n, b, r) ==
  {p \in net[n] :
     /\ Byte(p.m_cSyn - b) < W \/ Byte(b - p.m_cSyn) <= Lifetime
     /\ Byte(r - 1 - p.m_cAck) <= Lifetime}

\* The slot of the j-th number from m_btBegin on.
RecvSlot(n, j) == Slot(Byte(rBegin[n] + j))

\* How many slots from m_btBegin on are filled in buf: what becomes deliverable.
RunLength(n, buf) ==
  CHOOSE k \in 0 .. W :
    /\ \A j \in 0 .. k - 1 : buf[RecvSlot(n, j)] # NoBuffer
    /\ k < W => buf[RecvSlot(n, k)] = NoBuffer

\* A slip: the buffer of the acknowledged packet itself is not given back.
ProcessAck_FreesBefore(n, p) ==
  LET valid == IsValidIndex(p.m_cAck, sBegin[n], sEnd[n])
      begin == IF valid THEN Byte(p.m_cAck + 1) ELSE sBegin[n]
  IN  /\ sBegin' = [sBegin EXCEPT ![n] = begin]
      /\ sFree' = IF valid
           THEN [sFree EXCEPT ![n] = @ + Count(sBegin[n], p.m_cAck)]
           ELSE sFree
      /\ m_dAckTimeoutRetry' = IF valid
           THEN [m_dAckTimeoutRetry EXCEPT ![n] = AckTimeoutRetry]
           ELSE m_dAckTimeoutRetry
      /\ UNCHANGED <<sEnd, sBuf>>

\* The ack: buffers up to m_cAck go back to the free list.
ProcessAck(n, p) ==
  LET valid == IsValidIndex(p.m_cAck, sBegin[n], sEnd[n])
      begin == IF valid THEN Byte(p.m_cAck + 1) ELSE sBegin[n]
  IN  /\ sBegin' = [sBegin EXCEPT ![n] = begin]
      /\ sFree' = [sFree EXCEPT ![n] = @ + Count(sBegin[n], begin)]
      /\ m_dAckTimeoutRetry' = IF valid
           THEN [m_dAckTimeoutRetry EXCEPT ![n] = AckTimeoutRetry]
           ELSE m_dAckTimeoutRetry
      /\ UNCHANGED <<sEnd, sBuf>>

\* The pieces among the payloads f[0], f[1], ..., in order: a packet that is a
\* header only carries none.
Pieces(f) ==
  LET data == {j \in DOMAIN f : f[j] # Heartbeat}
      nth(i) == CHOOSE j \in data : Cardinality({h \in data : h < j}) = i - 1
  IN  [i \in 1 .. Cardinality(data) |-> f[nth(i)]]

\* The first d packets of buf are copied to the receive buffer and the window
\* moves on by d; store: the packet that has just arrived is one of buf.
Take(n, store, buf, d) ==
  /\ rBegin' = [rBegin EXCEPT ![n] = Byte(@ + d)]
  /\ rEnd' = [rEnd EXCEPT ![n] = Byte(@ + d)]
  /\ rBuf' = [rBuf EXCEPT ![n] =
                [i \in Slots |-> IF \E j \in 0 .. d - 1 : RecvSlot(n, j) = i
                                   THEN NoBuffer ELSE buf[i]]]
  /\ rFree' = [rFree EXCEPT ![n] = @ - (IF store THEN 1 ELSE 0) + d]
  /\ delivered' = [delivered EXCEPT ![n] = @ \o
                     Pieces([j \in 0 .. d - 1 |-> buf[RecvSlot(n, j)]])]
  /\ m_bSendAck' = [m_bSendAck EXCEPT ![n] = @ \/ d > 0]

\* The packet: kept when its number is in the window and its slot empty, then
\* everything in sequence is copied to the receive buffer.  When that is full
\* after d packets (overflow) the endpoint reports an error and closes.
ProcessSyn(n, p) ==
  \E store \in {/\ IsValidIndex(p.m_cSyn, rBegin[n], rEnd[n])
               /\ rBuf[n][Slot(p.m_cSyn)] = NoBuffer} :
  \E buf \in {IF store THEN [rBuf[n] EXCEPT ![Slot(p.m_cSyn)] = p.payload]
                      ELSE rBuf[n]} :
  \E run \in {IF store THEN RunLength(n, buf) ELSE 0} :
    \/ Take(n, store, buf, run) /\ UNCHANGED state
    \/ /\ "overflow" \in Failures
       /\ \E d \in 0 .. run - 1 :
            buf[RecvSlot(n, d)] # Heartbeat /\ Take(n, store, buf, d)
       /\ Close(n, "closed")

\* One packet p arrives; the network may keep a copy.  A buffer is taken before
\* recv() and only then is its absence noticed.
OnRecv(n, p) ==
  /\ state[n] = "est"
  /\ p \in net[Peer(n)]
  /\ IF rFree[n] = 0
       THEN /\ Close(n, "starved")
            /\ UNCHANGED <<sendVars, recvVars, m_bSendAck, m_dAckTimeoutRetry,
                           net>>
       ELSE /\ ProcessAck(n, p)
            /\ ProcessSyn(n, p)
            /\ \E rest \in {net[Peer(n)], net[Peer(n)] \ {p}} :
                 net' = [net EXCEPT ![Peer(n)] = rest,
                                    ![n] = Alive(n, sBegin'[n], rBegin'[n])]
            /\ UNCHANGED leaks
  /\ UNCHANGED <<pushed, taken>>

\* recv() answers EAGAIN (a spurious wake-up): OnRecv returns without giving the
\* buffer back.
OnRecvAgain(n) ==
  /\ state[n] = "est"
  /\ leaks[n] < MaxLeaks[n]
  /\ IF rFree[n] = 0
       THEN Close(n, "starved") /\ UNCHANGED <<rFree, leaks>>
       ELSE /\ rFree' = [rFree EXCEPT ![n] = @ - 1]
            /\ leaks' = [leaks EXCEPT ![n] = @ + 1]
            /\ UNCHANGED state
  /\ UNCHANGED <<pushed, taken, sendVars, rBegin, rEnd, rBuf, delivered,
                 m_bSendAck, m_dAckTimeoutRetry, net>>

\* recv() fails, or what it returns is no packet of an established peer: OnRecv
\* closes (it also keeps the buffer, of a window that is not used again).
OnRecvFails(n) ==
  /\ state[n] = "est"
  /\ "recv" \in Failures
  /\ rFree[n] > 0
  /\ Close(n, "closed")
  /\ UNCHANGED <<pushed, taken, sendVars, recvVars, m_bSendAck,
                 m_dAckTimeoutRetry, net>>

-----------------------------------------------------------------------------
\* The network loses a packet.
Lose(n) ==
  /\ \E p \in net[n] : net' = [net EXCEPT ![n] = @ \ {p}]
  /\ UNCHANGED <<state, pushed, taken, sendVars, recvVars, m_bSendAck,
                 m_dAckTimeoutRetry>>

Next == \E n \in Node :
          \/ Send(n)
          \/ PostSendInTime(n) \/ PostSendLate(n) \/ PostSendFails(n)
          \/ \E p \in net[Peer(n)] : OnRecv(n, p)
          \/ OnRecvAgain(n) \/ OnRecvFails(n)
          \/ Lose(n)

Spec == Init /\ [][Next]_vars

\* The oldest unacknowledged packet of n, with n's current ack.
HeadPacket(n) == PacketOf(n, sBegin[n], sBuf[n][Slot(sBegin[n])])

\* PostSend when the timer of the oldest packet has run out, and it gets out.
SendHead(n) ==
  /\ state[n] = "est"
  /\ UNCHANGED <<state, m_dAckTimeoutRetry, pushed, sBegin, recvVars>>
  /\ SendPackets(n, 2 * W, HeartbeatDue(n), {Slot(sBegin[n])})
  /\ HeadPacket(n)' \in net'[n]

\* Update calls PostSend every 10 ms, timers run out, and a network that is
\* given the oldest packet again and again lets it through in the end.  Acks
\* stop for good only when the peer has closed.
Fairness ==
  \A n \in Node :
    /\ WF_vars(Send(n))
    /\ SF_vars(SendHead(n))
    /\ SF_vars(OnRecv(n, HeadPacket(Peer(n))))
    /\ WF_vars(state[Peer(n)] # "est" /\ PostSendLate(n))

FairSpec == Spec /\ Fairness

-----------------------------------------------------------------------------
(* Properties.                                                             *)

\* Every variable has a value of its kind; the numbers stay bytes.
TypeOK ==
  /\ state \in [Node -> {"est", "closed", "starved"}]
  /\ pushed \in [Node -> 0 .. MostData] /\ taken \in [Node -> 0 .. MostData]
  /\ sBegin \in [Node -> Seq8] /\ sEnd \in [Node -> Seq8]
  /\ sBuf \in [Node -> [Slots -> Payload]]
  /\ sFree \in [Node -> 0 .. W]
  /\ rBegin \in [Node -> Seq8] /\ rEnd \in [Node -> Seq8]
  /\ rBuf \in [Node -> [Slots -> Payload \cup {NoBuffer}]]
  /\ rFree \in [Node -> 0 .. W]
  /\ m_bSendAck \in [Node -> BOOLEAN]
  /\ m_dAckTimeoutRetry \in [Node -> 0 .. AckTimeoutRetry]
  /\ leaks \in [Node -> 0 .. W]
  /\ \A n \in Node : net[n] \subseteq Packet

\* The stream arrives in order, each piece exactly once, whatever the network
\* loses, repeats or reorders and however often the one-byte numbers wrap.
InOrderOnce ==
  \A n \in Node :
    /\ Len(delivered[n]) <= taken[Peer(n)]
    /\ \A i \in 1 .. Len(delivered[n]) : delivered[n][i] = i

\* The two ends of a direction agree: the receiver stands at or past the
\* sender's oldest unacknowledged number and no further than its newest, so a
\* buffer of the send window is freed only after the peer has its packet.
WindowsAgree ==
  \A n \in Node :
    LET b == sBegin[n]  r == rBegin[Peer(n)]
    IN  /\ Count(b, r) <= Count(b, sEnd[n])
        /\ Count(b, sEnd[n]) <= W

\* No buffer of either window is lost or freed twice, except the receive
\* buffers that calls without a packet leak; and a connection is torn down for
\* want of a receive buffer only by such leaks: the window itself always leaves
\* one to receive into.
BuffersConserved ==
  \A n \in Node :
    /\ sFree[n] + Count(sBegin[n], sEnd[n]) = W
    /\ rFree[n] + Cardinality({i \in Slots : rBuf[n][i] # NoBuffer})
         + leaks[n] = W
    /\ state[n] = "starved" \/ (state[n] = "est" /\ rFree[n] = 0)
         => leaks[n] > 0

\* Everything the application sends reaches the other side's receive buffer,
\* unless one of the two has closed.  A lost ack is made good by heartbeats
\* alone: a repeated packet does not make the receiver acknowledge again.
Delivery ==
  \A n \in Node : \A k \in 1 .. MaxData[n] :
    (pushed[n] >= k) ~> (\/ Len(delivered[Peer(n)]) >= k
                         \/ \E m \in Node : state[m] # "est")

\* When one side has closed the other one notices, by its ack timeout, and no
\* connection stays half open.
HalfOpenEnds ==
  (\E n \in Node : state[n] # "est") ~> (\A n \in Node : state[n] # "est")
=============================================================================
