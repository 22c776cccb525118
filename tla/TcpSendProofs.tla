--------------------------- MODULE TcpSendProofs ---------------------------
(***************************************************************************)
(* Proofs about module TcpSend, for every size of the two buffers and for  *)
(* every bound.  Registered speaks of the moments in which both threads    *)
(* are at rest; WakeInv is its inductive form: it says, for each place the *)
(* threads can be in, what will still make the IO thread send.             *)
(***************************************************************************)
EXTENDS TcpSend, TLAPS

\* What send() took is still in the buffer until DiscardBuff removes it.
DiscardInv ==
  /\ nRet <= len
  /\ io # "DiscardBuff" => nRet = 0

\* Bytes in the buffer of an open socket have somebody who will register
\* EPOLLOUT, or are registered and not about to be dropped, or crossed.
WakeInv ==
  (IsConnected /\ len > 0) =>
    \/ main = "PostSendFree"
    \/ io \in {"DiscardBuff", "ChangeEvent"}
    \/ EPOLLOUT \in interest /\ io \notin AboutToDrop
    \/ crossed

\* Nothing is sent before OnConnect has announced the connection.
ConnectInv == state = Connecting => len = 0 /\ main = "idle"

IInv == TypeOK /\ DiscardInv /\ ConnectInv /\ NothingLost /\ WakeInv

\* The initial state satisfies the invariant: AddEvent registers EPOLLOUT.
LEMMA InitInv == Init => IInv
<1> SUFFICES ASSUME Init PROVE IInv
  OBVIOUS
<1>1. /\ m_bSending \in BOOLEAN /\ delayClose \in BOOLEAN
      /\ crossed \in BOOLEAN /\ queueFull \in BOOLEAN
  BY DEF Init
<1>2. TypeOK
  BY <1>1, TcpSendAssumption
  DEF Init, TypeOK, MainSteps, IoSteps, Connecting, Established
<1>3. DiscardInv /\ ConnectInv /\ NothingLost /\ WakeInv
  BY DEF Init, DiscardInv, ConnectInv, NothingLost, WakeInv
<1> QED
  BY <1>2, <1>3 DEF IInv

\* Every step keeps the types.
LEMMA TypeStep == TypeOK /\ DiscardInv /\ [Next]_vars => TypeOK'
<1> SUFFICES ASSUME TypeOK, DiscardInv, [Next]_vars PROVE TypeOK'
  OBVIOUS
<1> USE TcpSendAssumption DEF TypeOK, MainSteps, IoSteps
<1>1. CASE Send
  <2>1. /\ UNCHANGED <<state, interest, len, kernel, delayClose, crossed>>
        /\ UNCHANGED <<queueFull, pushed, io, nRet, m_bSending, handed>>
    BY <1>1 DEF Send, ioVars
  <2>2. PICK n \in 1 .. MaxPacket :
          IF n > BufLen
            THEN main' = "PushError" /\ UNCHANGED packet
            ELSE main' = "PushBuff" /\ packet' = n
    BY <1>1 DEF Send
  <2>3. CASE n > BufLen
    BY <2>1, <2>2, <2>3
  <2>4. CASE ~(n > BufLen)
    BY <2>1, <2>2, <2>4
  <2> QED
    BY <2>3, <2>4
<1>2. CASE PushBuff
  BY <1>2 DEF PushBuff, ioVars
<1>3. CASE NoRoom
  BY <1>3 DEF NoRoom, ioVars
<1>4. CASE PostSendFree
  <2>1. (io \in AboutToDrop) \in BOOLEAN
    OBVIOUS
  <2> QED
    BY <1>4, <2>1 DEF PostSendFree, ioVars
<1>5. CASE PostSendFreeClosed
  BY <1>5 DEF PostSendFreeClosed, ioVars
<1>6. CASE Reconnect
  BY <1>6 DEF Reconnect, Close, mainVars, ioVars
<1>7. CASE PushError
  BY <1>7 DEF PushError, ioVars
<1>8. CASE OthersPush \/ RunEvents
  BY <1>8 DEF OthersPush, RunEvents, ioVars
<1>9. CASE OnConnect
  BY <1>9 DEF OnConnect, mainVars
<1>10. CASE OnConnectFails
  BY <1>10 DEF OnConnectFails, Close, mainVars
<1>11. CASE DrainDelayClose
  BY <1>11 DEF DrainDelayClose, Close, mainVars, ioVars
<1>12. CASE OnRecvCloses
  BY <1>12 DEF OnRecvCloses, Close, mainVars, ioVars
<1>13. CASE OnSend
  BY <1>13 DEF OnSend, mainVars
<1>14. CASE PostSendReturns
  BY <1>14 DEF PostSendReturns, mainVars
<1>15. CASE FindsNothing
  BY <1>15 DEF FindsNothing, mainVars
<1>16. CASE SendSome
  BY <1>16 DEF SendSome, mainVars
<1>17. CASE SendAgain
  BY <1>17 DEF SendAgain, mainVars
<1>18. CASE SendFails
  BY <1>18 DEF SendFails, Close, mainVars
<1>19. CASE DiscardBuff
  BY <1>19 DEF DiscardBuff, mainVars, DiscardInv
<1>20. CASE ChangeEventOut
  BY <1>20 DEF ChangeEventOut, Register, mainVars
<1>21. CASE ChangeEventIn
  BY <1>21 DEF ChangeEventIn, Register, mainVars
<1>22. CASE PeerReads
  BY <1>22 DEF PeerReads, mainVars, ioVars
<1>23. CASE UNCHANGED vars
  BY <1>23 DEF vars, mainVars, ioVars
<1> QED
  BY <1>1, <1>2, <1>3, <1>4, <1>5, <1>6, <1>7, <1>8, <1>9, <1>10, <1>11,
     <1>12, <1>13, <1>14, <1>15, <1>16, <1>17, <1>18, <1>19, <1>20, <1>21,
     <1>22, <1>23
  DEF Next, MainStep, IoStep

\* Every step keeps the count of the bytes: only PushBuff, SendSome and
\* DiscardBuff move any.
LEMMA CountStep ==
  TypeOK /\ DiscardInv /\ NothingLost /\ [Next]_vars
    => DiscardInv' /\ NothingLost'
<1> SUFFICES ASSUME TypeOK, DiscardInv, NothingLost, [Next]_vars
             PROVE DiscardInv' /\ NothingLost'
  OBVIOUS
<1>0. /\ len \in Nat /\ nRet \in Nat /\ pushed \in Nat /\ handed \in Nat
      /\ packet \in Nat
  BY TcpSendAssumption DEF TypeOK
<1> USE DEF DiscardInv, NothingLost
<1>1. CASE PushBuff
  BY <1>0, <1>1 DEF PushBuff, ioVars
<1>2. CASE SendSome
  BY <1>0, <1>2 DEF SendSome, mainVars
<1>3. CASE DiscardBuff
  BY <1>0, <1>3 DEF DiscardBuff, mainVars
<1>4. CASE Send \/ NoRoom \/ PostSendFree \/ PostSendFreeClosed \/ Reconnect
           \/ PushError \/ OthersPush \/ RunEvents
           \/ DrainDelayClose \/ OnRecvCloses \/ PeerReads \/ UNCHANGED vars
  <2>1. UNCHANGED <<len, nRet, io, pushed, handed>>
    BY <1>4 DEF Send, NoRoom, PostSendFree, PostSendFreeClosed, Reconnect,
                PushError, OthersPush, RunEvents, DrainDelayClose,
                OnRecvCloses, PeerReads, vars, mainVars, ioVars
  <2> QED
    BY <2>1
<1>5. CASE OnSend \/ PostSendReturns \/ FindsNothing \/ SendAgain
           \/ SendFails \/ ChangeEventOut \/ ChangeEventIn
           \/ OnConnect \/ OnConnectFails
  <2>1. UNCHANGED <<len, nRet, pushed, handed>> /\ io # "DiscardBuff"
    BY <1>5 DEF OnConnect, OnConnectFails, AboutToDrop, OnSend, PostSendReturns, FindsNothing, SendAgain, SendFails,
                ChangeEventOut, ChangeEventIn, mainVars
  <2> QED
    BY <2>1
<1> QED
  BY <1>1, <1>2, <1>3, <1>4, <1>5 DEF Next, MainStep, IoStep

\* Every step keeps ConnectInv: no step leads back to a connecting socket.
LEMMA ConnectStep ==
  TypeOK /\ DiscardInv /\ ConnectInv /\ [Next]_vars => ConnectInv'
<1> SUFFICES ASSUME TypeOK, DiscardInv, ConnectInv, [Next]_vars
             PROVE ConnectInv'
  OBVIOUS
<1> USE DEF ConnectInv
<1>1. CASE Send
  BY <1>1 DEF Send, IsConnected, Connecting, Established
<1>2. CASE MainStep
  BY <1>2 DEF MainStep, PushBuff, NoRoom, PostSendFree, PostSendFreeClosed,
              PushError
<1>3. CASE Reconnect \/ DrainDelayClose \/ OnRecvCloses
  BY <1>3 DEF Reconnect, DrainDelayClose, OnRecvCloses, Close, Closed,
              Connecting, mainVars
<1>4. CASE OnConnect \/ OnConnectFails
  BY <1>4 DEF OnConnect, OnConnectFails, Close, Closed, Connecting,
              Established, mainVars
<1>5. CASE SendFails
  BY <1>5 DEF SendFails, Close, Closed, Connecting, mainVars
<1>6. CASE DiscardBuff
  <2>1. len \in Nat /\ nRet \in Nat /\ nRet <= len
    BY TcpSendAssumption DEF TypeOK, DiscardInv
  <2> QED
    BY <1>6, <2>1 DEF DiscardBuff, mainVars
<1>7. CASE OnSend \/ PostSendReturns \/ FindsNothing \/ SendSome
           \/ SendAgain \/ ChangeEventOut \/ ChangeEventIn
  BY <1>7 DEF OnSend, PostSendReturns, FindsNothing, SendSome, SendAgain,
              ChangeEventOut, ChangeEventIn, mainVars
<1>8. CASE OthersPush \/ RunEvents \/ PeerReads \/ UNCHANGED vars
  BY <1>8 DEF OthersPush, RunEvents, PeerReads, vars, mainVars
<1> QED
  BY <1>1, <1>2, <1>3, <1>4, <1>5, <1>6, <1>7, <1>8 DEF Next, IoStep

\* Every step keeps WakeInv.
LEMMA WakeStep ==
  TypeOK /\ DiscardInv /\ ConnectInv /\ WakeInv /\ [Next]_vars => WakeInv'
<1> SUFFICES ASSUME TypeOK, DiscardInv, ConnectInv, WakeInv, [Next]_vars
             PROVE WakeInv'
  OBVIOUS
<1>0. len \in Nat /\ nRet \in Nat
  BY TcpSendAssumption DEF TypeOK
<1> USE DEF WakeInv, IsConnected, AboutToDrop
<1>1. CASE PushBuff
  BY <1>1 DEF PushBuff
<1>2. CASE PostSendFree
  BY <1>2 DEF PostSendFree, ioVars
<1>3. CASE Reconnect \/ OnRecvCloses \/ SendFails
  BY <1>3 DEF Reconnect, OnRecvCloses, SendFails, Close, Established, Closed
<1>4. CASE PushError
  BY <1>4 DEF PushError, ioVars
<1>5. CASE OthersPush \/ RunEvents
  BY <1>5 DEF OthersPush, RunEvents, ioVars
<1>6. CASE OnConnectFails
  BY <1>6 DEF OnConnectFails, Close, Established, Closed, mainVars
<1>7. CASE OnConnect
  BY <1>0, <1>7 DEF OnConnect, ConnectInv, mainVars
<1>8. CASE DrainDelayClose
  BY <1>8 DEF DrainDelayClose, Close, Established, Closed, mainVars, ioVars
<1>9. CASE Send \/ NoRoom
  BY <1>9 DEF Send, NoRoom, mainVars, ioVars
<1>10. CASE PostSendFreeClosed
  BY <1>10 DEF PostSendFreeClosed
<1>11. CASE OnSend \/ PostSendReturns
  BY <1>11 DEF OnSend, PostSendReturns, mainVars
<1>12. CASE FindsNothing
  BY <1>0, <1>12 DEF FindsNothing, mainVars
<1>13. CASE SendSome \/ SendAgain
  BY <1>13 DEF SendSome, SendAgain
<1>14. CASE DiscardBuff
  BY <1>14 DEF DiscardBuff
<1>15. CASE ChangeEventOut
  BY <1>15 DEF ChangeEventOut, Register
<1>16. CASE ChangeEventIn
  BY <1>16 DEF ChangeEventIn, Register, mainVars
<1>17. CASE PeerReads
  BY <1>17 DEF PeerReads, mainVars, ioVars
<1>18. CASE UNCHANGED vars
  BY <1>18 DEF vars, mainVars, ioVars
<1> QED
  BY <1>1, <1>2, <1>3, <1>4, <1>5, <1>6, <1>7, <1>8, <1>9, <1>10, <1>11,
     <1>12, <1>13, <1>14, <1>15, <1>16, <1>17, <1>18
  DEF Next, MainStep, IoStep

\* The invariant holds in every behaviour.
LEMMA Invariance == Spec => []IInv
<1>1. IInv /\ [Next]_vars => IInv'
  BY TypeStep, CountStep, ConnectStep, WakeStep DEF IInv
<1> QED
  BY InitInv, <1>1, PTL DEF Spec

\* The types hold for every size: in particular len never leaves the buffer,
\* although the two threads add and remove without a common step.
THEOREM TypeCorrect == Spec => []TypeOK
  BY Invariance, PTL DEF IInv

\* No byte is discarded that the kernel did not take, and none is taken twice.
THEOREM NothingLostCorrect == Spec => []NothingLost
  BY Invariance, PTL DEF IInv

\* On an accepted or a connected socket bytes are left without EPOLLOUT only
\* when Send's registration came between the IO thread's decision to drop
\* EPOLLOUT, in PostSend or in OnConnect, and its ChangeEvent.
THEOREM RegisteredCorrect == Spec => []Registered
<1>1. IInv => Registered
  BY DEF IInv, WakeInv, Registered
<1> QED
  BY Invariance, <1>1, PTL
=============================================================================
