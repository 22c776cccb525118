----------------------------- MODULE CloseQueue -----------------------------
(***************************************************************************)
(* The event queue together with Close of a TCP socket                     *)
(* (src/Server/Net/mytcpsock.cpp), which pushes NETEVT_TERMINATE while it  *)
(* holds the socket's m_oLock, so that a thread that waits for a place in  *)
(* the queue keeps that lock.  IO threads close sockets on errors; the     *)
(* main thread closes them from its handlers (a message that is too long,  *)
(* FxConnection::Reconnect).  Everything else is module EventQueue.        *)
(***************************************************************************)
EXTENDS EventQueue, FiniteSets

CONSTANTS
  Sockets,   \* the sockets that are open
  NoSock     \* no socket

ASSUME CloseAssumption == NoSock \notin Sockets

VARIABLES
  m_oLock,   \* of each socket: the thread inside Close, or "none"
  closing,   \* the socket whose Close each thread has called
  shut       \* the sockets whose m_hSock is INVALID_SOCKET

closeVars == <<m_oLock, closing, shut>>
cvars == <<vars, closeVars>>

CloseInit ==
  /\ Init
  /\ m_oLock = [s \in Sockets |-> "none"]
  /\ closing = [t \in Threads |-> NoSock]
  /\ shut = {}

Free(t) == closing[t] = NoSock

\* The bound on pushes counts those that a Close under way will still make.
MayPush == nStart + Cardinality({t \in Threads : ~Free(t)}) < MaxEvents

-----------------------------------------------------------------------------
\* A thread calls Close; it still has to get the lock.  (On a socket that is
\* closed already nothing happens, which is left out.)
CallClose(t, s) ==
  /\ pushPc[t] = "idle" /\ Free(t)
  /\ t = Main => runPc = "handle"
  /\ s \notin shut
  /\ MayPush
  /\ closing' = [closing EXCEPT ![t] = s]
  /\ UNCHANGED <<vars, m_oLock, shut>>

\* A slip: an early return that does not unlock.
AlreadyShut_KeepsLock(t) ==
  /\ closing[t] \in shut
  /\ m_oLock' = [m_oLock EXCEPT ![closing[t]] = t]
  /\ closing' = [closing EXCEPT ![t] = NoSock]
  /\ UNCHANGED <<vars, shut>>

\* Another thread was faster: Close unlocks and returns.
AlreadyShut(t) ==
  /\ closing[t] \in shut
  /\ closing' = [closing EXCEPT ![t] = NoSock]
  /\ UNCHANGED <<vars, m_oLock, shut>>

\* Close gets the lock, gives up the descriptor and begins to push TERMINATE.
ShutDown(t) ==
  /\ closing[t] \notin shut
  /\ m_oLock' = [m_oLock EXCEPT ![closing[t]] = t]
  /\ shut' = shut \cup {closing[t]}
  /\ PushNetEvent(t)
  /\ UNCHANGED closing

EnterClose(t) ==
  /\ ~Free(t)
  /\ m_oLock[closing[t]] = "none"
  /\ AlreadyShut(t) \/ ShutDown(t)

\* TERMINATE is in the queue.
LeaveClose(t) ==
  /\ ~Free(t)
  /\ m_oLock[closing[t]] = t
  /\ pushPc[t] = "idle"
  /\ m_oLock' = [m_oLock EXCEPT ![closing[t]] = "none"]
  /\ closing' = [closing EXCEPT ![t] = NoSock]
  /\ UNCHANGED <<vars, shut>>

\* The steps of EventQueue; a thread in Close pushes nothing else, and a handler
\* that called Close returns after it.
OtherPush(t) == Free(t) /\ MayPush /\ PushNetEvent(t) /\ UNCHANGED closeVars

CloseRunStep == RunStep /\ (EndProcEvent => Free(Main)) /\ UNCHANGED closeVars

-----------------------------------------------------------------------------
CloseNext ==
  \/ \E t \in Threads :
       \/ \E s \in Sockets : CallClose(t, s)
       \/ EnterClose(t) \/ LeaveClose(t)
       \/ OtherPush(t)
       \/ PushStep(t) /\ UNCHANGED closeVars
  \/ CloseRunStep

CloseSpec == CloseInit /\ [][CloseNext]_cvars

\* Every thread keeps being scheduled, and one that waits for a lock, or sleeps
\* and tries again, finds it free when it is free again and again.
CloseFairSpec ==
  /\ CloseSpec
  /\ WF_cvars(CloseRunStep)
  /\ \A t \in Threads :
       /\ SF_cvars(PushCheck(t) /\ UNCHANGED closeVars)
       /\ WF_cvars((PushWrite(t) \/ PushAdvance(t) \/ PushWrap(t))
                     /\ UNCHANGED closeVars)
       /\ SF_cvars(EnterClose(t))
       /\ WF_cvars(LeaveClose(t))

-----------------------------------------------------------------------------
(* Properties.                                                             *)

\* The main thread waits for the lock of a socket whose Close waits, with that
\* lock, for a place that only the main thread can make.
LockStuck ==
  \E t \in IoThreads :
    /\ pushPc[t] = "try" /\ Full
    /\ ~Free(Main) /\ m_oLock[closing[Main]] = t

\* Nothing but these two waits of the main thread, and a race of PopFront, keeps
\* an event from its handler.
EventsHandled ==
  \A k \in 1 .. MaxEvents :
    (nPush >= k) ~> (k \in seen \/ MainStuck \/ LockStuck \/ raced)

\* Nor anything else a thread that pushes or closes from getting through.
ThreadsGetThrough ==
  \A t \in Threads :
    (pushPc[t] = "try" \/ ~Free(t))
      ~> ((pushPc[t] = "idle" /\ Free(t)) \/ MainStuck \/ LockStuck \/ raced)
=============================================================================
