----------------------------- MODULE EventFifo -----------------------------
(***************************************************************************)
(* What TEventQueue promises its users (src/Server/Net/eventqueue.h): the  *)
(* events some threads push reach the one handler in the order they were   *)
(* pushed, each once, and at most Capacity of them wait.  Events are       *)
(* numbered by their pushes.                                               *)
(***************************************************************************)
EXTENDS Naturals, Sequences

CONSTANT Capacity   \* events pushed and not yet with their handler

VARIABLES
  sent,        \* events pushed
  pending,     \* those no handler has received, in order
  delivered    \* those a handler has received

fifoVars == <<sent, pending, delivered>>

FifoInit == sent = 0 /\ pending = <<>> /\ delivered = {}

Push ==
  /\ Len(pending) < Capacity
  /\ sent' = sent + 1
  /\ pending' = Append(pending, sent + 1)
  /\ UNCHANGED delivered

Deliver ==
  /\ pending # <<>>
  /\ delivered' = delivered \cup {Head(pending)}
  /\ pending' = Tail(pending)
  /\ UNCHANGED sent

FifoNext == Push \/ Deliver

FifoSpec == FifoInit /\ [][FifoNext]_fifoVars
=============================================================================
