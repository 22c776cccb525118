------------------------ MODULE SockLifecycleProofs ------------------------
(***************************************************************************)
(* Machine-checked proofs about the life of a TCP connection, for any      *)
(* number of socket objects, connections, descriptors and messages.        *)
(*                                                                         *)
(* The three threads meet in the event queue, so the invariants say what   *)
(* may be pending in it.  For an object: at most one end, and that its own *)
(* connection's (ObjectInv).  For a connection: the announcement before the*)
(* messages, and those before the end, with every message counted          *)
(* (TrafficInv).  For a session: where its conversation has got to         *)
(* (SessionInv).  They hold as long as no object was reused with an end    *)
(* pending, which is where the code breaks them; that an object and its    *)
(* connection always point at each other (Pairing) holds whatever happens. *)
(***************************************************************************)
EXTENDS SockLifecycle, FiniteSetTheorems, SequenceTheorems, TLAPS

Ev == [poSock : Sock, eType : EventTypes, link : Link \cup {NoLink}]

\* What a thread works on.
Work == [sock : Sock \cup {NoSock}, link : Link \cup {NoLink},
         fd : Fd \cup {INVALID_SOCKET}]

\* Every variable has a value of its kind, sequences and threads included.
TypeInv ==
  /\ free \subseteq Sock /\ reused \subseteq Sock
  /\ conn \in [Sock -> Link \cup {NoLink}]
  /\ state \in [Sock -> SockStates]
  /\ hSock \in [Sock -> Fd \cup {INVALID_SOCKET}]
  /\ open \subseteq Fd
  /\ epoll \subseteq [fd : Fd, sock : Sock]
  /\ m_nConnStat \in [Link -> ConnStats]
  /\ m_poSock \in [Link -> Sock \cup {NoSock}]
  /\ told \in [Link -> Seq(Calls)]
  /\ queue \in Seq(Ev)
  /\ delayed \in Seq([sock : Sock, link : Link])
  /\ ready \subseteq Sock /\ connecting \in Sock \cup {NoSock}
  /\ at \in [Threads -> {"idle", "associate", "establish", "undo", "connect"}]
  /\ arg \in [Threads -> Work]
  /\ \A t \in Threads : at[t] # "idle" => arg[t].sock \in Sock /\ arg[t].link \in Link
  /\ nLink \in 0 .. MaxLinks /\ nFd \in 0 .. MaxFds /\ nRecv \in [Link -> Nat]
  /\ early \subseteq Link \cup {NoLink}

\* A socket object and its connection point at each other, whatever happened
\* to the object before; connections are numbered as they are made.
Pairing ==
  /\ \A s \in Sock : conn[s] # NoLink => conn[s] <= nLink /\ m_poSock[conn[s]] = s
  /\ \A l \in Link : m_poSock[l] # NoSock => conn[m_poSock[l]] = l
  /\ \A s \in free : conn[s] = NoLink

\* Event i ends a connection of object s; there is none; there is one, and it
\* belongs to connection l.
EndsAt(i, s) == IsDeath(queue[i]) /\ queue[i].poSock = s
NoEnd(s) == \A i \in 1 .. Len(queue) : ~EndsAt(i, s)
OneEnd(s, l) ==
  \E i \in 1 .. Len(queue) :
    /\ EndsAt(i, s) /\ queue[i].link = l
    /\ \A j \in 1 .. Len(queue) : EndsAt(j, s) => j = i

\* The life of an object that was not reused with an end pending: in the pool it
\* is reset; with a descriptor it has no end; without one it has exactly one,
\* and that is its own connection's.  The IO thread alone can see it established
\* after its descriptor is gone.
ObjOK(s) ==
  /\ s \in free => hSock[s] = INVALID_SOCKET /\ state[s] = "INVALID"
  /\ NoEnd(s) \/ OneEnd(s, conn[s])
  /\ s \in free \/ hSock[s] # INVALID_SOCKET => NoEnd(s)
  /\ hSock[s] # INVALID_SOCKET => state[s] \in {"CONNECT", "ESTABLISH"}
  /\ s \notin free /\ hSock[s] = INVALID_SOCKET /\ state[s] # "INVALID" => ~NoEnd(s)
  /\ state[s] = "ESTABLISH" /\ hSock[s] = INVALID_SOCKET => connecting = s

ObjectInv == \A s \in Sock \ reused : ObjOK(s)

-----------------------------------------------------------------------------
(* The queue                                                                *)

\* The queue has lost its first d events and gained evs.
Moves(d, evs) ==
  /\ d \in {0, 1} /\ d <= Len(queue)
  /\ queue' \in Seq(Ev) /\ evs \in Seq(Ev)
  /\ Len(queue') = Len(queue) - d + Len(evs)
  /\ \A i \in 1 .. Len(queue) - d : queue'[i] = queue[i + d]
  /\ \A i \in 1 .. Len(evs) : queue'[Len(queue) - d + i] = evs[i]

LEMMA MovesConcat ==
  ASSUME TypeInv, NEW evs \in Seq(Ev), queue' = queue \o evs
  PROVE  Moves(0, evs)
<1>1. queue \in Seq(Ev) /\ Len(queue) \in Nat /\ Len(evs) \in Nat
  BY LenProperties DEF TypeInv
<1>2. /\ queue \o evs \in Seq(Ev) /\ Len(queue \o evs) = Len(queue) + Len(evs)
      /\ \A i \in 1 .. Len(queue) + Len(evs) : (queue \o evs)[i] =
           IF i <= Len(queue) THEN queue[i] ELSE evs[i - Len(queue)]
  BY <1>1, ConcatProperties
<1>3. QED
  BY <1>1, <1>2 DEF Moves

LEMMA MovesTail ==
  ASSUME TypeInv, queue # <<>>, NEW evs \in Seq(Ev), queue' = Tail(queue) \o evs
  PROVE  Moves(1, evs)
<1>1. /\ queue \in Seq(Ev) /\ Len(queue) \in Nat \ {0} /\ Len(evs) \in Nat
  BY LenProperties, EmptySeq DEF TypeInv
<1>2. /\ Tail(queue) \in Seq(Ev) /\ Len(Tail(queue)) = Len(queue) - 1
      /\ \A i \in 1 .. Len(Tail(queue)) : Tail(queue)[i] = queue[i + 1]
  BY <1>1, HeadTailProperties
<1>3. /\ Tail(queue) \o evs \in Seq(Ev)
      /\ Len(Tail(queue) \o evs) = Len(Tail(queue)) + Len(evs)
      /\ \A i \in 1 .. Len(Tail(queue)) + Len(evs) : (Tail(queue) \o evs)[i] =
           IF i <= Len(Tail(queue)) THEN Tail(queue)[i]
                                    ELSE evs[i - Len(Tail(queue))]
  BY <1>1, <1>2, ConcatProperties
<1>4. QED
  BY <1>1, <1>2, <1>3 DEF Moves

LEMMA MovesNot == ASSUME TypeInv, UNCHANGED queue PROVE Moves(0, <<>>)
<1>1. queue \in Seq(Ev) /\ Len(queue) \in Nat
  BY LenProperties DEF TypeInv
<1>2. QED
  BY <1>1 DEF Moves

LEMMA MovesPop ==
  ASSUME TypeInv, queue # <<>>, queue' = Tail(queue) PROVE Moves(1, <<>>)
<1>1. /\ queue \in Seq(Ev) /\ Len(queue) \in Nat \ {0}
  BY LenProperties, EmptySeq DEF TypeInv
<1>2. /\ Tail(queue) \in Seq(Ev) /\ Len(Tail(queue)) = Len(queue) - 1
      /\ \A i \in 1 .. Len(Tail(queue)) : Tail(queue)[i] = queue[i + 1]
  BY <1>1, HeadTailProperties
<1>3. QED
  BY <1>1, <1>2 DEF Moves

LEMMA MovesAppend ==
  ASSUME TypeInv, NEW e \in Ev, queue' = Append(queue, e) PROVE Moves(0, <<e>>)
<1>1. queue \in Seq(Ev) /\ Len(queue) \in Nat
  BY LenProperties DEF TypeInv
<1>2. QED
  BY <1>1 DEF Moves

LEMMA MovesTailAppend ==
  ASSUME TypeInv, queue # <<>>, NEW e \in Ev, queue' = Append(Tail(queue), e)
  PROVE  Moves(1, <<e>>)
<1>1. /\ queue \in Seq(Ev) /\ Len(queue) \in Nat \ {0}
  BY LenProperties, EmptySeq DEF TypeInv
<1>2. /\ Tail(queue) \in Seq(Ev) /\ Len(Tail(queue)) = Len(queue) - 1
      /\ \A i \in 1 .. Len(Tail(queue)) : Tail(queue)[i] = queue[i + 1]
  BY <1>1, HeadTailProperties
<1>3. QED
  BY <1>1, <1>2 DEF Moves

\* No end of s comes or goes.
LEMMA KeepEnds ==
  ASSUME TypeInv, NEW d, NEW evs, Moves(d, evs), NEW s \in Sock, NEW l,
         d = 1 => ~EndsAt(1, s),
         \A i \in 1 .. Len(evs) : ~(IsDeath(evs[i]) /\ evs[i].poSock = s)
  PROVE  (NoEnd(s) <=> NoEnd(s)') /\ (OneEnd(s, l) => OneEnd(s, l)')
<1>1. Len(queue) \in Nat /\ Len(evs) \in Nat
  BY LenProperties DEF TypeInv, Moves
<1>2. \A k \in 1 .. Len(queue') :
        EndsAt(k, s)' => k <= Len(queue) - d /\ EndsAt(k + d, s)
  <2> SUFFICES ASSUME NEW k \in 1 .. Len(queue'), EndsAt(k, s)'
               PROVE  k <= Len(queue) - d /\ EndsAt(k + d, s)
    OBVIOUS
  <2>1. CASE k <= Len(queue) - d
    BY <1>1, <2>1 DEF Moves, EndsAt, IsDeath
  <2>2. CASE ~(k <= Len(queue) - d)
    <3>1. /\ k - (Len(queue) - d) \in 1 .. Len(evs)
          /\ queue'[Len(queue) - d + (k - (Len(queue) - d))] = evs[k - (Len(queue) - d)]
          /\ Len(queue) - d + (k - (Len(queue) - d)) = k
      BY <1>1, <2>2 DEF Moves
    <3>2. QED
      BY <3>1 DEF EndsAt, IsDeath
  <2>3. QED
    BY <2>1, <2>2
<1>3. \A k \in 1 .. Len(queue) :
        EndsAt(k, s) => /\ k - d \in 1 .. Len(queue') /\ EndsAt(k - d, s)'
                        /\ queue'[k - d] = queue[k]
  <2> SUFFICES ASSUME NEW k \in 1 .. Len(queue), EndsAt(k, s)
               PROVE  /\ k - d \in 1 .. Len(queue') /\ EndsAt(k - d, s)'
                      /\ queue'[k - d] = queue[k]
    OBVIOUS
  <2>1. d \in {0, 1} /\ k - d \in 1 .. Len(queue) - d /\ k - d \in 1 .. Len(queue')
          /\ (k - d) + d = k
    BY <1>1 DEF Moves
  <2>2. queue'[k - d] = queue[k]
    BY <2>1 DEF Moves
  <2>3. QED
    BY <2>1, <2>2 DEF EndsAt, IsDeath
<1>4. NoEnd(s) <=> NoEnd(s)'
  <2>1. ASSUME NoEnd(s), NEW k \in 1 .. Len(queue'), EndsAt(k, s)' PROVE FALSE
    <3>1. k + d \in 1 .. Len(queue) /\ EndsAt(k + d, s)
      BY <1>1, <1>2, <2>1 DEF Moves
    <3>2. QED
      BY <2>1, <3>1 DEF NoEnd
  <2>2. ASSUME NoEnd(s)', NEW k \in 1 .. Len(queue), EndsAt(k, s) PROVE FALSE
    BY <1>3, <2>2 DEF NoEnd
  <2>3. QED
    BY <2>1, <2>2 DEF NoEnd
<1>5. ASSUME OneEnd(s, l) PROVE OneEnd(s, l)'
  <2>1. PICK i \in 1 .. Len(queue) : /\ EndsAt(i, s) /\ queue[i].link = l
                                     /\ \A j \in 1 .. Len(queue) : EndsAt(j, s) => j = i
    BY <1>5 DEF OneEnd
  <2>2. i - d \in 1 .. Len(queue') /\ EndsAt(i - d, s)' /\ queue'[i - d].link = l
    BY <1>3, <2>1
  <2>3. ASSUME NEW j \in 1 .. Len(queue'), EndsAt(j, s)' PROVE j = i - d
    <3>1. j + d \in 1 .. Len(queue) /\ EndsAt(j + d, s)
      BY <1>1, <1>2, <2>3 DEF Moves
    <3>2. j + d = i
      BY <2>1, <3>1
    <3>3. QED
      BY <1>1, <3>2 DEF Moves
  <2>4. QED
    BY <2>2, <2>3 DEF OneEnd
<1>6. QED
  BY <1>4, <1>5

\* The ends of s, if any, are popped, and the events pushed hold none.
LEMMA LastEnd ==
  ASSUME TypeInv, NEW d, NEW evs, Moves(d, evs), NEW s \in Sock,
         \A k \in 1 .. Len(queue) : EndsAt(k, s) => k <= d,
         \A i \in 1 .. Len(evs) : ~(IsDeath(evs[i]) /\ evs[i].poSock = s)
  PROVE  NoEnd(s)'
<1>1. Len(queue) \in Nat /\ Len(evs) \in Nat
  BY LenProperties DEF TypeInv, Moves
<1>2. ASSUME NEW k \in 1 .. Len(queue'), EndsAt(k, s)' PROVE FALSE
  <2>1. CASE k <= Len(queue) - d
    <3>1. k + d \in 1 .. Len(queue) /\ queue'[k] = queue[k + d] /\ ~(k + d <= d)
      BY <1>1, <2>1 DEF Moves
    <3>2. QED
      BY <1>2, <3>1 DEF EndsAt, IsDeath
  <2>2. CASE ~(k <= Len(queue) - d)
    <3>1. /\ k - (Len(queue) - d) \in 1 .. Len(evs)
          /\ queue'[Len(queue) - d + (k - (Len(queue) - d))] = evs[k - (Len(queue) - d)]
          /\ Len(queue) - d + (k - (Len(queue) - d)) = k
      BY <1>1, <2>2 DEF Moves
    <3>2. QED
      BY <1>2, <3>1 DEF EndsAt, IsDeath
  <2>3. QED
    BY <2>1, <2>2
<1>3. QED
  BY <1>2 DEF NoEnd

\* The ends of s, if any, are popped, and the n-th event pushed is the one for l.
LEMMA NewEnd ==
  ASSUME TypeInv, NEW d, NEW evs, Moves(d, evs), NEW s \in Sock, NEW l,
         \A k \in 1 .. Len(queue) : EndsAt(k, s) => k <= d,
         NEW n \in 1 .. Len(evs),
         IsDeath(evs[n]) /\ evs[n].poSock = s /\ evs[n].link = l,
         \A i \in 1 .. Len(evs) : IsDeath(evs[i]) /\ evs[i].poSock = s => i = n
  PROVE  OneEnd(s, l)' /\ ~NoEnd(s)'
<1>1. Len(queue) \in Nat /\ Len(evs) \in Nat
  BY LenProperties DEF TypeInv, Moves
<1>2. PICK m \in 1 .. Len(queue') : m = Len(queue) - d + n /\ queue'[m] = evs[n]
  BY <1>1 DEF Moves
<1>3. EndsAt(m, s)' /\ queue'[m].link = l
  BY <1>2 DEF EndsAt, IsDeath
<1>4. ASSUME NEW k \in 1 .. Len(queue'), EndsAt(k, s)' PROVE k = m
  <2>1. CASE k <= Len(queue) - d
    <3>1. k + d \in 1 .. Len(queue) /\ queue'[k] = queue[k + d] /\ ~(k + d <= d)
      BY <1>1, <2>1 DEF Moves
    <3>2. QED
      BY <1>4, <3>1 DEF EndsAt, IsDeath
  <2>2. CASE ~(k <= Len(queue) - d)
    <3>1. /\ k - (Len(queue) - d) \in 1 .. Len(evs)
          /\ queue'[Len(queue) - d + (k - (Len(queue) - d))] = evs[k - (Len(queue) - d)]
          /\ Len(queue) - d + (k - (Len(queue) - d)) = k
      BY <1>1, <2>2 DEF Moves
    <3>2. k - (Len(queue) - d) = n
      BY <1>4, <3>1 DEF EndsAt, IsDeath
    <3>3. QED
      BY <1>1, <1>2, <3>1, <3>2 DEF Moves
  <2>3. QED
    BY <2>1, <2>2
<1>5. OneEnd(s, l)'
  BY <1>2, <1>3, <1>4 DEF OneEnd
<1>6. ~NoEnd(s)'
  BY <1>2, <1>3 DEF NoEnd
<1>7. QED
  BY <1>5, <1>6

-----------------------------------------------------------------------------
(* Objects                                                                  *)

\* Nothing happens to object s.
LEMMA ObjectKept ==
  ASSUME TypeInv, NEW d, NEW evs, Moves(d, evs), NEW s \in Sock, ObjOK(s),
         d = 1 => ~EndsAt(1, s),
         \A i \in 1 .. Len(evs) : ~(IsDeath(evs[i]) /\ evs[i].poSock = s),
         hSock'[s] = hSock[s], state'[s] = state[s], conn'[s] = conn[s],
         s \in free' <=> s \in free,
         connecting = s => connecting' = s \/ hSock[s] # INVALID_SOCKET
  PROVE  ObjOK(s)'
<1>1. (NoEnd(s) <=> NoEnd(s)') /\ (OneEnd(s, conn[s]) => OneEnd(s, conn[s])')
  <2>1. PICK l : l = conn[s]
    OBVIOUS
  <2>2. (NoEnd(s) <=> NoEnd(s)') /\ (OneEnd(s, l) => OneEnd(s, l)')
    BY KeepEnds
  <2>3. QED
    BY <2>1, <2>2 DEF OneEnd
<1>2. QED
  BY <1>1 DEF ObjOK

LEMMA EventType ==
  ASSUME NEW s \in Sock, NEW type \in EventTypes, NEW l \in Link \cup {NoLink}
  PROVE  /\ Event(s, type, l) \in Ev /\ Event(s, type, l).poSock = s
         /\ Event(s, type, l).eType = type /\ Event(s, type, l).link = l
BY DEF Event, Ev

\* What Close does to the queue.
LEMMA CloseMoves ==
  ASSUME TypeInv, NEW s \in Sock, NEW d, NEW q, NEW evs \in Seq(Ev),
         (d = 0 /\ q = queue) \/ (d = 1 /\ queue # <<>> /\ q = Tail(queue)),
         Close(s, q, evs)
  PROVE  /\ CloseIsDone(s) => Moves(d, evs)
         /\ ~CloseIsDone(s) => Moves(d, evs \o <<Event(s, "TERMINATE", conn[s])>>)
<1> DEFINE t == Event(s, "TERMINATE", conn[s])
<1>1. t \in Ev /\ <<t>> \in Seq(Ev)
  BY EventType DEF TypeInv, EventTypes
<1>2. q \in Seq(Ev)
  <2>1. queue \in Seq(Ev)
    BY DEF TypeInv
  <2>2. QED
    BY <2>1, HeadTailProperties
<1> HIDE DEF t
<1>3. evs \o <<t>> \in Seq(Ev) /\ (q \o evs) \o <<t>> = q \o (evs \o <<t>>)
  BY <1>1, <1>2, ConcatProperties, ConcatAssociative
<1>4. CASE CloseIsDone(s)
  <2>1. queue' = q \o evs
    BY <1>4 DEF Close
  <2>2. QED
    BY <1>4, <2>1, MovesConcat, MovesTail
<1>5. CASE ~CloseIsDone(s)
  <2>1. queue' = q \o (evs \o <<t>>)
    BY <1>3, <1>5 DEF Close, t
  <2>2. Moves(d, evs \o <<t>>)
    BY <1>3, <2>1, MovesConcat, MovesTail
  <2>3. QED
    BY <1>5, <2>2 DEF t
<1>6. QED
  BY <1>4, <1>5

\* Close gives its object the one end it needs, and no other object any.
LEMMA CloseObjects ==
  ASSUME TypeInv, ObjectInv, NEW c \in Sock, NEW d, NEW q, NEW evs \in Seq(Ev),
         (d = 0 /\ q = queue) \/ (d = 1 /\ queue # <<>> /\ q = Tail(queue)),
         d = 1 => ~IsDeath(queue[1]),
         \A i \in 1 .. Len(evs) : ~IsDeath(evs[i]),
         Close(c, q, evs), UNCHANGED <<free, conn, reused>>,
         connecting' = connecting \/ connecting = c
  PROVE  ObjectInv'
<1> SUFFICES ASSUME NEW s \in Sock \ reused PROVE ObjOK(s)'
  BY DEF ObjectInv
<1>1. ObjOK(s) /\ s \in Sock /\ (d = 1 => ~EndsAt(1, s))
  BY DEF ObjectInv, EndsAt
<1>2. Len(evs) \in Nat /\ conn[c] \in Link \cup {NoLink}
  BY LenProperties DEF TypeInv
<1>3. CASE CloseIsDone(c)
  <2>1. Moves(d, evs) /\ hSock' = hSock
    BY <1>3, CloseMoves DEF Close
  <2>2. (NoEnd(s) <=> NoEnd(s)') /\ (OneEnd(s, conn[s]) => OneEnd(s, conn[s])')
    <3>1. PICK l : l = conn[s]
      OBVIOUS
    <3>2. (NoEnd(s) <=> NoEnd(s)') /\ (OneEnd(s, l) => OneEnd(s, l)')
      BY <1>1, <2>1, KeepEnds
    <3>3. QED
      BY <3>1, <3>2 DEF OneEnd
  <2>3. CASE s = c
    <3>1. CASE IsConnected(c)
      <4>1. state'[s] = "CLOSE"
        BY <2>3, <3>1 DEF Close, TypeInv
      <4>2. state[s] = "ESTABLISH"
        BY <2>3, <3>1 DEF IsConnected
      <4>3. hSock[s] = INVALID_SOCKET
        BY <1>3, <2>3, <4>2 DEF CloseIsDone
      <4>4. QED
        BY <1>1, <2>1, <2>2, <4>1, <4>2, <4>3 DEF ObjOK
    <3>2. CASE ~IsConnected(c)
      <4>1. state' = state
        BY <3>2 DEF Close
      <4>2. ~(state[s] = "ESTABLISH")
        BY <2>3, <3>2 DEF IsConnected
      <4>3. QED
        BY <1>1, <2>1, <2>2, <4>1, <4>2 DEF ObjOK
    <3>3. QED
      BY <3>1, <3>2
  <2>4. CASE s # c
    <3>1. state'[s] = state[s]
      BY <2>4 DEF Close, TypeInv
    <3>2. QED
      BY <1>1, <2>1, <2>2, <2>4, <3>1 DEF ObjOK
  <2>5. QED
    BY <2>3, <2>4
<1>4. CASE ~CloseIsDone(c)
  <2> DEFINE t == Event(c, "TERMINATE", conn[c])
             more == evs \o <<t>>
  <2>1. /\ Moves(d, more)
        /\ hSock' = [hSock EXCEPT ![c] = INVALID_SOCKET]
        /\ hSock[c] # INVALID_SOCKET
    BY <1>4, CloseMoves DEF Close, CloseIsDone
  <2>2. /\ t \in Ev /\ t.poSock = c /\ t.link = conn[c] /\ IsDeath(t)
    BY <1>2, EventType DEF EventTypes, IsDeath
  <2> HIDE DEF t
  <2>3. /\ Len(more) = Len(evs) + 1 /\ more[Len(evs) + 1] = t
        /\ \A i \in 1 .. Len(evs) : more[i] = evs[i]
    BY <1>2, <2>2
  <2> HIDE DEF more
  <2>4. CASE s = c
    <3>1. NoEnd(s) /\ s \notin free
      BY <1>1, <2>1, <2>4 DEF ObjOK
    <3>2. PICK l : l = conn[c]
      OBVIOUS
    <3>3. OneEnd(s, l)' /\ ~NoEnd(s)'
      <4>1. \A k \in 1 .. Len(queue) : EndsAt(k, s) => k <= d
        BY <3>1 DEF NoEnd
      <4>2. PICK n : n = Len(evs) + 1
        OBVIOUS
      <4>3. n \in 1 .. Len(more) /\ IsDeath(more[n]) /\ more[n].poSock = s
              /\ more[n].link = l
        BY <1>2, <2>2, <2>3, <2>4, <3>2, <4>2
      <4>4. \A i \in 1 .. Len(more) : IsDeath(more[i]) /\ more[i].poSock = s => i = n
        <5> SUFFICES ASSUME NEW i \in 1 .. Len(more), i # n PROVE ~IsDeath(more[i])
          OBVIOUS
        <5>1. i \in 1 .. Len(evs)
          BY <1>2, <2>3, <4>2
        <5>2. QED
          BY <2>3, <5>1
      <4>5. QED
        BY <2>1, <4>1, <4>3, <4>4, NewEnd
    <3>4. OneEnd(s, conn[s])'
      BY <2>4, <3>2, <3>3 DEF OneEnd
    <3>5. state'[s] # "ESTABLISH" /\ hSock'[s] = INVALID_SOCKET
      BY <2>1, <2>4 DEF Close, IsConnected, TypeInv
    <3>6. QED
      BY <3>1, <3>3, <3>4, <3>5 DEF ObjOK
  <2>5. CASE s # c
    <3>1. hSock'[s] = hSock[s] /\ state'[s] = state[s]
      BY <2>1, <2>5 DEF Close, TypeInv
    <3>2. \A i \in 1 .. Len(more) : ~(IsDeath(more[i]) /\ more[i].poSock = s)
      <4> SUFFICES ASSUME NEW i \in 1 .. Len(more)
                   PROVE  ~(IsDeath(more[i]) /\ more[i].poSock = s)
        OBVIOUS
      <4>1. i \in 1 .. Len(evs) \/ i = Len(evs) + 1
        BY <1>2, <2>3
      <4>2. QED
        BY <2>2, <2>3, <2>5, <4>1
    <3>3. QED
      BY <1>1, <2>1, <2>5, <3>1, <3>2, ObjectKept
  <2>6. QED
    BY <2>4, <2>5
<1>5. QED
  BY <1>3, <1>4

-----------------------------------------------------------------------------
(* Types and pointers                                                       *)

\* The event that Run takes.
LEMMA HeadType ==
  ASSUME TypeInv, queue # <<>>
  PROVE  /\ Head(queue) \in Ev /\ Head(queue) = queue[1] /\ Len(queue) \in Nat \ {0}
         /\ EventSock \in Sock /\ EventConn \in Link \cup {NoLink}
         /\ Tail(queue) \in Seq(Ev)
<1>1. queue \in Seq(Ev) /\ conn \in [Sock -> Link \cup {NoLink}]
  BY DEF TypeInv
<1>2. /\ Head(queue) \in Ev /\ Head(queue) = queue[1] /\ Len(queue) \in Nat \ {0}
      /\ Tail(queue) \in Seq(Ev)
  BY <1>1, HeadTailProperties, LenProperties, EmptySeq
<1>3. Head(queue).poSock \in Sock
  BY <1>2 DEF Ev
<1>4. QED
  BY <1>1, <1>2, <1>3 DEF EventSock, EventConn

LEMMA CloseTypes ==
  ASSUME TypeInv, NEW s \in Sock, NEW q \in Seq(Ev), NEW evs \in Seq(Ev),
         Close(s, q, evs)
  PROVE  /\ state' \in [Sock -> SockStates]
         /\ hSock' \in [Sock -> Fd \cup {INVALID_SOCKET}]
         /\ open' \subseteq Fd
         /\ epoll' \subseteq [fd : Fd, sock : Sock]
         /\ queue' \in Seq(Ev)
<1>1. Event(s, "TERMINATE", conn[s]) \in Ev
  BY EventType DEF TypeInv, EventTypes
<1>2. queue' \in Seq(Ev)
  <2>1. q \o evs \in Seq(Ev) /\ (q \o evs) \o <<Event(s, "TERMINATE", conn[s])>> \in Seq(Ev)
    BY <1>1, ConcatProperties
  <2>2. QED
    BY <2>1 DEF Close
<1>3. QED
  BY <1>2 DEF Close, TypeInv, SockStates

LEMMA BeginTypes ==
  ASSUME TypeInv, NEW s \in Sock, NEW l \in Link, NEW q \in Seq(Ev),
         BeginConnect(s, l, q)
  PROVE  /\ state' \in [Sock -> SockStates]
         /\ hSock' \in [Sock -> Fd \cup {INVALID_SOCKET}]
         /\ open' \subseteq Fd
         /\ epoll' \subseteq [fd : Fd, sock : Sock]
         /\ queue' \in Seq(Ev)
         /\ at' \in [Threads -> {"idle", "associate", "establish", "undo", "connect"}]
         /\ arg' \in [Threads -> Work]
         /\ \A t \in Threads : at'[t] # "idle" => arg'[t].sock \in Sock /\ arg'[t].link \in Link
         /\ nFd' \in 0 .. MaxFds
<1>1. Event(s, "TERMINATE", l) \in Ev /\ Event(s, "ERROR", l) \in Ev
  BY EventType DEF EventTypes
<1>2. queue' \in Seq(Ev)
  <2>1. q \o <<Event(s, "ERROR", l), Event(s, "TERMINATE", l), Event(s, "ERROR", l)>> \in Seq(Ev)
    BY <1>1, ConcatProperties
  <2>2. Append(q, Event(s, "ERROR", l)) \in Seq(Ev)
    BY <1>1
  <2>3. QED
    BY <2>1, <2>2 DEF BeginConnect
<1>3. CASE nFd < MaxFds /\ nFd' = nFd + 1
  <2>1. nFd + 1 \in Fd /\ nFd' \in 0 .. MaxFds
    BY <1>3, LifecycleAssumption DEF TypeInv, Fd
  <2>2. state' \in [Sock -> SockStates] /\ hSock' \in [Sock -> Fd \cup {INVALID_SOCKET}]
    <3>1. nFd' # nFd
      BY <1>3 DEF TypeInv
    <3>2. /\ hSock' = [hSock EXCEPT ![s] = nFd + 1]
          /\ state' = [state EXCEPT ![s] = "CONNECT"]
      BY <3>1 DEF BeginConnect
    <3>3. QED
      BY <2>1, <3>2 DEF TypeInv, SockStates
  <2>3. open' \subseteq Fd /\ epoll' \subseteq [fd : Fd, sock : Sock]
    BY <1>3, <2>1 DEF BeginConnect, TypeInv
  <2>4. /\ at' \in [Threads -> {"idle", "associate", "establish", "undo", "connect"}]
        /\ arg' \in [Threads -> Work]
        /\ \A t \in Threads : at'[t] # "idle" => arg'[t].sock \in Sock /\ arg'[t].link \in Link
    BY <1>3, <2>1, SMTT(60) DEF BeginConnect, TypeInv, Threads, NoLink, Work
  <2>5. QED
    BY <1>2, <2>1, <2>2, <2>3, <2>4
<1>4. CASE UNCHANGED <<nFd, hSock, open, epoll, at, arg>>
  <2>1. state' \in [Sock -> SockStates]
    BY <1>4 DEF BeginConnect, TypeInv, SockStates
  <2>2. QED
    BY <1>2, <1>4, <2>1 DEF TypeInv
<1>5. QED
  BY <1>3, <1>4 DEF BeginConnect

LEMMA TellTypes ==
  ASSUME TypeInv, NEW l \in Link, NEW calls \in Seq(Calls),
         Tell(l, calls) \/ TellError(l)
  PROVE  told' \in [Link -> Seq(Calls)]
<1>1. told \in [Link -> Seq(Calls)] /\ told[l] \in Seq(Calls)
  BY DEF TypeInv
<1>2. told[l] \o calls \in Seq(Calls)
  BY <1>1, ConcatProperties
<1>3. Append(told[l], "OnError") \in Seq(Calls)
  BY <1>1 DEF Calls
<1>4. QED
  BY <1>1, <1>2, <1>3 DEF Tell, TellError

LEMMA TypeStep == TypeInv /\ Next => TypeInv'
<1> SUFFICES ASSUME TypeInv, Next PROVE TypeInv'
  OBVIOUS
<1>1. queue \in Seq(Ev) /\ conn \in [Sock -> Link \cup {NoLink}]
  BY DEF TypeInv
<1>2. /\ \A e \in Ev : Append(queue, e) \in Seq(Ev)
      /\ \A evs \in Seq(Ev) : queue \o evs \in Seq(Ev)
  BY <1>1, ConcatProperties
<1>3. \A t \in Threads : at[t] # "idle" =>
        /\ arg[t].sock \in Sock /\ arg[t].link \in Link
        /\ \A type \in EventTypes : Event(arg[t].sock, type, arg[t].link) \in Ev
  BY EventType DEF TypeInv
<1>4. \A s \in Sock, type \in EventTypes : Event(s, type, conn[s]) \in Ev
  BY <1>1, EventType
<1>5. CASE OnAccept
  <2>1. PICK s \in free : /\ free' = free \ {s}
           /\ conn' = [conn EXCEPT ![s] = nLink + 1]
           /\ m_poSock' = [m_poSock EXCEPT ![nLink + 1] = s]
           /\ nLink' = nLink + 1 /\ nFd' = nFd + 1
           /\ arg' = [arg EXCEPT !["accept"] =
                         [sock |-> s, link |-> nLink + 1, fd |-> nFd + 1]]
           /\ \/ /\ state' = [state EXCEPT ![s] = "ESTABLISH"]
                 /\ hSock' = [hSock EXCEPT ![s] = nFd + 1]
                 /\ open' = open \cup {nFd + 1}
                 /\ epoll' = epoll \cup {[fd |-> nFd + 1, sock |-> s]}
                 /\ at' = [at EXCEPT !["accept"] = "associate"]
                 /\ UNCHANGED queue
              \/ /\ state' = [state EXCEPT ![s] = "CLOSE"]
                 /\ queue' = queue \o <<Event(s, "ERROR", nLink + 1),
                                        Event(s, "TERMINATE", nLink + 1)>>
                 /\ at' = [at EXCEPT !["accept"] = "undo"]
                 /\ UNCHANGED <<hSock, open, epoll>>
    BY <1>5 DEF OnAccept
  <2>2. /\ nLink + 1 \in Link /\ nFd + 1 \in Fd /\ nLink' \in 0 .. MaxLinks
        /\ nFd' \in 0 .. MaxFds /\ s \in Sock
    BY <1>5, <2>1, LifecycleAssumption DEF OnAccept, TypeInv, Link, Fd
  <2>3. queue' \in Seq(Ev)
    <3>1. Event(s, "ERROR", nLink + 1) \in Ev /\ Event(s, "TERMINATE", nLink + 1) \in Ev
      BY <2>2, EventType DEF EventTypes
    <3>2. <<Event(s, "ERROR", nLink + 1), Event(s, "TERMINATE", nLink + 1)>> \in Seq(Ev)
      BY <3>1
    <3>3. QED
      BY <1>1, <1>2, <2>1, <3>2
  <2>4. /\ free' \subseteq Sock /\ conn' \in [Sock -> Link \cup {NoLink}]
        /\ m_poSock' \in [Link -> Sock \cup {NoSock}]
        /\ state' \in [Sock -> SockStates]
    BY <2>1, <2>2 DEF TypeInv, SockStates
  <2>5. /\ hSock' \in [Sock -> Fd \cup {INVALID_SOCKET}]
        /\ open' \subseteq Fd /\ epoll' \subseteq [fd : Fd, sock : Sock]
    <3>1. [fd |-> nFd + 1, sock |-> s] \in [fd : Fd, sock : Sock]
      BY <2>2
    <3>2. CASE hSock' = hSock /\ open' = open /\ epoll' = epoll
      BY <3>2 DEF TypeInv
    <3>3. CASE /\ hSock' = [hSock EXCEPT ![s] = nFd + 1]
               /\ open' = open \cup {nFd + 1}
               /\ epoll' = epoll \cup {[fd |-> nFd + 1, sock |-> s]}
      BY <2>2, <3>1, <3>3 DEF TypeInv
    <3>4. QED
      BY <2>1, <3>2, <3>3
  <2>6. /\ at' \in [Threads -> {"idle", "associate", "establish", "undo", "connect"}]
        /\ arg' \in [Threads -> Work]
        /\ \A t \in Threads : at'[t] # "idle" => arg'[t].sock \in Sock /\ arg'[t].link \in Link
    BY <2>1, <2>2 DEF TypeInv, Threads, Work
  <2>7. QED
    BY <1>5, <2>2, <2>3, <2>4, <2>5, <2>6 DEF OnAccept, TypeInv, ioVars
<1>6. CASE PushAssociate \/ PushEstablish \/ PushAssociateMain
  <2>1. queue' \in Seq(Ev)
    BY <1>2, <1>3, <1>6 DEF PushAssociate, PushEstablish, PushAssociateMain, Threads, EventTypes
  <2>2. /\ at' \in [Threads -> {"idle", "associate", "establish", "undo", "connect"}]
        /\ \A t \in Threads : at'[t] # "idle" => arg'[t].sock \in Sock /\ arg'[t].link \in Link
    BY <1>6 DEF PushAssociate, PushEstablish, PushAssociateMain, TypeInv, Threads
  <2>3. QED
    BY <1>6, <2>1, <2>2 DEF PushAssociate, PushEstablish, PushAssociateMain, TypeInv,
       sockVars, connVars, ioVars, counters
<1>7. CASE UndoAccept
  <2>1. arg["accept"].sock \in Sock /\ arg["accept"].link \in Link
    BY <1>3, <1>7 DEF UndoAccept, Threads
  <2>2. told' \in [Link -> Seq(Calls)]
    <3>1. <<"Release">> \in Seq(Calls)
      BY DEF Calls
    <3>2. QED
      BY <1>7, <2>1, <3>1, TellTypes DEF UndoAccept
  <2>3. /\ conn' \in [Sock -> Link \cup {NoLink}] /\ state' \in [Sock -> SockStates]
        /\ hSock' \in [Sock -> Fd \cup {INVALID_SOCKET}]
        /\ free' \subseteq Sock /\ reused' \subseteq Sock
    BY <1>7, <2>1 DEF UndoAccept, SockRelease, TypeInv, SockStates
  <2>4. m_poSock' \in [Link -> Sock \cup {NoSock}]
    BY <1>7, <2>1 DEF UndoAccept, TypeInv
  <2>5. /\ at' \in [Threads -> {"idle", "associate", "establish", "undo", "connect"}]
        /\ \A t \in Threads : at'[t] # "idle" => arg'[t].sock \in Sock /\ arg'[t].link \in Link
    BY <1>7 DEF UndoAccept, TypeInv, Threads
  <2>6. open' \subseteq Fd /\ epoll' \subseteq [fd : Fd, sock : Sock]
    BY <1>7 DEF UndoAccept, TypeInv
  <2>7. /\ UNCHANGED <<m_nConnStat, queue, delayed, ready, connecting, arg>>
        /\ UNCHANGED <<nLink, nFd, nRecv, early>>
    BY <1>7 DEF UndoAccept, ioVars, counters
  <2>8. QED
    BY <2>2, <2>3, <2>4, <2>5, <2>6, <2>7 DEF TypeInv
<1>8. CASE TcpConnect
  <2>1. PICK s \in free : /\ free' = free \ {s}
           /\ conn' = [conn EXCEPT ![s] = nLink + 1]
           /\ m_poSock' = [m_poSock EXCEPT ![nLink + 1] = s]
           /\ m_nConnStat' = [m_nConnStat EXCEPT ![nLink + 1] = "CONN"]
           /\ nLink' = nLink + 1
           /\ BeginConnect(s, nLink + 1, queue)
    BY <1>8 DEF TcpConnect
  <2>2. nLink + 1 \in Link /\ nLink' \in 0 .. MaxLinks /\ s \in Sock
    BY <1>8, <2>1, LifecycleAssumption DEF TcpConnect, TypeInv, Link
  <2>3. /\ free' \subseteq Sock /\ conn' \in [Sock -> Link \cup {NoLink}]
        /\ m_poSock' \in [Link -> Sock \cup {NoSock}]
        /\ m_nConnStat' \in [Link -> ConnStats]
    BY <2>1, <2>2 DEF TypeInv, ConnStats
  <2>4. QED
    BY <1>1, <1>8, <2>1, <2>2, <2>3, BeginTypes DEF TcpConnect, TypeInv, ioVars
<1>9. CASE EndConnect
  <2>1. arg["main"].sock \in Sock /\ <<Event(arg["main"].sock, "CONN_ERR", arg["main"].link)>> \in Seq(Ev)
    BY <1>3, <1>9 DEF EndConnect, Threads, EventTypes
  <2>2. /\ state' \in [Sock -> SockStates]
        /\ hSock' \in [Sock -> Fd \cup {INVALID_SOCKET}]
        /\ open' \subseteq Fd
        /\ epoll' \subseteq [fd : Fd, sock : Sock]
        /\ queue' \in Seq(Ev)
    <3>1. CASE UNCHANGED <<state, hSock, open, epoll, queue>>
      BY <3>1 DEF TypeInv
    <3>2. CASE Close(arg["main"].sock, queue,
                     <<Event(arg["main"].sock, "CONN_ERR", arg["main"].link)>>)
      BY <1>1, <2>1, <3>2, CloseTypes
    <3>3. QED
      BY <1>9, <3>1, <3>2 DEF EndConnect
  <2>3. /\ at' \in [Threads -> {"idle", "associate", "establish", "undo", "connect"}]
        /\ \A t \in Threads : at'[t] # "idle" => arg'[t].sock \in Sock /\ arg'[t].link \in Link
    BY <1>9 DEF EndConnect, TypeInv, Threads
  <2>4. QED
    BY <1>9, <2>2, <2>3 DEF EndConnect, TypeInv, connVars, ioVars, counters
<1>10. ASSUME NEW l \in Link, SessionClose(l) PROVE TypeInv'
  <2>1. m_nConnStat' \in [Link -> ConnStats]
    BY <1>10 DEF SessionClose, TypeInv, ConnStats
  <2>2. delayed' \in Seq([sock : Sock, link : Link])
    <3>1. [sock |-> m_poSock[l], link |-> l] \in [sock : Sock, link : Link]
      BY <1>10 DEF SessionClose, TypeInv
    <3>2. QED
      BY <1>10, <3>1 DEF SessionClose, TypeInv
  <2>3. QED
    BY <1>10, <2>1, <2>2 DEF SessionClose, TypeInv, sockVars, ioVars, threadVars, counters
<1>11. ASSUME NEW l \in Link, Reconnect(l) PROVE TypeInv'
  <2>1. m_nConnStat' \in [Link -> ConnStats] /\ m_poSock[l] \in Sock
    BY <1>11 DEF Reconnect, TypeInv, ConnStats
  <2>2. Close(m_poSock[l], queue, <<>>) /\ <<>> \in Seq(Ev)
    BY <1>11 DEF Reconnect
  <2>3. QED
    BY <1>1, <1>11, <2>1, <2>2, CloseTypes DEF Reconnect, TypeInv, ioVars, threadVars, counters
<1>12. CASE DrainDelayClose
  <2>1. Head(delayed).sock \in Sock /\ delayed' \in Seq([sock : Sock, link : Link])
    <3>1. delayed \in Seq([sock : Sock, link : Link]) /\ delayed # <<>>
      BY <1>12 DEF DrainDelayClose, TypeInv
    <3>2. Head(delayed) \in [sock : Sock, link : Link]
            /\ Tail(delayed) \in Seq([sock : Sock, link : Link])
      BY <3>1, HeadTailProperties
    <3>3. QED
      BY <1>12, <3>2 DEF DrainDelayClose
  <2>2. Close(Head(delayed).sock, queue, <<>>) /\ <<>> \in Seq(Ev)
    BY <1>12 DEF DrainDelayClose
  <2>3. QED
    BY <1>1, <1>12, <2>1, <2>2, CloseTypes
       DEF DrainDelayClose, TypeInv, connVars, ioVars, threadVars, counters
<1>13. CASE WaitEvents
  <2>1. ready' \subseteq Sock
    BY <1>13 DEF WaitEvents, TypeInv
  <2>2. QED
    BY <1>13, <2>1 DEF WaitEvents, TypeInv, sockVars, connVars, threadVars, counters
<1>14. ASSUME NEW s \in Sock, OnRecv(s) PROVE TypeInv'
  <2>1. queue' \in Seq(Ev)
    BY <1>2, <1>4, <1>14 DEF OnRecv, EventTypes
  <2>2. nRecv' \in [Link -> Nat] /\ ready' \subseteq Sock
    BY <1>14 DEF OnRecv, TypeInv
  <2>3. early' \subseteq Link \cup {NoLink}
    BY <1>14 DEF OnRecv, NoteEarly, TypeInv
  <2>4. QED
    BY <1>14, <2>1, <2>2, <2>3 DEF OnRecv, TypeInv, sockVars, connVars, threadVars
<1>15. ASSUME NEW s \in Sock, OnNothing(s) PROVE TypeInv'
  BY <1>15 DEF OnNothing, TypeInv, sockVars, connVars, threadVars, counters
<1>16. ASSUME NEW s \in Sock, OnIoError(s) PROVE TypeInv'
  <2>1. Close(s, queue, <<Event(s, "ERROR", conn[s])>>)
          /\ <<Event(s, "ERROR", conn[s])>> \in Seq(Ev)
    BY <1>4, <1>16 DEF OnIoError, EventTypes
  <2>2. ready' \subseteq Sock /\ early' \subseteq Link \cup {NoLink}
    BY <1>16 DEF OnIoError, NoteEarly, TypeInv
  <2>3. QED
    BY <1>1, <1>16, <2>1, <2>2, CloseTypes DEF OnIoError, TypeInv, connVars, threadVars, counters
<1>17. ASSUME NEW s \in Sock, OnConnect(s) PROVE TypeInv'
  <2>1. queue' \in Seq(Ev) /\ state' \in [Sock -> SockStates]
    <3>1. queue' \in Seq(Ev)
      BY <1>2, <1>4, <1>17 DEF OnConnect, EventTypes
    <3>2. QED
      BY <1>17, <3>1 DEF OnConnect, TypeInv, SockStates
  <2>2. ready' \subseteq Sock /\ early' \subseteq Link \cup {NoLink} /\ connecting' \in Sock
    BY <1>17 DEF OnConnect, NoteEarly, TypeInv
  <2>3. QED
    BY <1>17, <2>1, <2>2 DEF OnConnect, TypeInv, connVars, threadVars, counters
<1>18. CASE EndOnConnect
  <2>1. connecting \in Sock /\ <<Event(connecting, "ERROR", conn[connecting])>> \in Seq(Ev)
    <3>1. connecting \in Sock
      BY <1>18 DEF EndOnConnect, TypeInv
    <3>2. QED
      BY <1>4, <3>1 DEF EventTypes
  <2>2. /\ state' \in [Sock -> SockStates]
        /\ hSock' \in [Sock -> Fd \cup {INVALID_SOCKET}]
        /\ open' \subseteq Fd
        /\ epoll' \subseteq [fd : Fd, sock : Sock]
        /\ queue' \in Seq(Ev)
    <3>1. CASE UNCHANGED <<state, hSock, open, epoll, queue>>
      BY <3>1 DEF TypeInv
    <3>2. CASE Close(connecting, queue, <<Event(connecting, "ERROR", conn[connecting])>>)
      BY <1>1, <2>1, <3>2, CloseTypes
    <3>3. QED
      BY <1>18, <3>1, <3>2 DEF EndOnConnect
  <2>3. QED
    BY <1>18, <2>2 DEF EndOnConnect, TypeInv, connVars, threadVars, counters
<1>19. ASSUME NEW type, Runs(type), queue' = Tail(queue) PROVE queue' \in Seq(Ev) /\ EventSock \in Sock
         /\ EventConn \in Link \cup {NoLink}
  BY <1>19, HeadType DEF Runs
<1>20. CASE ProcAssociate
  <2>1. queue' = Tail(queue) /\ Runs("ASSOCIATE")
    BY <1>20 DEF ProcAssociate, Ignored
  <2>2. m_nConnStat' \in [Link -> ConnStats]
    BY <1>19, <1>20, <2>1 DEF ProcAssociate, Ignored, connVars, TypeInv, ConnStats
  <2>3. QED
    BY <1>19, <1>20, <2>1, <2>2 DEF ProcAssociate, Ignored, TypeInv, sockVars, connVars,
       ioVars, threadVars
<1>21. CASE ProcEstablish
  <2>1. queue' = Tail(queue) /\ Runs("ESTABLISH")
    BY <1>21 DEF ProcEstablish, Ignored
  <2>2. m_nConnStat' \in [Link -> ConnStats]
    BY <1>19, <1>21, <2>1 DEF ProcEstablish, Ignored, connVars, TypeInv, ConnStats
  <2>3. told' \in [Link -> Seq(Calls)]
    <3>1. <<"OnConnect">> \in Seq(Calls)
      BY DEF Calls
    <3>2. UNCHANGED told \/ (EventConn \in Link /\ Tell(EventConn, <<"OnConnect">>))
      BY <1>19, <1>21, <2>1 DEF ProcEstablish, Ignored, connVars
    <3>3. QED
      BY <3>1, <3>2, TellTypes DEF TypeInv
  <2>4. QED
    BY <1>19, <1>21, <2>1, <2>2, <2>3 DEF ProcEstablish, Ignored, TypeInv, sockVars, connVars,
       ioVars, threadVars
<1>22. ASSUME NEW type \in {"RECV", "ERROR"}, ProcToSession(type) PROVE TypeInv'
  <2>1. queue' = Tail(queue) /\ Runs(type)
    BY <1>22 DEF ProcToSession, Ignored
  <2>2. told' \in [Link -> Seq(Calls)]
    <3>1. <<"OnRecv">> \in Seq(Calls)
      BY DEF Calls
    <3>2. UNCHANGED told \/ (EventConn \in Link /\ (Tell(EventConn, <<"OnRecv">>) \/ TellError(EventConn)))
      BY <1>19, <1>22, <2>1 DEF ProcToSession, Ignored, connVars
    <3>3. QED
      BY <3>1, <3>2, TellTypes DEF TypeInv
  <2>3. QED
    BY <1>19, <1>22, <2>1, <2>2 DEF ProcToSession, Ignored, TypeInv, sockVars, connVars,
       ioVars, threadVars
<1>23. CASE ProcRecv
  <2>1. CASE ProcToSession("RECV")
    BY <1>22, <2>1
  <2>2. CASE ~ProcToSession("RECV")
    <3>1. /\ queue # <<>>
          /\ Close(EventSock, Tail(queue), <<Event(EventSock, "ERROR", EventConn)>>)
      BY <1>23, <2>2 DEF ProcRecv, Runs
    <3>2. /\ EventSock \in Sock /\ Tail(queue) \in Seq(Ev)
          /\ <<Event(EventSock, "ERROR", EventConn)>> \in Seq(Ev)
      BY <3>1, HeadType, EventType DEF EventTypes
    <3>3. QED
      BY <1>23, <2>2, <3>1, <3>2, CloseTypes
         DEF ProcRecv, TypeInv, connVars, ioVars, threadVars, counters
  <2>3. QED
    BY <2>1, <2>2
<1>24. CASE ProcConnectError
  <2>1. queue # <<>>
    BY <1>24 DEF ProcConnectError, Runs
  <2>2. EventSock \in Sock /\ EventConn \in Link \cup {NoLink} /\ Tail(queue) \in Seq(Ev)
    BY <2>1, HeadType
  <2>3. told' \in [Link -> Seq(Calls)]
    <3>1. UNCHANGED told \/ (EventConn \in Link /\ TellError(EventConn))
      BY <1>24, <2>2 DEF ProcConnectError, Ignored, connVars
    <3>2. <<>> \in Seq(Calls)
      OBVIOUS
    <3>3. QED
      BY <3>1, <3>2, TellTypes DEF TypeInv
  <2>4. CASE \/ Ignored
             \/ /\ queue' = Tail(queue)
                /\ UNCHANGED <<free, conn, m_nConnStat, m_poSock, state, hSock, open,
                               epoll, threadVars, nFd, reused>>
    BY <1>24, <2>2, <2>3, <2>4 DEF ProcConnectError, Ignored, TypeInv, sockVars,
       connVars, ioVars, threadVars
  <2>5. CASE /\ EventConn \in Reconnects /\ m_poSock[EventConn] # NoSock
             /\ EventConn # NoLink
             /\ BeginConnect(m_poSock[EventConn], EventConn, Tail(queue))
             /\ reused' = reused \cup {EventSock}
             /\ UNCHANGED <<free, conn, m_nConnStat, m_poSock>>
    <3>1. m_poSock[EventConn] \in Sock /\ EventConn \in Link /\ reused' \subseteq Sock
      BY <2>2, <2>5 DEF TypeInv
    <3>2. QED
      BY <1>24, <2>2, <2>3, <2>5, <3>1, BeginTypes DEF ProcConnectError, TypeInv, ioVars
  <2>6. QED
    BY <1>24, <2>2, <2>4, <2>5 DEF ProcConnectError
<1>25. CASE ProcTerminate
  <2>1. queue # <<>>
    BY <1>25 DEF ProcTerminate, Runs
  <2>2. [Head(queue) EXCEPT !.eType = "RELEASE"] \in Ev /\ Tail(queue) \in Seq(Ev)
    BY <2>1, HeadType DEF Ev, EventTypes
  <2>3. queue' \in Seq(Ev)
    BY <1>25, <2>2 DEF ProcTerminate
  <2>4. QED
    BY <1>25, <2>3 DEF ProcTerminate, TypeInv, sockVars, connVars, ioVars, threadVars, counters
<1>26. CASE ProcRelease
  <2>1. queue' = Tail(queue) /\ Runs("RELEASE")
    BY <1>26 DEF ProcRelease
  <2>2. EventSock \in Sock /\ EventConn \in Link \cup {NoLink} /\ queue' \in Seq(Ev)
    BY <1>19, <2>1
  <2>3. /\ conn' \in [Sock -> Link \cup {NoLink}] /\ state' \in [Sock -> SockStates]
        /\ hSock' \in [Sock -> Fd \cup {INVALID_SOCKET}]
        /\ free' \subseteq Sock
    BY <1>26, <2>2 DEF ProcRelease, SockRelease, TypeInv, SockStates
  <2>4. CASE EventConn = NoLink /\ UNCHANGED connVars
    BY <1>26, <2>2, <2>3, <2>4 DEF ProcRelease, TypeInv, connVars, ioVars, threadVars, counters
  <2>5. CASE EventConn # NoLink
    <3>1. /\ m_poSock' \in [Link -> Sock \cup {NoSock}]
          /\ m_nConnStat' \in [Link -> ConnStats]
      BY <1>26, <2>2, <2>5 DEF ProcRelease, TypeInv, ConnStats
    <3>2. told' \in [Link -> Seq(Calls)]
      <4>1. /\ <<"Release">> \in Seq(Calls) /\ <<"OnConnect", "OnClose", "Release">> \in Seq(Calls)
            /\ <<"OnClose", "Release">> \in Seq(Calls)
        BY DEF Calls
      <4>2. \E calls \in Seq(Calls) : Tell(EventConn, calls)
        BY <1>26, <2>5, <4>1 DEF ProcRelease
      <4>3. QED
        BY <2>2, <2>5, <4>2, TellTypes
    <3>3. QED
      BY <1>26, <2>2, <2>3, <3>1, <3>2 DEF ProcRelease, TypeInv, ioVars, threadVars, counters
  <2>6. QED
    BY <1>26, <2>4, <2>5 DEF ProcRelease
<1>27. QED
  BY <1>5, <1>6, <1>7, <1>8, <1>9, <1>10, <1>11, <1>12, <1>13, <1>14, <1>15, <1>16, <1>17,
     <1>18, <1>20, <1>21, <1>22, <1>23, <1>24, <1>25, <1>26
     DEF Next, Accept, Connect, HandleEvents, ProcEvent, ProcError

\* Only four operations give out or take back an object.
LEMMA PointersFrame ==
  ASSUME Next PROVE \/ OnAccept \/ TcpConnect \/ UndoAccept \/ ProcRelease
                    \/ UNCHANGED <<free, conn, m_poSock, nLink>>
<1>1. CASE PushAssociate \/ PushEstablish \/ Connect
  BY <1>1 DEF PushAssociate, PushEstablish, Connect, PushAssociateMain, EndConnect,
     sockVars, connVars, counters
<1>2. CASE \E l \in Link : SessionClose(l) \/ Reconnect(l)
  BY <1>2 DEF SessionClose, Reconnect, sockVars, counters
<1>3. CASE DrainDelayClose \/ WaitEvents \/ HandleEvents
  BY <1>3 DEF DrainDelayClose, WaitEvents, HandleEvents, EndOnConnect, OnRecv, OnNothing,
     OnIoError, OnConnect, sockVars, connVars, counters
<1>4. CASE ProcAssociate \/ ProcEstablish
  BY <1>4 DEF ProcAssociate, ProcEstablish, Ignored, sockVars, connVars
<1>5. CASE ProcRecv \/ ProcError \/ ProcConnectError \/ ProcTerminate
  BY <1>5 DEF ProcRecv, ProcError, ProcToSession, ProcConnectError, ProcTerminate, Ignored,
     sockVars, connVars, counters
<1>6. QED
  BY <1>1, <1>2, <1>3, <1>4, <1>5 DEF Next, Accept, ProcEvent

LEMMA PairingStep == TypeInv /\ Pairing /\ Next => Pairing'
<1> SUFFICES ASSUME TypeInv, Pairing, Next PROVE Pairing'
  OBVIOUS
<1>1. ASSUME NEW s \in free, nLink < MaxLinks, free' = free \ {s},
             conn' = [conn EXCEPT ![s] = nLink + 1],
             m_poSock' = [m_poSock EXCEPT ![nLink + 1] = s], nLink' = nLink + 1
      PROVE  Pairing'
  <2>1. nLink + 1 \in Link /\ s \in Sock /\ nLink \in Nat
    BY <1>1, LifecycleAssumption DEF TypeInv, Link
  <2>2. ASSUME NEW r \in Sock, conn'[r] # NoLink
        PROVE  conn'[r] <= nLink' /\ m_poSock'[conn'[r]] = r
    <3>1. CASE r = s
      BY <1>1, <2>1, <3>1 DEF TypeInv
    <3>2. CASE r # s
      <4>1. conn'[r] = conn[r] /\ conn[r] \in Link
        BY <1>1, <2>1, <2>2, <3>2 DEF TypeInv
      <4>2. conn[r] <= nLink /\ m_poSock[conn[r]] = r
        BY <2>2, <4>1 DEF Pairing
      <4>3. conn[r] # nLink + 1 /\ conn[r] <= nLink + 1
        BY <2>1, <4>1, <4>2 DEF Link
      <4>4. QED
        BY <1>1, <2>1, <4>1, <4>2, <4>3 DEF TypeInv
    <3>3. QED
      BY <3>1, <3>2
  <2>3. ASSUME NEW l \in Link, m_poSock'[l] # NoSock PROVE conn'[m_poSock'[l]] = l
    <3>1. CASE l = nLink + 1
      BY <1>1, <2>1, <3>1 DEF TypeInv
    <3>2. CASE l # nLink + 1
      <4>1. m_poSock'[l] = m_poSock[l] /\ m_poSock[l] \in Sock
        BY <1>1, <2>1, <2>3, <3>2 DEF TypeInv
      <4>2. conn[m_poSock[l]] = l
        BY <2>3, <4>1 DEF Pairing
      <4>3. m_poSock[l] # s
        BY <1>1, <4>2 DEF Pairing, Link, NoLink
      <4>4. QED
        BY <1>1, <2>1, <4>1, <4>2, <4>3 DEF TypeInv
    <3>3. QED
      BY <3>1, <3>2
  <2>4. \A r \in free' : conn'[r] = NoLink
    BY <1>1, <2>1 DEF Pairing, TypeInv
  <2>5. QED
    BY <2>2, <2>3, <2>4 DEF Pairing
<1>2. ASSUME NEW s \in Sock, UNCHANGED nLink, free' = free \cup {s},
             conn' = [conn EXCEPT ![s] = NoLink],
             m_poSock' = IF conn[s] = NoLink THEN m_poSock
                         ELSE [m_poSock EXCEPT ![conn[s]] = NoSock]
      PROVE  Pairing'
  <2>1. ASSUME NEW r \in Sock, conn'[r] # NoLink
        PROVE  conn'[r] <= nLink' /\ m_poSock'[conn'[r]] = r
    <3>1. r # s /\ conn'[r] = conn[r] /\ conn[r] \in Link
      BY <1>2, <2>1 DEF TypeInv
    <3>2. conn[r] <= nLink /\ m_poSock[conn[r]] = r
      BY <2>1, <3>1 DEF Pairing
    <3>3. conn[s] # NoLink => conn[s] # conn[r] /\ conn[s] \in Link
      BY <3>1, <3>2 DEF Pairing, TypeInv
    <3>4. QED
      BY <1>2, <3>1, <3>2, <3>3 DEF TypeInv
  <2>2. ASSUME NEW l \in Link, m_poSock'[l] # NoSock PROVE conn'[m_poSock'[l]] = l
    <3>1. /\ m_poSock'[l] = m_poSock[l] /\ m_poSock[l] \in Sock
          /\ conn[s] # NoLink => conn[s] # l
      BY <1>2, <2>2 DEF TypeInv
    <3>2. conn[m_poSock[l]] = l
      BY <2>2, <3>1 DEF Pairing
    <3>3. m_poSock[l] # s
      BY <3>1, <3>2 DEF Link, NoLink
    <3>4. QED
      BY <1>2, <3>1, <3>2, <3>3 DEF TypeInv
  <2>3. \A r \in free' : conn'[r] = NoLink
    BY <1>2 DEF Pairing, TypeInv
  <2>4. QED
    BY <2>1, <2>2, <2>3 DEF Pairing
<1>3. CASE OnAccept \/ TcpConnect
  BY <1>1, <1>3 DEF OnAccept, TcpConnect
<1>4. CASE UndoAccept
  <2>1. arg["accept"].sock \in Sock
    BY <1>4 DEF UndoAccept, TypeInv, Threads
  <2>2. QED
    BY <1>2, <1>4, <2>1 DEF UndoAccept, SockRelease, counters
<1>5. CASE ProcRelease
  <2>1. EventSock \in Sock
    BY <1>5, HeadType DEF ProcRelease, Runs
  <2>2. QED
    BY <1>2, <1>5, <2>1 DEF ProcRelease, SockRelease, counters, connVars, EventConn
<1>6. CASE UNCHANGED <<free, conn, m_poSock, nLink>>
  BY <1>6 DEF Pairing
<1>7. QED
  BY <1>3, <1>4, <1>5, <1>6, PointersFrame

\* Nothing happens to any object, and no end comes or goes.
LEMMA ObjectsKept ==
  ASSUME TypeInv, ObjectInv, NEW d, NEW evs, Moves(d, evs),
         d = 1 => ~IsDeath(queue[1]),
         \A i \in 1 .. Len(evs) : ~IsDeath(evs[i]),
         UNCHANGED <<free, conn, state, hSock, reused>>,
         \/ connecting' = connecting
         \/ hSock[connecting] # INVALID_SOCKET
  PROVE  ObjectInv'
<1> SUFFICES ASSUME NEW s \in Sock \ reused PROVE ObjOK(s)'
  BY DEF ObjectInv
<1>1. ObjOK(s) /\ s \in Sock /\ (d = 1 => ~EndsAt(1, s))
  BY DEF ObjectInv, EndsAt
<1>2. QED
  BY <1>1, ObjectKept

\* An object out of the pool: it is opened, or its socket() failed, or it is
\* given up at once with its one end pushed.
LEMMA ObjectTaken ==
  ASSUME TypeInv, ObjectInv, NEW c \in free, NEW evs, Moves(0, evs),
         free' = free \ {c}, NEW l, conn' = [conn EXCEPT ![c] = l],
         UNCHANGED <<reused, connecting>>,
         \A s \in Sock \ {c} : hSock'[s] = hSock[s] /\ state'[s] = state[s],
         \A i \in 1 .. Len(evs) : IsDeath(evs[i]) => evs[i].poSock = c,
         \/ /\ \A i \in 1 .. Len(evs) : ~IsDeath(evs[i])
            /\ \/ hSock'[c] # INVALID_SOCKET /\ state'[c] \in {"CONNECT", "ESTABLISH"}
               \/ hSock'[c] = INVALID_SOCKET /\ state'[c] = "INVALID"
         \/ /\ 2 \in 1 .. Len(evs) /\ IsDeath(evs[2]) /\ evs[2].link = l
            /\ \A i \in 1 .. Len(evs) : IsDeath(evs[i]) => i = 2
            /\ hSock'[c] = INVALID_SOCKET /\ state'[c] # "ESTABLISH"
  PROVE  ObjectInv'
<1> SUFFICES ASSUME NEW s \in Sock \ reused PROVE ObjOK(s)'
  BY DEF ObjectInv
<1>1. ObjOK(s) /\ s \in Sock /\ c \in Sock
  BY DEF ObjectInv, TypeInv
<1>2. CASE s = c
  <2>1. NoEnd(s) /\ s \notin free'
    BY <1>1, <1>2 DEF ObjOK
  <2>2. \A k \in 1 .. Len(queue) : EndsAt(k, s) => k <= 0
    BY <2>1 DEF NoEnd
  <2>3. CASE \A i \in 1 .. Len(evs) : ~IsDeath(evs[i])
    <3>1. NoEnd(s)'
      BY <1>1, <2>2, <2>3, LastEnd
    <3>2. \/ hSock'[c] # INVALID_SOCKET /\ state'[c] \in {"CONNECT", "ESTABLISH"}
          \/ hSock'[c] = INVALID_SOCKET /\ state'[c] = "INVALID"
      BY <2>3
    <3>3. QED
      BY <1>2, <2>1, <3>1, <3>2 DEF ObjOK
  <2>4. CASE ~(\A i \in 1 .. Len(evs) : ~IsDeath(evs[i]))
    <3>1. /\ 2 \in 1 .. Len(evs) /\ IsDeath(evs[2]) /\ evs[2].link = l
          /\ \A i \in 1 .. Len(evs) : IsDeath(evs[i]) => i = 2
          /\ hSock'[c] = INVALID_SOCKET /\ state'[c] # "ESTABLISH"
      BY <2>4
    <3>2. OneEnd(s, l)' /\ ~NoEnd(s)'
      BY <1>1, <1>2, <2>2, <3>1, NewEnd
    <3>3. conn'[s] = l
      BY <1>1, <1>2 DEF TypeInv
    <3>4. OneEnd(s, conn[s])'
      BY <3>2, <3>3 DEF OneEnd
    <3>5. QED
      BY <1>2, <2>1, <3>1, <3>2, <3>4 DEF ObjOK
  <2>5. QED
    BY <2>3, <2>4
<1>3. CASE s # c
  <2>1. /\ hSock'[s] = hSock[s] /\ state'[s] = state[s] /\ conn'[s] = conn[s]
        /\ s \in free' <=> s \in free
    BY <1>1, <1>3 DEF TypeInv
  <2>2. QED
    BY <1>1, <1>3, <2>1, ObjectKept
<1>4. QED
  BY <1>2, <1>3

\* Object c is excepted from now on; the other objects see nothing of it.
LEMMA ObjectExcepted ==
  ASSUME TypeInv, ObjectInv, NEW c \in Sock, NEW d, NEW evs, Moves(d, evs),
         d = 1 => ~IsDeath(queue[1]),
         \A i \in 1 .. Len(evs) : IsDeath(evs[i]) => evs[i].poSock = c,
         reused' = reused \cup {c}, UNCHANGED connecting,
         \A s \in Sock \ {c} : /\ hSock'[s] = hSock[s] /\ state'[s] = state[s]
                               /\ conn'[s] = conn[s] /\ (s \in free' <=> s \in free)
  PROVE  ObjectInv'
<1> SUFFICES ASSUME NEW s \in Sock \ reused, s # c PROVE ObjOK(s)'
  BY DEF ObjectInv
<1>1. ObjOK(s) /\ s \in Sock /\ (d = 1 => ~EndsAt(1, s))
  BY DEF ObjectInv, EndsAt
<1>2. QED
  BY <1>1, ObjectKept

\* An event that ends nothing.
LEMMA Harmless ==
  ASSUME NEW s, NEW type, NEW l, type \notin {"TERMINATE", "RELEASE"}
  PROVE  \A i \in 1 .. Len(<<Event(s, type, l)>>) : ~IsDeath(<<Event(s, type, l)>>[i])
BY DEF Event, IsDeath

\* What AddEvent pushes when epoll_ctl fails, in OnAccept and in Connect.
LEMMA AddFailed ==
  ASSUME TypeInv, NEW s \in Sock, NEW l \in Link, NEW evs,
         \/ evs = <<Event(s, "ERROR", l), Event(s, "TERMINATE", l)>>
         \/ evs = <<Event(s, "ERROR", l), Event(s, "TERMINATE", l), Event(s, "ERROR", l)>>
  PROVE  /\ evs \in Seq(Ev)
         /\ 2 \in 1 .. Len(evs) /\ IsDeath(evs[2]) /\ evs[2].link = l
         /\ \A i \in 1 .. Len(evs) : IsDeath(evs[i]) => i = 2 /\ evs[i].poSock = s
<1>1. /\ Event(s, "ERROR", l) \in Ev /\ ~IsDeath(Event(s, "ERROR", l))
      /\ Event(s, "TERMINATE", l) \in Ev /\ IsDeath(Event(s, "TERMINATE", l))
      /\ Event(s, "TERMINATE", l).link = l /\ Event(s, "TERMINATE", l).poSock = s
  BY DEF Event, Ev, IsDeath, EventTypes
<1>2. CASE evs = <<Event(s, "ERROR", l), Event(s, "TERMINATE", l)>>
  BY <1>1, <1>2
<1>3. CASE evs = <<Event(s, "ERROR", l), Event(s, "TERMINATE", l), Event(s, "ERROR", l)>>
  <2>1. /\ evs \in Seq(Ev) /\ Len(evs) = 3 /\ evs[1] = Event(s, "ERROR", l)
        /\ evs[2] = Event(s, "TERMINATE", l) /\ evs[3] = Event(s, "ERROR", l)
    BY <1>1, <1>3
  <2>2. \A i \in 1 .. Len(evs) : i = 1 \/ i = 2 \/ i = 3
    BY <2>1
  <2>3. QED
    BY <1>1, <2>1, <2>2
<1>4. QED
  BY <1>2, <1>3

LEMMA ObjectStep == TypeInv /\ Pairing /\ ObjectInv /\ Next => ObjectInv'
<1> SUFFICES ASSUME TypeInv, Pairing, ObjectInv, Next PROVE ObjectInv'
  OBVIOUS
<1>1. queue \in Seq(Ev) /\ conn \in [Sock -> Link \cup {NoLink}] /\ INVALID_SOCKET \notin Fd
  BY LifecycleAssumption DEF TypeInv, Fd, INVALID_SOCKET
<1>2. \A t \in Threads : at[t] # "idle" =>
        /\ arg[t].sock \in Sock /\ arg[t].link \in Link
        /\ \A type \in EventTypes : Event(arg[t].sock, type, arg[t].link) \in Ev
  BY EventType DEF TypeInv
<1>3. \A s \in Sock, type \in EventTypes : Event(s, type, conn[s]) \in Ev
  BY <1>1, EventType
<1>4. ASSUME NEW e \in Ev, ~IsDeath(e), queue' = Append(queue, e),
             UNCHANGED <<free, conn, state, hSock, reused, connecting>>
      PROVE  ObjectInv'
  <2>1. Moves(0, <<e>>) /\ \A i \in 1 .. Len(<<e>>) : ~IsDeath(<<e>>[i])
    BY <1>4, MovesAppend
  <2>2. QED
    BY <1>4, <2>1, ObjectsKept
<1>5. ASSUME UNCHANGED <<queue, free, conn, state, hSock, reused>>,
             \/ connecting' = connecting
             \/ hSock[connecting] # INVALID_SOCKET
      PROVE  ObjectInv'
  <2>1. Moves(0, <<>>) /\ \A i \in 1 .. Len(<<>>) : ~IsDeath(<<>>[i])
    BY <1>5, MovesNot
  <2>2. QED
    BY <1>5, <2>1, ObjectsKept
<1>6. ASSUME NEW type, Runs(type), type \notin {"TERMINATE", "RELEASE"},
             queue' = Tail(queue),
             UNCHANGED <<free, conn, state, hSock, reused, connecting>>
      PROVE  ObjectInv'
  <2>1. Moves(1, <<>>) /\ ~IsDeath(queue[1]) /\ \A i \in 1 .. Len(<<>>) : ~IsDeath(<<>>[i])
    BY <1>6, MovesPop, HeadType DEF Runs, IsDeath
  <2>2. QED
    BY <1>6, <2>1, ObjectsKept
<1>7. CASE OnAccept
  <2>1. PICK s \in free : /\ free' = free \ {s}
           /\ conn' = [conn EXCEPT ![s] = nLink + 1]
           /\ \/ /\ state' = [state EXCEPT ![s] = "ESTABLISH"]
                 /\ hSock' = [hSock EXCEPT ![s] = nFd + 1]
                 /\ UNCHANGED queue
              \/ /\ state' = [state EXCEPT ![s] = "CLOSE"]
                 /\ queue' = queue \o <<Event(s, "ERROR", nLink + 1),
                                        Event(s, "TERMINATE", nLink + 1)>>
                 /\ UNCHANGED hSock
    BY <1>7 DEF OnAccept
  <2>2. /\ nLink + 1 \in Link /\ nFd + 1 \in Fd /\ s \in Sock
        /\ UNCHANGED <<reused, connecting>>
    BY <1>7, <2>1, LifecycleAssumption DEF OnAccept, TypeInv, Link, Fd, ioVars
  <2>3. CASE /\ state' = [state EXCEPT ![s] = "ESTABLISH"]
             /\ hSock' = [hSock EXCEPT ![s] = nFd + 1]
             /\ UNCHANGED queue
    <3>1. Moves(0, <<>>) /\ \A i \in 1 .. Len(<<>>) : ~IsDeath(<<>>[i])
      BY <2>3, MovesNot
    <3>2. /\ hSock'[s] # INVALID_SOCKET /\ state'[s] = "ESTABLISH"
          /\ \A r \in Sock \ {s} : hSock'[r] = hSock[r] /\ state'[r] = state[r]
      BY <1>1, <2>2, <2>3 DEF TypeInv
    <3>3. QED
      BY <2>1, <2>2, <3>1, <3>2, ObjectTaken
  <2>4. CASE /\ state' = [state EXCEPT ![s] = "CLOSE"]
             /\ queue' = queue \o <<Event(s, "ERROR", nLink + 1),
                                    Event(s, "TERMINATE", nLink + 1)>>
             /\ UNCHANGED hSock
    <3>1. PICK evs : evs = <<Event(s, "ERROR", nLink + 1), Event(s, "TERMINATE", nLink + 1)>>
      OBVIOUS
    <3>2. /\ evs \in Seq(Ev)
          /\ 2 \in 1 .. Len(evs) /\ IsDeath(evs[2]) /\ evs[2].link = nLink + 1
          /\ \A i \in 1 .. Len(evs) : IsDeath(evs[i]) => i = 2 /\ evs[i].poSock = s
      BY <2>2, <3>1, AddFailed
    <3>3. Moves(0, evs)
      BY <2>4, <3>1, <3>2, MovesConcat
    <3>4. hSock[s] = INVALID_SOCKET \/ s \in reused
      BY <2>1, <2>2 DEF ObjectInv, ObjOK
    <3>5. /\ state'[s] # "ESTABLISH"
          /\ \A r \in Sock \ {s} : hSock'[r] = hSock[r] /\ state'[r] = state[r]
      BY <2>2, <2>4 DEF TypeInv
    <3>6. CASE hSock[s] = INVALID_SOCKET
      BY <2>1, <2>2, <2>4, <3>2, <3>3, <3>5, <3>6, ObjectTaken
    <3>7. CASE s \in reused
      <4>1. reused' = reused \cup {s} /\ UNCHANGED connecting
        BY <2>2, <3>7
      <4>2. \A r \in Sock \ {s} : conn'[r] = conn[r] /\ (r \in free' <=> r \in free)
        BY <2>1 DEF TypeInv
      <4>3. QED
        BY <2>2, <3>2, <3>3, <3>5, <4>1, <4>2, ObjectExcepted
    <3>8. QED
      BY <3>4, <3>6, <3>7
  <2>5. QED
    BY <2>1, <2>3, <2>4
<1>8. CASE PushAssociate
  <2>1. /\ Event(arg["accept"].sock, "ASSOCIATE", arg["accept"].link) \in Ev
        /\ ~IsDeath(Event(arg["accept"].sock, "ASSOCIATE", arg["accept"].link))
    BY <1>2, <1>8 DEF PushAssociate, Threads, EventTypes, IsDeath, Event
  <2>2. QED
    BY <1>4, <1>8, <2>1 DEF PushAssociate, sockVars, ioVars
<1>9. CASE PushEstablish
  <2>1. /\ Event(arg["accept"].sock, "ESTABLISH", arg["accept"].link) \in Ev
        /\ ~IsDeath(Event(arg["accept"].sock, "ESTABLISH", arg["accept"].link))
    BY <1>2, <1>9 DEF PushEstablish, Threads, EventTypes, IsDeath, Event
  <2>2. QED
    BY <1>4, <1>9, <2>1 DEF PushEstablish, sockVars, ioVars
<1>10. CASE PushAssociateMain
  <2>1. /\ Event(arg["main"].sock, "ASSOCIATE", arg["main"].link) \in Ev
        /\ ~IsDeath(Event(arg["main"].sock, "ASSOCIATE", arg["main"].link))
    BY <1>2, <1>10 DEF PushAssociateMain, Threads, EventTypes, IsDeath, Event
  <2>2. QED
    BY <1>4, <1>10, <2>1 DEF PushAssociateMain, sockVars, ioVars
<1>11. CASE UndoAccept
  <2>1. arg["accept"].sock \in Sock
    BY <1>2, <1>11 DEF UndoAccept, Threads
  <2>2. Moves(0, <<>>) /\ \A i \in 1 .. Len(<<>>) : ~IsDeath(<<>>[i])
    BY <1>11, MovesNot DEF UndoAccept
  <2>3. \A r \in Sock \ {arg["accept"].sock} :
          /\ hSock'[r] = hSock[r] /\ state'[r] = state[r]
          /\ conn'[r] = conn[r] /\ (r \in free' <=> r \in free)
    BY <1>11, <2>1 DEF UndoAccept, SockRelease, TypeInv
  <2>4. reused' = reused \cup {arg["accept"].sock} /\ UNCHANGED connecting
    BY <1>11 DEF UndoAccept, ioVars
  <2>5. QED
    BY <2>1, <2>2, <2>3, <2>4, ObjectExcepted
<1>12. CASE TcpConnect
  <2>1. PICK s \in free : /\ free' = free \ {s}
           /\ conn' = [conn EXCEPT ![s] = nLink + 1]
           /\ BeginConnect(s, nLink + 1, queue)
    BY <1>12 DEF TcpConnect
  <2>2. /\ nLink + 1 \in Link /\ s \in Sock /\ UNCHANGED <<reused, connecting>>
    BY <1>12, <2>1, LifecycleAssumption DEF TcpConnect, TypeInv, Link, ioVars
  <2>3. \A r \in Sock \ {s} : conn'[r] = conn[r] /\ (r \in free' <=> r \in free)
    BY <2>1 DEF TypeInv
  <2>4. s \notin reused => hSock[s] = INVALID_SOCKET /\ state[s] = "INVALID"
    BY <2>1, <2>2 DEF ObjectInv, ObjOK
  <2>5. s \in reused => reused' = reused \cup {s} /\ UNCHANGED connecting
    BY <2>2
  <2>6. CASE /\ nFd < MaxFds /\ queue' = queue
             /\ hSock' = [hSock EXCEPT ![s] = nFd + 1]
             /\ state' = [state EXCEPT ![s] = "CONNECT"]
    <3>1. Moves(0, <<>>) /\ \A i \in 1 .. Len(<<>>) : ~IsDeath(<<>>[i])
      BY <2>6, MovesNot
    <3>2. nFd + 1 \in Fd
      BY <2>6, LifecycleAssumption DEF TypeInv, Fd
    <3>3. /\ hSock'[s] # INVALID_SOCKET /\ state'[s] = "CONNECT"
          /\ \A r \in Sock \ {s} : hSock'[r] = hSock[r] /\ state'[r] = state[r]
      BY <1>1, <2>2, <2>6, <3>2 DEF TypeInv
    <3>4. QED
      BY <2>1, <2>2, <3>1, <3>3, ObjectTaken
  <2>7. CASE /\ queue' = Append(queue, Event(s, "ERROR", nLink + 1))
             /\ UNCHANGED <<hSock, state>>
    <3>1. PICK e \in Ev : e = Event(s, "ERROR", nLink + 1) /\ ~IsDeath(e)
      BY <2>2, EventType DEF EventTypes, IsDeath
    <3>2. Moves(0, <<e>>) /\ \A i \in 1 .. Len(<<e>>) : ~IsDeath(<<e>>[i])
      BY <2>7, <3>1, MovesAppend
    <3>3. CASE s \notin reused
      BY <2>1, <2>2, <2>4, <2>7, <3>2, <3>3, ObjectTaken
    <3>4. CASE s \in reused
      BY <2>2, <2>3, <2>5, <2>7, <3>2, <3>4, ObjectExcepted
    <3>5. QED
      BY <3>3, <3>4
  <2>8. CASE /\ state' = [state EXCEPT ![s] = "CONNECT"] /\ UNCHANGED hSock
             /\ queue' = queue \o <<Event(s, "ERROR", nLink + 1),
                                    Event(s, "TERMINATE", nLink + 1),
                                    Event(s, "ERROR", nLink + 1)>>
    <3>1. PICK evs : evs = <<Event(s, "ERROR", nLink + 1),
                             Event(s, "TERMINATE", nLink + 1),
                             Event(s, "ERROR", nLink + 1)>>
      OBVIOUS
    <3>2. /\ evs \in Seq(Ev)
          /\ 2 \in 1 .. Len(evs) /\ IsDeath(evs[2]) /\ evs[2].link = nLink + 1
          /\ \A i \in 1 .. Len(evs) : IsDeath(evs[i]) => i = 2 /\ evs[i].poSock = s
      BY <2>2, <3>1, AddFailed
    <3>3. Moves(0, evs)
      BY <2>8, <3>1, <3>2, MovesConcat
    <3>4. /\ state'[s] # "ESTABLISH" /\ hSock'[s] = hSock[s]
          /\ \A r \in Sock \ {s} : hSock'[r] = hSock[r] /\ state'[r] = state[r]
      BY <2>2, <2>8 DEF TypeInv
    <3>5. CASE s \notin reused
      <4>1. hSock'[s] = INVALID_SOCKET
        BY <2>4, <3>4, <3>5
      <4>2. QED
        BY <2>1, <2>2, <3>2, <3>3, <3>4, <4>1, ObjectTaken
    <3>6. CASE s \in reused
      BY <2>2, <2>3, <2>5, <3>2, <3>3, <3>4, <3>6, ObjectExcepted
    <3>7. QED
      BY <3>5, <3>6
  <2>9. QED
    BY <2>1, <2>6, <2>7, <2>8 DEF BeginConnect
<1>13. ASSUME NEW c \in Sock, NEW e \in Ev, ~IsDeath(e), Close(c, queue, <<e>>),
              UNCHANGED <<free, conn, reused>>,
              connecting' = connecting \/ connecting = c
       PROVE  ObjectInv'
  <2>1. <<e>> \in Seq(Ev) /\ \A i \in 1 .. Len(<<e>>) : ~IsDeath(<<e>>[i])
    BY <1>13
  <2>2. PICK d, q, evs : d = 0 /\ q = queue /\ evs = <<e>>
    OBVIOUS
  <2>3. /\ evs \in Seq(Ev) /\ Close(c, q, evs) /\ (d = 1 => ~IsDeath(queue[1]))
        /\ (d = 0 /\ q = queue) \/ (d = 1 /\ queue # <<>> /\ q = Tail(queue))
        /\ \A i \in 1 .. Len(evs) : ~IsDeath(evs[i])
    BY <1>13, <2>1, <2>2
  <2>4. QED
    BY <1>13, <2>3, CloseObjects
<1>14. ASSUME NEW c \in Sock, Close(c, queue, <<>>),
              UNCHANGED <<free, conn, reused, connecting>>
       PROVE  ObjectInv'
  <2>1. <<>> \in Seq(Ev) /\ \A i \in 1 .. Len(<<>>) : ~IsDeath(<<>>[i])
    OBVIOUS
  <2>2. PICK d, q, evs : d = 0 /\ q = queue /\ evs = <<>>
    OBVIOUS
  <2>3. /\ evs \in Seq(Ev) /\ Close(c, q, evs) /\ (d = 1 => ~IsDeath(queue[1]))
        /\ (d = 0 /\ q = queue) \/ (d = 1 /\ queue # <<>> /\ q = Tail(queue))
        /\ \A i \in 1 .. Len(evs) : ~IsDeath(evs[i])
    BY <1>14, <2>1, <2>2
  <2>4. QED
    BY <1>14, <2>3, CloseObjects
<1>15. CASE EndConnect
  <2>1. /\ arg["main"].sock \in Sock
        /\ Event(arg["main"].sock, "CONN_ERR", arg["main"].link) \in Ev
        /\ ~IsDeath(Event(arg["main"].sock, "CONN_ERR", arg["main"].link))
    BY <1>2, <1>15 DEF EndConnect, Threads, EventTypes, IsDeath, Event
  <2>2. CASE UNCHANGED <<state, hSock, open, epoll, queue>>
    BY <1>5, <1>15, <2>2 DEF EndConnect, ioVars
  <2>3. CASE Close(arg["main"].sock, queue,
                   <<Event(arg["main"].sock, "CONN_ERR", arg["main"].link)>>)
    BY <1>13, <1>15, <2>1, <2>3 DEF EndConnect, ioVars
  <2>4. QED
    BY <1>15, <2>2, <2>3 DEF EndConnect
<1>16. ASSUME NEW l \in Link, SessionClose(l) PROVE ObjectInv'
  BY <1>5, <1>16 DEF SessionClose, sockVars, ioVars
<1>17. ASSUME NEW l \in Link, Reconnect(l) PROVE ObjectInv'
  <2>1. m_poSock[l] \in Sock
    BY <1>17 DEF Reconnect, TypeInv
  <2>2. QED
    BY <1>14, <1>17, <2>1 DEF Reconnect, ioVars
<1>18. CASE DrainDelayClose
  <2>1. Head(delayed).sock \in Sock
    <3>1. delayed \in Seq([sock : Sock, link : Link]) /\ delayed # <<>>
      BY <1>18 DEF DrainDelayClose, TypeInv
    <3>2. Head(delayed) \in [sock : Sock, link : Link]
      BY <3>1, HeadTailProperties
    <3>3. QED
      BY <3>2
  <2>2. QED
    BY <1>14, <1>18, <2>1 DEF DrainDelayClose, ioVars
<1>19. CASE WaitEvents
  BY <1>5, <1>19 DEF WaitEvents, sockVars
<1>20. ASSUME NEW s \in Sock, OnRecv(s) PROVE ObjectInv'
  <2>1. Event(s, "RECV", conn[s]) \in Ev /\ ~IsDeath(Event(s, "RECV", conn[s]))
    BY <1>3 DEF EventTypes, Event, IsDeath
  <2>2. QED
    BY <1>4, <1>20, <2>1 DEF OnRecv, sockVars
<1>21. ASSUME NEW s \in Sock, OnNothing(s) PROVE ObjectInv'
  BY <1>5, <1>21 DEF OnNothing, sockVars
<1>22. ASSUME NEW s \in Sock, OnIoError(s) PROVE ObjectInv'
  <2>1. Event(s, "ERROR", conn[s]) \in Ev /\ ~IsDeath(Event(s, "ERROR", conn[s]))
    BY <1>3 DEF EventTypes, Event, IsDeath
  <2>2. QED
    BY <1>13, <1>22, <2>1 DEF OnIoError
<1>23. ASSUME NEW s \in Sock, OnConnect(s) PROVE ObjectInv'
  <2>1. PICK e \in Ev : e = Event(s, "ESTABLISH", conn[s]) /\ ~IsDeath(e)
    BY <1>3 DEF EventTypes, Event, IsDeath
  <2>2. Moves(0, <<e>>) /\ \A i \in 1 .. Len(<<e>>) : ~IsDeath(<<e>>[i])
    BY <1>23, <2>1, MovesAppend DEF OnConnect
  <2> SUFFICES ASSUME NEW r \in Sock \ reused PROVE ObjOK(r)'
    BY <1>23 DEF ObjectInv, OnConnect
  <2>3. ObjOK(r) /\ r \in Sock
    BY DEF ObjectInv
  <2>4. CASE r = s
    <3>1. PICK l : l = conn[r]
      OBVIOUS
    <3>2. (NoEnd(r) <=> NoEnd(r)') /\ (OneEnd(r, l) => OneEnd(r, l)')
      BY <2>2, <2>3, KeepEnds
    <3>3. (NoEnd(r) <=> NoEnd(r)') /\ (OneEnd(r, conn[r]) => OneEnd(r, conn[r])')
      BY <1>23, <3>1, <3>2 DEF OneEnd, OnConnect
    <3>4. /\ state'[r] = "ESTABLISH" /\ state[r] = "CONNECT" /\ connecting' = r
          /\ UNCHANGED <<hSock, free, conn>>
      BY <1>23, <2>4 DEF OnConnect, TypeInv
    <3>5. QED
      BY <2>3, <3>3, <3>4 DEF ObjOK
  <2>5. CASE r # s
    <3>1. state'[r] = state[r] /\ connecting # r /\ UNCHANGED <<hSock, free, conn>>
      BY <1>23, <2>5, LifecycleAssumption DEF OnConnect, TypeInv
    <3>2. QED
      BY <2>2, <2>3, <3>1, ObjectKept
  <2>6. QED
    BY <2>4, <2>5
<1>24. CASE EndOnConnect
  <2>1. /\ connecting \in Sock /\ Event(connecting, "ERROR", conn[connecting]) \in Ev
        /\ ~IsDeath(Event(connecting, "ERROR", conn[connecting]))
    <3>1. connecting \in Sock
      BY <1>24 DEF EndOnConnect, TypeInv
    <3>2. QED
      BY <1>3, <3>1 DEF EventTypes, Event, IsDeath
  <2>2. CASE hSock[connecting] # INVALID_SOCKET /\ UNCHANGED <<state, hSock, open, epoll, queue>>
    BY <1>5, <1>24, <2>2 DEF EndOnConnect
  <2>3. CASE Close(connecting, queue, <<Event(connecting, "ERROR", conn[connecting])>>)
    BY <1>13, <1>24, <2>1, <2>3 DEF EndOnConnect
  <2>4. QED
    BY <1>24, <2>2, <2>3 DEF EndOnConnect
<1>25. CASE ProcAssociate
  <2>1. Runs("ASSOCIATE") /\ queue' = Tail(queue)
          /\ UNCHANGED <<free, conn, state, hSock, reused, connecting>>
    BY <1>25 DEF ProcAssociate, Ignored, sockVars, ioVars
  <2>2. QED
    BY <1>6, <2>1
<1>26. CASE ProcEstablish
  <2>1. Runs("ESTABLISH") /\ queue' = Tail(queue)
          /\ UNCHANGED <<free, conn, state, hSock, reused, connecting>>
    BY <1>26 DEF ProcEstablish, Ignored, sockVars, ioVars
  <2>2. QED
    BY <1>6, <2>1
<1>27. ASSUME NEW type \in {"RECV", "ERROR"}, ProcToSession(type) PROVE ObjectInv'
  <2>1. Runs(type) /\ queue' = Tail(queue)
          /\ UNCHANGED <<free, conn, state, hSock, reused, connecting>>
    BY <1>27 DEF ProcToSession, Ignored, sockVars, ioVars
  <2>2. QED
    BY <1>6, <2>1
<1>28. CASE ProcRecv
  <2>1. CASE ProcToSession("RECV")
    BY <1>27, <2>1
  <2>2. CASE ~ProcToSession("RECV")
    <3>1. /\ queue # <<>> /\ Head(queue).eType = "RECV"
          /\ Close(EventSock, Tail(queue), <<Event(EventSock, "ERROR", EventConn)>>)
          /\ UNCHANGED <<free, conn, reused, connecting>>
      BY <1>28, <2>2 DEF ProcRecv, Runs, ioVars
    <3>2. /\ EventSock \in Sock /\ ~IsDeath(queue[1])
          /\ <<Event(EventSock, "ERROR", EventConn)>> \in Seq(Ev)
      BY <3>1, HeadType, EventType DEF EventTypes, IsDeath
    <3>3. QED
      BY <3>1, <3>2, Harmless, CloseObjects
  <2>3. QED
    BY <2>1, <2>2
<1>29. CASE ProcConnectError
  <2>1. /\ queue # <<>> /\ Runs("CONN_ERR") /\ UNCHANGED connecting
    BY <1>29 DEF ProcConnectError, Runs, ioVars
  <2>2. EventSock \in Sock /\ EventConn \in Link \cup {NoLink} /\ Tail(queue) \in Seq(Ev)
          /\ ~IsDeath(queue[1])
    BY <2>1, HeadType DEF Runs, IsDeath
  <2>3. CASE \/ Ignored
             \/ /\ queue' = Tail(queue)
                /\ UNCHANGED <<free, conn, m_nConnStat, m_poSock, state, hSock, open,
                               epoll, threadVars, nFd, reused>>
    BY <1>6, <2>1, <2>3 DEF Ignored, sockVars
  <2>4. CASE /\ EventConn # NoLink /\ m_poSock[EventConn] # NoSock
             /\ BeginConnect(m_poSock[EventConn], EventConn, Tail(queue))
             /\ reused' = reused \cup {EventSock}
             /\ UNCHANGED <<free, conn, m_nConnStat, m_poSock>>
    <3>1. m_poSock[EventConn] = EventSock
      BY <2>2, <2>4 DEF Pairing, EventConn
    <3>2. PICK s : s = EventSock
      OBVIOUS
    <3>3. PICK l : l = EventConn
      OBVIOUS
    <3>4. \A r \in Sock \ {s} : hSock'[r] = hSock[r] /\ state'[r] = state[r]
      BY <2>2, <2>4, <3>1, <3>2 DEF BeginConnect, TypeInv
    <3>5. \E evs : /\ Moves(1, evs)
                   /\ \A i \in 1 .. Len(evs) : IsDeath(evs[i]) => evs[i].poSock = s
      <4>1. CASE queue' = Tail(queue)
        BY <2>1, <4>1, MovesPop
      <4>2. CASE queue' = Append(Tail(queue), Event(s, "ERROR", l))
        <5>1. Event(s, "ERROR", l) \in Ev
          BY <2>2, <3>2, <3>3, EventType DEF EventTypes
        <5>2. Moves(1, <<Event(s, "ERROR", l)>>)
          BY <2>1, <4>2, <5>1, MovesTailAppend
        <5>3. QED
          BY <5>2, Harmless
      <4>3. CASE queue' = Tail(queue) \o <<Event(s, "ERROR", l), Event(s, "TERMINATE", l),
                                           Event(s, "ERROR", l)>>
        <5>1. PICK evs : evs = <<Event(s, "ERROR", l), Event(s, "TERMINATE", l),
                                 Event(s, "ERROR", l)>>
          OBVIOUS
        <5>2. /\ evs \in Seq(Ev)
              /\ \A i \in 1 .. Len(evs) : IsDeath(evs[i]) => evs[i].poSock = s
          BY <2>2, <2>4, <3>2, <3>3, <5>1, AddFailed
        <5>3. QED
          BY <2>1, <4>3, <5>1, <5>2, MovesTail
      <4>4. QED
        BY <2>4, <3>1, <3>2, <3>3, <4>1, <4>2, <4>3 DEF BeginConnect
    <3>6. QED
      BY <2>1, <2>2, <2>4, <3>2, <3>4, <3>5, ObjectExcepted
  <2>5. QED
    BY <1>29, <2>2, <2>3, <2>4 DEF ProcConnectError
<1>30. CASE ProcTerminate
  <2>1. queue # <<>> /\ Head(queue).eType = "TERMINATE"
    BY <1>30 DEF ProcTerminate, Runs
  <2>2. PICK e \in Ev : e = [Head(queue) EXCEPT !.eType = "RELEASE"]
    BY <2>1, HeadType DEF Ev, EventTypes
  <2>3. /\ Moves(1, <<e>>) /\ Len(queue) \in Nat \ {0} /\ IsDeath(e)
        /\ e.poSock = queue[1].poSock /\ e.link = queue[1].link /\ IsDeath(queue[1])
    <3>1. Moves(1, <<e>>)
      BY <1>30, <2>1, <2>2, MovesTailAppend DEF ProcTerminate
    <3>2. QED
      BY <2>1, <2>2, <3>1, HeadType DEF Ev, IsDeath
  <2>4. UNCHANGED <<free, conn, state, hSock, reused, connecting>>
    BY <1>30 DEF ProcTerminate, sockVars, ioVars
  <2> SUFFICES ASSUME NEW r \in Sock \ reused PROVE ObjOK(r)'
    BY <2>4 DEF ObjectInv
  <2>5. ObjOK(r) /\ r \in Sock
    BY DEF ObjectInv
  <2>6. CASE r = queue[1].poSock
    <3>1. EndsAt(1, r) /\ 1 \in 1 .. Len(queue)
      BY <2>3, <2>6 DEF EndsAt
    <3>2. ~NoEnd(r) /\ OneEnd(r, conn[r])
      BY <2>5, <3>1 DEF NoEnd, ObjOK
    <3>3. PICK i \in 1 .. Len(queue) : /\ EndsAt(i, r) /\ queue[i].link = conn[r]
                                       /\ \A j \in 1 .. Len(queue) : EndsAt(j, r) => j = i
      BY <3>2 DEF OneEnd
    <3>4. /\ \A k \in 1 .. Len(queue) : EndsAt(k, r) => k <= 1
          /\ queue[1].link = conn[r]
      BY <3>1, <3>3
    <3>5. PICK l : l = conn[r]
      OBVIOUS
    <3>6. OneEnd(r, l)' /\ ~NoEnd(r)'
      <4>1. 1 \in 1 .. Len(<<e>>) /\ <<e>>[1] = e /\ \A j \in 1 .. Len(<<e>>) : j = 1
        OBVIOUS
      <4>2. PICK evs, n : /\ evs = <<e>> /\ n = 1 /\ n \in 1 .. Len(evs)
                          /\ evs[n] = e /\ \A j \in 1 .. Len(evs) : j = n
        <5>1. PICK evs : evs = <<e>>
          OBVIOUS
        <5>2. PICK n : n = 1
          OBVIOUS
        <5>3. QED
          BY <4>1, <5>1, <5>2
      <4>3. QED
        BY <2>3, <2>5, <2>6, <3>4, <3>5, <4>2, NewEnd
    <3>7. OneEnd(r, conn[r])'
      BY <2>4, <3>5, <3>6 DEF OneEnd
    <3>8. QED
      BY <2>4, <2>5, <3>2, <3>6, <3>7 DEF ObjOK
  <2>7. CASE r # queue[1].poSock
    <3>1. ~EndsAt(1, r) /\ \A i \in 1 .. Len(<<e>>) : ~(IsDeath(<<e>>[i]) /\ <<e>>[i].poSock = r)
      BY <2>3, <2>7 DEF EndsAt
    <3>2. QED
      BY <2>3, <2>4, <2>5, <3>1, ObjectKept
  <2>8. QED
    BY <2>6, <2>7
<1>31. CASE ProcRelease
  <2>1. queue # <<>> /\ Head(queue).eType = "RELEASE" /\ SockRelease(EventSock)
    BY <1>31 DEF ProcRelease, Runs
  <2>2. /\ Moves(1, <<>>) /\ Len(queue) \in Nat \ {0} /\ IsDeath(queue[1])
        /\ EventSock = queue[1].poSock /\ EventSock \in Sock
        /\ \A i \in 1 .. Len(<<>>) : ~IsDeath(<<>>[i])
    BY <1>31, <2>1, HeadType, MovesPop DEF ProcRelease, IsDeath, EventSock
  <2>3. UNCHANGED <<reused, connecting>>
    BY <1>31 DEF ProcRelease, ioVars
  <2> SUFFICES ASSUME NEW r \in Sock \ reused PROVE ObjOK(r)'
    BY <2>3 DEF ObjectInv
  <2>4. ObjOK(r) /\ r \in Sock
    BY DEF ObjectInv
  <2>5. CASE r = EventSock
    <3>1. EndsAt(1, r) /\ 1 \in 1 .. Len(queue)
      BY <2>2, <2>5 DEF EndsAt
    <3>2. OneEnd(r, conn[r])
      BY <2>4, <3>1 DEF NoEnd, ObjOK
    <3>3. \A k \in 1 .. Len(queue) : EndsAt(k, r) => k <= 1
      BY <3>1, <3>2 DEF OneEnd
    <3>4. NoEnd(r)'
      BY <2>2, <2>4, <3>3, LastEnd
    <3>5. hSock'[r] = INVALID_SOCKET /\ state'[r] = "INVALID" /\ r \in free'
      BY <2>1, <2>4, <2>5 DEF SockRelease, TypeInv
    <3>6. QED
      BY <3>4, <3>5 DEF ObjOK
  <2>6. CASE r # EventSock
    <3>1. ~EndsAt(1, r)
      BY <2>2, <2>6 DEF EndsAt
    <3>2. /\ hSock'[r] = hSock[r] /\ state'[r] = state[r] /\ conn'[r] = conn[r]
          /\ (r \in free' <=> r \in free)
      BY <2>1, <2>2, <2>4, <2>6 DEF SockRelease, TypeInv
    <3>3. QED
      BY <2>2, <2>3, <2>4, <3>1, <3>2, ObjectKept
  <2>7. QED
    BY <2>5, <2>6
<1>32. QED
  BY <1>7, <1>8, <1>9, <1>10, <1>11, <1>12, <1>15, <1>16, <1>17, <1>18, <1>19, <1>20, <1>21,
     <1>22, <1>23, <1>24, <1>25, <1>26, <1>27, <1>28, <1>29, <1>30, <1>31
     DEF Next, Accept, Connect, HandleEvents, ProcEvent, ProcError

\* Reset forgets a descriptor without closing it: it must have been closed.
LEMMA OwnedStep ==
  TypeInv /\ Pairing /\ ObjectInv /\ DescriptorsOwned /\ Next => DescriptorsOwned'
<1> SUFFICES ASSUME TypeInv, Pairing, ObjectInv, DescriptorsOwned, Next, reused' = {}
             PROVE  open' \subseteq {hSock'[s] : s \in Sock}
  BY DEF DescriptorsOwned
<1>1. INVALID_SOCKET \notin Fd
  BY LifecycleAssumption DEF Fd, INVALID_SOCKET
<1>2. ASSUME reused = {} PROVE \A f \in open : \E s \in Sock : hSock[s] = f
  BY <1>2 DEF DescriptorsOwned
<1>3. ASSUME reused = {}, UNCHANGED <<hSock, open>> PROVE open' \subseteq {hSock'[s] : s \in Sock}
  BY <1>2, <1>3
<1>4. ASSUME reused = {}, NEW c \in Sock, NEW q, NEW evs, Close(c, q, evs)
      PROVE  open' \subseteq {hSock'[s] : s \in Sock}
  <2>1. CASE CloseIsDone(c)
    BY <1>3, <1>4, <2>1 DEF Close
  <2>2. CASE ~CloseIsDone(c)
    <3>1. open' = open \ {hSock[c]} /\ hSock' = [hSock EXCEPT ![c] = INVALID_SOCKET]
      BY <1>4, <2>2 DEF Close
    <3>2. ASSUME NEW f \in open' PROVE \E s \in Sock : hSock'[s] = f
      <4>1. PICK s \in Sock : hSock[s] = f
        BY <1>2, <1>4, <3>1, <3>2
      <4>2. s # c
        BY <3>1, <3>2, <4>1
      <4>3. QED
        BY <3>1, <4>1, <4>2 DEF TypeInv
    <3>3. QED
      BY <3>2
  <2>3. QED
    BY <2>1, <2>2
<1>5. ASSUME reused = {}, NEW c \in free, NEW fd, open' = open \cup {fd},
             hSock' = [hSock EXCEPT ![c] = fd]
      PROVE  open' \subseteq {hSock'[s] : s \in Sock}
  <2>1. c \in Sock /\ hSock[c] = INVALID_SOCKET
    BY <1>5 DEF TypeInv, ObjectInv, ObjOK
  <2>2. ASSUME NEW f \in open' PROVE \E s \in Sock : hSock'[s] = f
    <3>1. CASE f = fd
      BY <1>5, <2>1, <3>1 DEF TypeInv
    <3>2. CASE f # fd
      <4>1. f \in Fd
        BY <1>5, <2>2, <3>2 DEF TypeInv
      <4>2. PICK s \in Sock : hSock[s] = f
        BY <1>2, <1>5, <2>2, <3>2
      <4>3. QED
        BY <1>1, <1>5, <2>1, <4>1, <4>2 DEF TypeInv
    <3>3. QED
      BY <3>1, <3>2
  <2>3. QED
    BY <2>2
<1>6. CASE OnAccept
  BY <1>3, <1>5, <1>6 DEF OnAccept
<1>7. CASE TcpConnect
  BY <1>3, <1>5, <1>7 DEF TcpConnect, BeginConnect
<1>8. CASE UndoAccept
  BY <1>8 DEF UndoAccept
<1>9. CASE ProcRelease
  <2>1. queue # <<>> /\ SockRelease(EventSock) /\ Head(queue).eType = "RELEASE"
          /\ UNCHANGED <<open, reused>>
    BY <1>9 DEF ProcRelease, Runs
  <2>2. EventSock \in Sock /\ Len(queue) \in Nat \ {0} /\ EndsAt(1, EventSock)
    BY <2>1, HeadType DEF EndsAt, IsDeath, EventSock
  <2>3. EventSock \in Sock \ reused
    BY <2>1, <2>2
  <2>4. ~NoEnd(EventSock)
    BY <2>2 DEF NoEnd
  <2>5. hSock[EventSock] = INVALID_SOCKET
    BY <2>3, <2>4 DEF ObjectInv, ObjOK
  <2>6. hSock' = hSock
    BY <2>1, <2>2, <2>5 DEF SockRelease, TypeInv
  <2>7. QED
    BY <1>3, <2>1, <2>6
<1>10. CASE PushAssociate \/ PushEstablish \/ PushAssociateMain
  BY <1>3, <1>10 DEF PushAssociate, PushEstablish, PushAssociateMain, sockVars
<1>11. CASE EndConnect
  <2>1. arg["main"].sock \in Sock
    BY <1>11 DEF EndConnect, TypeInv, Threads
  <2>2. QED
    BY <1>3, <1>4, <1>11, <2>1 DEF EndConnect
<1>12. ASSUME NEW l \in Link, SessionClose(l) \/ Reconnect(l)
       PROVE  open' \subseteq {hSock'[s] : s \in Sock}
  <2>1. m_poSock[l] \in Sock
    BY <1>12 DEF SessionClose, Reconnect, TypeInv
  <2>2. QED
    BY <1>3, <1>4, <1>12, <2>1 DEF SessionClose, Reconnect, sockVars
<1>13. CASE DrainDelayClose
  <2>1. delayed \in Seq([sock : Sock, link : Link]) /\ delayed # <<>>
    BY <1>13 DEF DrainDelayClose, TypeInv
  <2>2. Head(delayed) \in [sock : Sock, link : Link]
    BY <2>1, HeadTailProperties
  <2>3. QED
    BY <1>4, <1>13, <2>2 DEF DrainDelayClose
<1>14. CASE WaitEvents
  BY <1>3, <1>14 DEF WaitEvents, sockVars
<1>15. ASSUME NEW s \in Sock, OnRecv(s) \/ OnNothing(s) \/ OnIoError(s) \/ OnConnect(s)
       PROVE  open' \subseteq {hSock'[r] : r \in Sock}
  BY <1>3, <1>4, <1>15 DEF OnRecv, OnNothing, OnIoError, OnConnect, sockVars
<1>16. CASE EndOnConnect
  <2>1. connecting \in Sock
    BY <1>16 DEF EndOnConnect, TypeInv
  <2>2. QED
    BY <1>3, <1>4, <1>16, <2>1 DEF EndOnConnect
<1>17. CASE ProcAssociate \/ ProcEstablish \/ ProcTerminate
  BY <1>3, <1>17 DEF ProcAssociate, ProcEstablish, ProcTerminate, Ignored, sockVars
<1>18. CASE ProcRecv \/ ProcError
  <2>1. EventSock \in Sock
    BY <1>18, HeadType DEF ProcRecv, ProcError, ProcToSession, Runs
  <2>2. QED
    BY <1>3, <1>4, <1>18, <2>1 DEF ProcRecv, ProcError, ProcToSession, Ignored, sockVars
<1>19. CASE ProcConnectError
  BY <1>3, <1>19 DEF ProcConnectError, Ignored, sockVars
<1>20. QED
  BY <1>6, <1>7, <1>8, <1>9, <1>10, <1>11, <1>12, <1>13, <1>14, <1>15, <1>16, <1>17, <1>18, <1>19
     DEF Next, Accept, Connect, HandleEvents, ProcEvent

-----------------------------------------------------------------------------
(* Initial states and steps                                                 *)

ObjectsSafe == TypeInv /\ Pairing /\ ObjectInv /\ DescriptorsOwned

LEMMA InitObjects == Init => ObjectsSafe
<1> SUFFICES ASSUME Init PROVE ObjectsSafe
  OBVIOUS
<1>1. TypeInv
  BY LifecycleAssumption DEF Init, TypeInv, SockStates, ConnStats, Threads, Link, Fd, NoLink,
     INVALID_SOCKET, Ev, Work
<1>2. Pairing
  BY DEF Init, Pairing
<1>3. ObjectInv
  BY DEF Init, ObjectInv, ObjOK, NoEnd
<1>4. DescriptorsOwned
  BY DEF Init, DescriptorsOwned
<1>5. QED
  BY <1>1, <1>2, <1>3, <1>4 DEF ObjectsSafe

LEMMA StepObjects == ObjectsSafe /\ [Next]_vars => ObjectsSafe'
<1>1. ASSUME ObjectsSafe, Next PROVE ObjectsSafe'
  BY <1>1, TypeStep, PairingStep, ObjectStep, OwnedStep DEF ObjectsSafe
<1>2. ASSUME ObjectsSafe, UNCHANGED vars PROVE ObjectsSafe'
  <2>1. UNCHANGED <<free, conn, state, hSock, open, epoll, m_nConnStat, m_poSock, told, queue,
                    delayed, ready, connecting, at, arg, nLink, nFd, nRecv, early, reused>>
    BY <1>2 DEF vars, sockVars, connVars, ioVars, threadVars, counters
  <2>2. TypeInv' /\ Pairing' /\ DescriptorsOwned'
    BY <1>2, <2>1 DEF ObjectsSafe, TypeInv, Pairing, DescriptorsOwned
  <2>3. ObjectInv'
    BY <1>2, <2>1 DEF ObjectsSafe, ObjectInv, ObjOK, NoEnd, OneEnd, EndsAt
  <2>4. QED
    BY <2>2, <2>3 DEF ObjectsSafe
<1>3. QED
  BY <1>1, <1>2

\* Everything the main thread, the two IO threads and the application do keeps
\* every variable of its kind.
THEOREM TypeCorrect == Spec => []TypeOK
<1>1. TypeInv => TypeOK
  <2> SUFFICES ASSUME TypeInv PROVE TypeOK
    OBVIOUS
  <2>1. \A i \in 1 .. Len(queue) : queue[i] \in Ev
    BY LenProperties DEF TypeInv
  <2>2. \A l \in Link : \A i \in 1 .. Len(told[l]) : told[l][i] \in Calls
    BY LenProperties DEF TypeInv
  <2>3. QED
    BY <2>1, <2>2 DEF TypeOK, TypeInv, Ev
<1>2. ObjectsSafe => TypeOK
  BY <1>1 DEF ObjectsSafe
<1>3. QED
  BY <1>2, InitObjects, StepObjects, PTL DEF Spec

\* TERMINATE and RELEASE, which name a socket object by its address, end the
\* connection they were pushed for and no later one of the same object.
THEOREM DeathIsOwnCorrect == Spec => []DeathIsOwn
<1>1. ObjectsSafe => DeathIsOwn
  <2> SUFFICES ASSUME ObjectsSafe, NEW i \in 1 .. Len(queue), IsDeath(queue[i]),
                      queue[i].poSock \notin reused
               PROVE  conn[queue[i].poSock] = queue[i].link
    BY DEF DeathIsOwn
  <2>1. queue[i] \in Ev
    BY LenProperties DEF ObjectsSafe, TypeInv
  <2>2. PICK s : s = queue[i].poSock
    OBVIOUS
  <2>3. s \in Sock \ reused /\ EndsAt(i, s)
    BY <2>1, <2>2 DEF Ev, EndsAt
  <2>4. OneEnd(s, conn[s])
    BY <2>3 DEF ObjectsSafe, ObjectInv, ObjOK, NoEnd
  <2>5. QED
    BY <2>2, <2>3, <2>4 DEF OneEnd
<1>2. QED
  BY <1>1, InitObjects, StepObjects, PTL DEF Spec

\* A socket object goes back to the pool exactly once per connection: it has at
\* most one end pending, none in the pool, and one as soon as its descriptor is
\* closed.
THEOREM OneDeathCorrect == Spec => []OneDeath
<1>1. ObjectsSafe => OneDeath
  <2> SUFFICES ASSUME ObjectsSafe, NEW s \in Sock \ reused
               PROVE  /\ Cardinality(Ends(s)) <= 1
                      /\ s \in free => Ends(s) = {}
                      /\ s \notin free /\ hSock[s] = INVALID_SOCKET /\ ~InHand(s) =>
                           Ends(s) # {} \/ NeverOpened(s)
    BY DEF OneDeath
  <2>1. ObjOK(s)
    BY DEF ObjectsSafe, ObjectInv
  <2>2. NoEnd(s) => Ends(s) = {}
    BY DEF NoEnd, Ends, EndsAt
  <2>3. ~NoEnd(s) => Ends(s) # {}
    BY DEF NoEnd, Ends, EndsAt
  <2>4. Cardinality(Ends(s)) <= 1
    <3>1. CASE NoEnd(s)
      <4>1. Cardinality(Ends(s)) = 0
        BY <2>2, <3>1, FS_EmptySet
      <4>2. QED
        BY <4>1
    <3>2. CASE OneEnd(s, conn[s])
      <4>1. PICK i \in 1 .. Len(queue) : /\ EndsAt(i, s)
                                         /\ \A j \in 1 .. Len(queue) : EndsAt(j, s) => j = i
        BY <3>2 DEF OneEnd
      <4>2. Ends(s) = {i}
        BY <4>1 DEF Ends, EndsAt
      <4>3. Cardinality(Ends(s)) = 1
        BY <4>2, FS_Singleton
      <4>4. QED
        BY <4>3
    <3>3. QED
      BY <2>1, <3>1, <3>2 DEF ObjOK
  <2>5. QED
    BY <2>1, <2>2, <2>3, <2>4 DEF ObjOK, NeverOpened
<1>2. QED
  BY <1>1, InitObjects, StepObjects, PTL DEF Spec

\* No descriptor leaks: RELEASE resets an object only after Close has closed its
\* descriptor, and no object is opened over an open one.
THEOREM DescriptorsOwnedCorrect == Spec => []DescriptorsOwned
<1>1. ObjectsSafe => DescriptorsOwned
  BY DEF ObjectsSafe
<1>2. QED
  BY <1>1, InitObjects, StepObjects, PTL DEF Spec

-----------------------------------------------------------------------------
(* What a session is told                                                   *)

\* The calls a session has received are a conversation, which the Release ends:
\* one OnConnect, messages only after it, OnClose just before the Release.
Conversation(t, over) ==
  \A i \in 1 .. Len(t) :
    /\ t[i] = "OnConnect" => \A j \in 1 .. Len(t) : t[j] = "OnConnect" => i = j
    /\ t[i] = "OnRecv" => \E j \in 1 .. i - 1 : t[j] = "OnConnect"
    /\ t[i] = "OnClose" => i = Len(t) - 1 /\ over
    /\ t[i] = "Release" => i = Len(t) /\ over

Greeted(t) == \E i \in 1 .. Len(t) : t[i] = "OnConnect"

\* By where connection l stands: not made yet, released, or alive and announced
\* to its session as m_nConnStat says.
TalkOK(l) ==
  /\ Conversation(told[l], m_poSock[l] = NoSock)
  /\ l > nLink => told[l] = <<>>
  /\ m_poSock[l] = NoSock =>
       /\ m_nConnStat[l] = "NONE"
       /\ l <= nLink => told[l] # <<>> /\ told[l][Len(told[l])] = "Release"
  /\ m_poSock[l] # NoSock /\ m_nConnStat[l] \in {"NONE", "CONN", "ASSOCIATE"} =>
       ~Greeted(told[l])
  /\ m_nConnStat[l] = "OK" => Greeted(told[l])

SessionInv == reused = {} => \A l \in Link : TalkOK(l)

\* One more call for a session that has not been released.
LEMMA OneMore ==
  ASSUME NEW t \in Seq(Calls), Conversation(t, FALSE), NEW x \in Calls,
         x \in {"OnConnect", "OnRecv", "OnError"},
         x = "OnConnect" => ~Greeted(t), x = "OnRecv" => Greeted(t)
  PROVE  /\ Conversation(Append(t, x), FALSE)
         /\ Greeted(Append(t, x)) <=> Greeted(t) \/ x = "OnConnect"
<1> DEFINE u == Append(t, x)
<1>1. /\ Len(t) \in Nat /\ Len(u) = Len(t) + 1 /\ u[Len(t) + 1] = x
      /\ \A i \in 1 .. Len(t) : u[i] = t[i]
  BY LenProperties, AppendProperties
<1> HIDE DEF u
<1>2. \A i \in 1 .. Len(u) : i \in 1 .. Len(t) \/ i = Len(t) + 1
  BY <1>1
<1>3. Conversation(u, FALSE)
  <2> SUFFICES ASSUME NEW i \in 1 .. Len(u)
               PROVE  /\ u[i] = "OnConnect" => \A j \in 1 .. Len(u) : u[j] = "OnConnect" => i = j
                      /\ u[i] = "OnRecv" => \E j \in 1 .. i - 1 : u[j] = "OnConnect"
                      /\ u[i] # "OnClose" /\ u[i] # "Release"
    BY DEF Conversation
  <2>1. CASE i \in 1 .. Len(t)
    <3>1. u[i] = t[i]
      BY <1>1, <2>1
    <3>2. ASSUME u[i] = "OnConnect", NEW j \in 1 .. Len(u), u[j] = "OnConnect" PROVE i = j
      <4>1. Greeted(t)
        BY <2>1, <3>1, <3>2 DEF Greeted
      <4>2. j \in 1 .. Len(t)
        BY <1>1, <1>2, <3>2, <4>1
      <4>3. QED
        BY <1>1, <2>1, <3>1, <3>2, <4>2 DEF Conversation
    <3>3. ASSUME u[i] = "OnRecv" PROVE \E j \in 1 .. i - 1 : u[j] = "OnConnect"
      <4>1. PICK j \in 1 .. i - 1 : t[j] = "OnConnect"
        BY <2>1, <3>1, <3>3 DEF Conversation
      <4>2. j \in 1 .. Len(t)
        BY <1>1, <2>1, <4>1
      <4>3. QED
        BY <1>1, <4>1, <4>2
    <3>4. u[i] # "OnClose" /\ u[i] # "Release"
      BY <2>1, <3>1 DEF Conversation
    <3>5. QED
      BY <3>2, <3>3, <3>4
  <2>2. CASE i = Len(t) + 1
    <3>1. ASSUME u[i] = "OnConnect", NEW j \in 1 .. Len(u), u[j] = "OnConnect" PROVE i = j
      BY <1>1, <1>2, <2>2, <3>1 DEF Greeted
    <3>2. ASSUME u[i] = "OnRecv" PROVE \E j \in 1 .. i - 1 : u[j] = "OnConnect"
      BY <1>1, <2>2, <3>2 DEF Greeted
    <3>3. QED
      BY <1>1, <2>2, <3>1, <3>2
  <2>3. QED
    BY <1>2, <2>1, <2>2
<1>4. Greeted(u) <=> Greeted(t) \/ x = "OnConnect"
  <2>1. ASSUME Greeted(u) PROVE Greeted(t) \/ x = "OnConnect"
    BY <1>1, <1>2, <2>1 DEF Greeted
  <2>2. ASSUME Greeted(t) \/ x = "OnConnect" PROVE Greeted(u)
    <3>1. CASE Greeted(t)
      <4>1. PICK i \in 1 .. Len(t) : t[i] = "OnConnect"
        BY <3>1 DEF Greeted
      <4>2. i \in 1 .. Len(u)
        BY <1>1
      <4>3. QED
        BY <1>1, <4>1, <4>2 DEF Greeted
    <3>2. CASE x = "OnConnect"
      <4>1. Len(t) + 1 \in 1 .. Len(u)
        BY <1>1
      <4>2. QED
        BY <1>1, <3>2, <4>1 DEF Greeted
    <3>3. QED
      BY <2>2, <3>1, <3>2
  <2>3. QED
    BY <2>1, <2>2
<1>5. QED
  BY <1>3, <1>4 DEF u

LEMMA LastTwo ==
  ASSUME NEW m \in Nat, NEW n \in Nat, n = 1 \/ n = 2
  PROVE  /\ m + n \in 1 .. m + n /\ ~(m + n <= m) /\ (m + n) - m = n
         /\ \A i \in 1 .. m + n : \/ i \in 1 .. m
                                  \/ i = m + n
                                  \/ n = 2 /\ i = (m + n) - 1
OBVIOUS

\* The last calls: the Release, with an OnClose before it or not.
LEMMA TheEnd ==
  ASSUME NEW t \in Seq(Calls), Conversation(t, FALSE), NEW last \in Seq(Calls),
         last = <<"Release">> \/ last = <<"OnClose", "Release">>
  PROVE  /\ Conversation(t \o last, TRUE)
         /\ t \o last # <<>> /\ (t \o last)[Len(t \o last)] = "Release"
<1> DEFINE u == t \o last
<1>1. /\ Len(t) \in Nat /\ (Len(last) = 1 \/ Len(last) = 2) /\ Len(u) = Len(t) + Len(last)
      /\ \A i \in 1 .. Len(t) : u[i] = t[i]
      /\ u[Len(u)] = "Release" /\ (Len(last) = 2 => u[Len(u) - 1] = "OnClose")
  <2>1. /\ Len(t) \in Nat /\ (Len(last) = 1 \/ Len(last) = 2) /\ last[Len(last)] = "Release"
        /\ Len(last) = 2 => last[1] = "OnClose"
    <3>1. Len(t) \in Nat
      BY LenProperties
    <3>2. CASE last = <<"Release">>
      BY <3>1, <3>2
    <3>3. CASE last = <<"OnClose", "Release">>
      BY <3>1, <3>3
    <3>4. QED
      BY <3>2, <3>3
  <2>2. /\ Len(u) = Len(t) + Len(last)
        /\ \A i \in 1 .. Len(t) + Len(last) : u[i] =
             IF i <= Len(t) THEN t[i] ELSE last[i - Len(t)]
    BY ConcatProperties
  <2> HIDE DEF u
  <2>3. u[Len(u)] = "Release"
    <3>1. Len(u) \in 1 .. Len(t) + Len(last) /\ ~(Len(u) <= Len(t)) /\ Len(u) - Len(t) = Len(last)
      <4>1. Len(last) \in Nat
        BY <2>1
      <4>2. /\ Len(t) + Len(last) \in 1 .. Len(t) + Len(last)
            /\ ~(Len(t) + Len(last) <= Len(t)) /\ (Len(t) + Len(last)) - Len(t) = Len(last)
        BY <2>1, <4>1, LastTwo
      <4>3. QED
        BY <2>2, <4>2, Zenon
    <3>2. QED
      BY <2>1, <2>2, <3>1
  <2>4. Len(last) = 2 => u[Len(u) - 1] = "OnClose"
    BY <2>1, <2>2
  <2>5. \A i \in 1 .. Len(t) : u[i] = t[i]
    BY <2>1, <2>2
  <2>6. QED
    BY <2>1, <2>2, <2>3, <2>4, <2>5
<1>2. u # <<>>
  <2>1. Len(u) # 0
    BY <1>1
  <2>2. QED
    BY <2>1
<1> HIDE DEF u
<1>3. \A i \in 1 .. Len(u) : \/ i \in 1 .. Len(t)
                             \/ i = Len(u)
                             \/ Len(last) = 2 /\ i = Len(u) - 1
  <2>1. Len(last) \in Nat
    BY <1>1
  <2>2. \A i \in 1 .. Len(t) + Len(last) : \/ i \in 1 .. Len(t)
                                           \/ i = Len(t) + Len(last)
                                           \/ Len(last) = 2 /\ i = (Len(t) + Len(last)) - 1
    BY <1>1, <2>1, LastTwo
  <2>3. QED
    BY <1>1, <2>2, Zenon
<1>4. Conversation(u, TRUE)
  <2> SUFFICES ASSUME NEW i \in 1 .. Len(u)
               PROVE  /\ u[i] = "OnConnect" => \A j \in 1 .. Len(u) : u[j] = "OnConnect" => i = j
                      /\ u[i] = "OnRecv" => \E j \in 1 .. i - 1 : u[j] = "OnConnect"
                      /\ u[i] = "OnClose" => i = Len(u) - 1
                      /\ u[i] = "Release" => i = Len(u)
    BY DEF Conversation
  <2>1. \A j \in 1 .. Len(u) : u[j] \in {"OnConnect", "OnRecv"} => j \in 1 .. Len(t)
    BY <1>1, <1>3
  <2>2. CASE i \in 1 .. Len(t)
    <3>1. u[i] = t[i] /\ u[i] # "OnClose" /\ u[i] # "Release"
      BY <1>1, <2>2 DEF Conversation
    <3>2. ASSUME u[i] = "OnConnect", NEW j \in 1 .. Len(u), u[j] = "OnConnect" PROVE i = j
      BY <1>1, <2>1, <2>2, <3>1, <3>2 DEF Conversation
    <3>3. ASSUME u[i] = "OnRecv" PROVE \E j \in 1 .. i - 1 : u[j] = "OnConnect"
      <4>1. PICK j \in 1 .. i - 1 : t[j] = "OnConnect"
        BY <2>2, <3>1, <3>3 DEF Conversation
      <4>2. j \in 1 .. Len(t)
        BY <1>1, <2>2, <4>1
      <4>3. QED
        BY <1>1, <4>1, <4>2
    <3>4. QED
      BY <3>1, <3>2, <3>3
  <2>3. CASE i \notin 1 .. Len(t)
    BY <1>1, <1>3, <2>1, <2>3
  <2>4. QED
    BY <2>2, <2>3
<1>5. QED
  BY <1>1, <1>2, <1>4 DEF u

\* Nothing is said to the session of l, and its connection stays as it is.
LEMMA TalkKept ==
  ASSUME NEW l \in Link, TalkOK(l), told'[l] = told[l], m_poSock'[l] = m_poSock[l],
         m_nConnStat'[l] = m_nConnStat[l], nLink \in Nat, nLink' \in Nat,
         l <= nLink' <=> l <= nLink
  PROVE  TalkOK(l)'
<1>1. l > nLink' => l > nLink
  BY DEF Link
<1>2. QED
  BY <1>1 DEF TalkOK, Conversation, Greeted

\* One call for the session of a connection that is alive.
LEMMA Speak ==
  ASSUME TypeInv, \A l \in Link : TalkOK(l), NEW c \in Link, m_poSock[c] # NoSock,
         c <= nLink, NEW x \in {"OnConnect", "OnRecv", "OnError"},
         told' = [told EXCEPT ![c] = Append(told[c], x)],
         UNCHANGED <<m_poSock, nLink>>,
         \/ /\ x # "OnConnect" /\ UNCHANGED m_nConnStat
            /\ x = "OnRecv" => m_nConnStat[c] = "OK"
         \/ /\ x = "OnConnect" /\ m_nConnStat[c] = "ASSOCIATE"
            /\ m_nConnStat' = [m_nConnStat EXCEPT ![c] = "OK"]
  PROVE  \A l \in Link : TalkOK(l)'
<1> SUFFICES ASSUME NEW l \in Link PROVE TalkOK(l)'
  OBVIOUS
<1>1. TalkOK(l) /\ TalkOK(c) /\ nLink \in Nat /\ nLink' \in Nat
  BY LifecycleAssumption DEF TypeInv
<1>2. CASE l # c
  <2>1. told'[l] = told[l] /\ m_nConnStat'[l] = m_nConnStat[l]
    BY <1>2 DEF TypeInv
  <2>2. QED
    BY <1>1, <2>1, TalkKept
<1>3. CASE l = c
  <2>1. told'[l] = Append(told[c], x) /\ told[c] \in Seq(Calls) /\ x \in Calls
    BY <1>3 DEF TypeInv, Calls
  <2>2. Conversation(told[c], FALSE)
    BY <1>1 DEF TalkOK, Conversation
  <2>3. (x = "OnConnect" => ~Greeted(told[c])) /\ (x = "OnRecv" => Greeted(told[c]))
    BY <1>1 DEF TalkOK
  <2>4. /\ Conversation(told'[l], FALSE)
        /\ Greeted(told'[l]) <=> Greeted(told[c]) \/ x = "OnConnect"
    <3>1. /\ Conversation(Append(told[c], x), FALSE)
          /\ Greeted(Append(told[c], x)) <=> Greeted(told[c]) \/ x = "OnConnect"
      BY <2>1, <2>2, <2>3, OneMore
    <3>2. QED
      BY <2>1, <3>1, Zenon
  <2>5. Conversation(told'[l], m_poSock'[l] = NoSock)
    BY <1>3, <2>4 DEF Conversation
  <2>6. \/ x # "OnConnect" /\ m_nConnStat'[l] = m_nConnStat[c]
        \/ x = "OnConnect" /\ m_nConnStat'[l] = "OK"
    BY <1>3 DEF TypeInv
  <2>7. ~(l > nLink')
    BY <1>3 DEF Link, TypeInv
  <2>8. (Greeted(told[l]))' <=> Greeted(told'[l])
    BY DEF Greeted
  <2>9. Conversation(told[l], m_poSock[l] = NoSock)'
    BY <2>5 DEF Conversation
  <2>10. QED
    BY <1>1, <1>3, <2>4, <2>6, <2>7, <2>8, <2>9 DEF TalkOK
<1>4. QED
  BY <1>2, <1>3

LEMMA ToldOne ==
  ASSUME TypeInv, NEW c \in Link, NEW x \in Calls, Tell(c, <<x>>)
  PROVE  told' = [told EXCEPT ![c] = Append(told[c], x)]
<1>1. told[c] \in Seq(Calls)
  BY DEF TypeInv
<1>2. Append(told[c], x) = told[c] \o <<x>>
  BY <1>1, AppendIsConcat
<1>3. QED
  BY <1>2 DEF Tell

LEMMA ThreeCalls ==
  ASSUME NEW t \in Seq(Calls)
  PROVE  t \o <<"OnConnect", "OnClose", "Release">> =
           Append(t, "OnConnect") \o <<"OnClose", "Release">>
<1>1. "OnConnect" \in Calls /\ <<"OnConnect">> \in Seq(Calls)
        /\ <<"OnClose", "Release">> \in Seq(Calls)
  BY DEF Calls
<1>2. <<"OnConnect">> \o <<"OnClose", "Release">> = <<"OnConnect", "OnClose", "Release">>
  <2> DEFINE a == <<"OnConnect">> \o <<"OnClose", "Release">>
             b == <<"OnConnect", "OnClose", "Release">>
  <2>1. /\ a \in Seq(Calls) /\ Len(a) = 3
        /\ a[1] = "OnConnect" /\ a[2] = "OnClose" /\ a[3] = "Release"
    BY <1>1, ConcatProperties
  <2>2. /\ b \in Seq(Calls) /\ Len(b) = 3
        /\ b[1] = "OnConnect" /\ b[2] = "OnClose" /\ b[3] = "Release"
    BY DEF Calls
  <2> HIDE DEF a, b
  <2>3. \A i \in 1 .. 3 : a[i] = b[i]
    <3>1. \A i \in 1 .. 3 : i = 1 \/ i = 2 \/ i = 3
      OBVIOUS
    <3>2. QED
      BY <2>1, <2>2, <3>1
  <2>4. a = b
    BY <2>1, <2>2, <2>3, SeqEqual
  <2>5. QED
    BY <2>4 DEF a, b
<1>3. Append(t, "OnConnect") = t \o <<"OnConnect">>
  BY <1>1, AppendIsConcat
<1>4. (t \o <<"OnConnect">>) \o <<"OnClose", "Release">> =
        t \o (<<"OnConnect">> \o <<"OnClose", "Release">>)
  BY <1>1, ConcatAssociative
<1>5. QED
  BY <1>2, <1>3, <1>4, Zenon

\* The end of connection c: its session hears of it.
LEMMA Farewell ==
  ASSUME TypeInv, \A l \in Link : TalkOK(l), NEW c \in Link, m_poSock[c] # NoSock,
         c <= nLink, UNCHANGED nLink,
         m_poSock' = [m_poSock EXCEPT ![c] = NoSock],
         m_nConnStat' = [m_nConnStat EXCEPT ![c] = "NONE"],
         NEW last, told' = [told EXCEPT ![c] = told[c] \o last],
         \/ last = <<"Release">> \/ last = <<"OnClose", "Release">>
         \/ last = <<"OnConnect", "OnClose", "Release">> /\ m_nConnStat[c] = "ASSOCIATE"
  PROVE  \A l \in Link : TalkOK(l)'
<1> SUFFICES ASSUME NEW l \in Link PROVE TalkOK(l)'
  OBVIOUS
<1>1. TalkOK(l) /\ TalkOK(c) /\ nLink \in Nat /\ nLink' \in Nat
  BY LifecycleAssumption DEF TypeInv
<1>2. CASE l # c
  <2>1. told'[l] = told[l] /\ m_nConnStat'[l] = m_nConnStat[l] /\ m_poSock'[l] = m_poSock[l]
    BY <1>2 DEF TypeInv
  <2>2. QED
    BY <1>1, <2>1, TalkKept
<1>3. CASE l = c
  <2>1. told[c] \in Seq(Calls) /\ Conversation(told[c], FALSE)
    BY <1>1 DEF TalkOK, Conversation, TypeInv
  <2>2. PICK u : u = told[c] \o last
    OBVIOUS
  <2>3. Conversation(u, TRUE) /\ u # <<>> /\ u[Len(u)] = "Release"
    <3>1. <<"Release">> \in Seq(Calls) /\ <<"OnClose", "Release">> \in Seq(Calls)
      BY DEF Calls
    <3>2. CASE last = <<"Release">> \/ last = <<"OnClose", "Release">>
      BY <2>1, <2>2, <3>1, <3>2, TheEnd
    <3>3. CASE last = <<"OnConnect", "OnClose", "Release">> /\ m_nConnStat[c] = "ASSOCIATE"
      <4>1. PICK t : t = Append(told[c], "OnConnect")
        OBVIOUS
      <4>2. ~Greeted(told[c])
        BY <1>1, <3>3 DEF TalkOK
      <4>3. t \in Seq(Calls) /\ Conversation(t, FALSE)
        <5>1. "OnConnect" \in Calls
          BY DEF Calls
        <5>2. t \in Seq(Calls)
          BY <2>1, <4>1, <5>1, AppendProperties
        <5>3. Conversation(Append(told[c], "OnConnect"), FALSE)
          BY <2>1, <4>2, <5>1, OneMore
        <5>4. QED
          BY <4>1, <5>2, <5>3
      <4>4. u = t \o <<"OnClose", "Release">>
        BY <2>1, <2>2, <3>3, <4>1, ThreeCalls, Zenon
      <4>5. QED
        BY <3>1, <4>3, <4>4, TheEnd
    <3>4. QED
      BY <3>2, <3>3
  <2>4. told'[l] = u /\ m_poSock'[l] = NoSock /\ m_nConnStat'[l] = "NONE"
    BY <1>3, <2>2 DEF TypeInv
  <2>5. Conversation(told[l], m_poSock[l] = NoSock)'
    BY <2>3, <2>4 DEF Conversation
  <2>6. ~(l > nLink')
    BY <1>3 DEF Link, TypeInv
  <2>7. QED
    BY <2>3, <2>4, <2>5, <2>6 DEF TalkOK
<1>4. QED
  BY <1>2, <1>3

\* A new connection, which its session has heard nothing of.
LEMMA NewTalk ==
  ASSUME TypeInv, Pairing, \A l \in Link : TalkOK(l), nLink < MaxLinks,
         NEW s \in Sock, m_poSock' = [m_poSock EXCEPT ![nLink + 1] = s],
         nLink' = nLink + 1, UNCHANGED told,
         \/ UNCHANGED m_nConnStat
         \/ m_nConnStat' = [m_nConnStat EXCEPT ![nLink + 1] = "CONN"]
  PROVE  \A l \in Link : TalkOK(l)'
<1>1. nLink \in Nat /\ nLink' \in Nat /\ nLink + 1 \in Link
  BY LifecycleAssumption DEF TypeInv, Link
<1> SUFFICES ASSUME NEW l \in Link PROVE TalkOK(l)'
  OBVIOUS
<1>2. CASE l = nLink + 1
  <2>1. told'[l] = <<>>
    BY <1>1, <1>2 DEF TalkOK
  <2>2. m_poSock'[l] = s /\ s # NoSock /\ ~(l > nLink')
    BY <1>1, <1>2, LifecycleAssumption DEF TypeInv
  <2>3. m_nConnStat[l] = "NONE"
    <3>1. m_poSock[l] = NoSock
      <4>1. ASSUME m_poSock[l] # NoSock PROVE FALSE
        <5>1. m_poSock[l] \in Sock /\ conn[m_poSock[l]] = l
          BY <4>1 DEF TypeInv, Pairing
        <5>2. l <= nLink
          BY <5>1 DEF Pairing, Link, NoLink
        <5>3. QED
          BY <1>1, <1>2, <5>2
      <4>2. QED
        BY <4>1
    <3>2. QED
      BY <3>1 DEF TalkOK
  <2>4. m_nConnStat'[l] # "OK"
    BY <1>1, <1>2, <2>3 DEF TypeInv
  <2>5. QED
    BY <2>1, <2>2, <2>4 DEF TalkOK, Conversation, Greeted
<1>3. CASE l # nLink + 1
  <2>1. told'[l] = told[l] /\ m_nConnStat'[l] = m_nConnStat[l] /\ m_poSock'[l] = m_poSock[l]
    BY <1>1, <1>3 DEF TypeInv
  <2>2. l <= nLink' <=> l <= nLink
    BY <1>1, <1>3 DEF Link
  <2>3. QED
    BY <1>1, <2>1, <2>2, TalkKept
<1>4. QED
  BY <1>2, <1>3

LEMMA SessionStep == TypeInv /\ Pairing /\ SessionInv /\ Next => SessionInv'
<1> SUFFICES ASSUME TypeInv, Pairing, SessionInv, Next, reused' = {}
             PROVE  \A l \in Link : TalkOK(l)'
  BY DEF SessionInv
<1>1. ASSUME reused = {} PROVE \A l \in Link : TalkOK(l)
  BY <1>1 DEF SessionInv
<1>2. nLink \in Nat /\ conn \in [Sock -> Link \cup {NoLink}]
  BY LifecycleAssumption DEF TypeInv
<1>3. ASSUME UNCHANGED <<told, m_poSock, m_nConnStat, nLink, reused>>
      PROVE  \A l \in Link : TalkOK(l)'
  BY <1>1, <1>2, <1>3, TalkKept
\* m_nConnStat of one connection changes.
<1>4. ASSUME NEW c \in Link, m_poSock[c] # NoSock, NEW stat,
             m_nConnStat' = [m_nConnStat EXCEPT ![c] = stat],
             \/ stat = "CLOSING"
             \/ stat = "ASSOCIATE" /\ m_nConnStat[c] \in {"NONE", "CONN"},
             UNCHANGED <<told, m_poSock, nLink, reused>>
      PROVE  \A l \in Link : TalkOK(l)'
  <2> SUFFICES ASSUME NEW l \in Link PROVE TalkOK(l)'
    OBVIOUS
  <2>1. TalkOK(l)
    BY <1>1, <1>4
  <2>2. CASE l # c
    <3>1. m_nConnStat'[l] = m_nConnStat[l]
      BY <1>4, <2>2 DEF TypeInv
    <3>2. QED
      BY <1>2, <1>4, <2>1, <3>1, TalkKept
  <2>3. CASE l = c
    <3>1. m_nConnStat'[l] = stat
      BY <1>4, <2>3 DEF TypeInv
    <3>2. QED
      BY <1>4, <2>1, <2>3, <3>1 DEF TalkOK, Conversation, Greeted
  <2>4. QED
    BY <2>2, <2>3
\* The session of an object's connection can be spoken to.
<1>5. ASSUME NEW s \in Sock, conn[s] # NoLink
      PROVE  conn[s] \in Link /\ m_poSock[conn[s]] # NoSock /\ conn[s] <= nLink
  BY <1>2, <1>5, LifecycleAssumption DEF Pairing
<1>6. ASSUME NEW s \in Sock, conn[s] # NoLink, TellError(conn[s]),
             UNCHANGED <<m_poSock, m_nConnStat, nLink, reused>>
      PROVE  \A l \in Link : TalkOK(l)'
  <2>1. CASE UNCHANGED told
    BY <1>3, <1>6, <2>1
  <2>2. CASE told' = [told EXCEPT ![conn[s]] = Append(told[conn[s]], "OnError")]
    BY <1>1, <1>5, <1>6, <2>2, Speak
  <2>3. QED
    BY <1>5, <1>6, <2>1, <2>2 DEF TellError, TypeInv
<1>7. ASSUME NEW c \in Link, NEW x \in Calls, Tell(c, <<x>>)
      PROVE  told' = [told EXCEPT ![c] = Append(told[c], x)]
  BY <1>7, ToldOne
<1>8. CASE OnAccept
  <2>1. PICK s \in free : m_poSock' = [m_poSock EXCEPT ![nLink + 1] = s] /\ nLink' = nLink + 1
    BY <1>8 DEF OnAccept
  <2>2. s \in Sock /\ nLink < MaxLinks /\ UNCHANGED <<told, m_nConnStat, reused>>
    BY <1>8 DEF OnAccept, TypeInv
  <2>3. QED
    BY <1>1, <2>1, <2>2, NewTalk
<1>9. CASE TcpConnect
  <2>1. PICK s \in free : /\ m_poSock' = [m_poSock EXCEPT ![nLink + 1] = s]
                          /\ nLink' = nLink + 1
                          /\ m_nConnStat' = [m_nConnStat EXCEPT ![nLink + 1] = "CONN"]
    BY <1>9 DEF TcpConnect
  <2>2. s \in Sock /\ nLink < MaxLinks /\ UNCHANGED <<told, reused>>
    BY <1>9 DEF TcpConnect, TypeInv
  <2>3. QED
    BY <1>1, <2>1, <2>2, NewTalk
<1>10. CASE UndoAccept
  BY <1>10 DEF UndoAccept
<1>11. CASE PushAssociate \/ PushEstablish \/ PushAssociateMain \/ EndConnect
  BY <1>3, <1>11 DEF PushAssociate, PushEstablish, PushAssociateMain, EndConnect, connVars, counters
<1>12. ASSUME NEW c \in Link, SessionClose(c) \/ Reconnect(c) PROVE \A l \in Link : TalkOK(l)'
  BY <1>4, <1>12 DEF SessionClose, Reconnect, counters
<1>13. CASE DrainDelayClose \/ WaitEvents \/ HandleEvents
  <2>1. UNCHANGED <<told, m_poSock, m_nConnStat, nLink, reused>>
    BY <1>13 DEF DrainDelayClose, WaitEvents, HandleEvents, EndOnConnect, OnRecv, OnNothing,
       OnIoError, OnConnect, connVars, counters
  <2>2. QED
    BY <1>3, <2>1
<1>14. ASSUME NEW type, Runs(type) PROVE EventSock \in Sock /\ EventConn = conn[EventSock]
  BY <1>14, HeadType DEF Runs, EventConn
<1>15. CASE ProcAssociate
  BY <1>3, <1>4, <1>5, <1>14, <1>15 DEF ProcAssociate, Ignored, connVars
<1>16. CASE ProcEstablish
  <2>1. EventSock \in Sock /\ EventConn = conn[EventSock]
    BY <1>14, <1>16 DEF ProcEstablish
  <2>2. CASE UNCHANGED <<told, m_poSock, m_nConnStat, nLink, reused>>
    BY <1>3, <2>2
  <2>3. CASE /\ EventConn # NoLink /\ m_nConnStat[EventConn] = "ASSOCIATE"
             /\ m_nConnStat' = [m_nConnStat EXCEPT ![EventConn] = "OK"]
             /\ Tell(EventConn, <<"OnConnect">>)
             /\ UNCHANGED <<m_poSock, nLink, reused>>
    <3>1. "OnConnect" \in Calls
      BY DEF Calls
    <3>2. told' = [told EXCEPT ![EventConn] = Append(told[EventConn], "OnConnect")]
      BY <1>5, <1>7, <2>1, <2>3, <3>1
    <3>3. QED
      BY <1>1, <1>5, <2>1, <2>3, <3>2, Speak
  <2>4. QED
    BY <1>16, <2>2, <2>3 DEF ProcEstablish, Ignored, connVars
<1>17. ASSUME NEW type \in {"RECV", "ERROR"}, ProcToSession(type) PROVE \A l \in Link : TalkOK(l)'
  <2>1. EventSock \in Sock /\ EventConn = conn[EventSock]
    BY <1>14, <1>17 DEF ProcToSession
  <2>2. CASE UNCHANGED <<told, m_poSock, m_nConnStat, nLink, reused>>
    BY <1>3, <2>2
  <2>3. CASE /\ EventConn # NoLink /\ m_nConnStat[EventConn] = "OK"
             /\ Tell(EventConn, <<"OnRecv">>)
             /\ UNCHANGED <<m_nConnStat, m_poSock, nLink, reused>>
    <3>1. "OnRecv" \in Calls
      BY DEF Calls
    <3>2. told' = [told EXCEPT ![EventConn] = Append(told[EventConn], "OnRecv")]
      BY <1>5, <1>7, <2>1, <2>3, <3>1
    <3>3. QED
      BY <1>1, <1>5, <2>1, <2>3, <3>2, Speak
  <2>4. CASE /\ EventConn # NoLink /\ TellError(EventConn)
             /\ UNCHANGED <<m_nConnStat, m_poSock, nLink, reused>>
    BY <1>6, <2>1, <2>4
  <2>5. QED
    BY <1>17, <2>2, <2>3, <2>4 DEF ProcToSession, Ignored, connVars
<1>18. CASE ProcRecv
  BY <1>3, <1>17, <1>18 DEF ProcRecv, connVars, counters
<1>19. CASE ProcConnectError
  <2>1. EventSock \in Sock /\ EventConn = conn[EventSock]
    BY <1>14, <1>19 DEF ProcConnectError
  <2>2. \/ UNCHANGED <<told, m_poSock, m_nConnStat, nLink, reused>>
        \/ /\ EventConn # NoLink /\ TellError(EventConn)
           /\ UNCHANGED <<m_nConnStat, m_poSock, nLink, reused>>
    BY <1>19 DEF ProcConnectError, Ignored, connVars
  <2>3. QED
    BY <1>3, <1>6, <2>1, <2>2
<1>20. CASE ProcTerminate
  BY <1>3, <1>20 DEF ProcTerminate, connVars, counters
<1>21. CASE ProcRelease
  <2>1. EventSock \in Sock /\ EventConn = conn[EventSock] /\ UNCHANGED <<nLink, reused>>
    BY <1>14, <1>21 DEF ProcRelease, counters
  <2>2. CASE EventConn = NoLink
    BY <1>3, <1>21, <2>1, <2>2, <1>2 DEF ProcRelease, connVars
  <2>3. CASE EventConn # NoLink
    <3>1. /\ m_poSock' = [m_poSock EXCEPT ![EventConn] = NoSock]
          /\ m_nConnStat' = [m_nConnStat EXCEPT ![EventConn] = "NONE"]
      BY <1>21, <2>3 DEF ProcRelease
    <3>2. PICK last : /\ told' = [told EXCEPT ![EventConn] = told[EventConn] \o last]
                      /\ \/ last = <<"Release">> \/ last = <<"OnClose", "Release">>
                         \/ /\ last = <<"OnConnect", "OnClose", "Release">>
                            /\ m_nConnStat[EventConn] = "ASSOCIATE"
      <4>1. CASE m_nConnStat[EventConn] = "NONE"
        BY <1>21, <2>3, <4>1 DEF ProcRelease, Tell
      <4>2. CASE m_nConnStat[EventConn] = "ASSOCIATE"
        BY <1>21, <2>3, <4>2 DEF ProcRelease, Tell
      <4>3. CASE m_nConnStat[EventConn] \notin {"NONE", "ASSOCIATE"}
        BY <1>21, <2>3, <4>3 DEF ProcRelease, Tell
      <4>4. QED
        BY <4>1, <4>2, <4>3
    <3>3. QED
      BY <1>1, <1>5, <2>1, <2>3, <3>1, <3>2, Farewell
  <2>4. QED
    BY <2>2, <2>3
<1>22. QED
  BY <1>8, <1>9, <1>10, <1>11, <1>12, <1>13, <1>15, <1>16, <1>17, <1>18, <1>19, <1>20, <1>21
     DEF Next, Accept, Connect, ProcEvent, ProcError

-----------------------------------------------------------------------------
(* Announcements and messages                                               *)

\* Event i is of this type and for object s.
Is(i, type, s) == queue[i].eType = type /\ queue[i].poSock = s

Announced(l) == m_nConnStat[l] \in {"OK", "CLOSING"}
Joined(l) == m_nConnStat[l] = "ASSOCIATE" \/ Announced(l)

\* The connection of s is ready for ESTABLISH by the time event k is run, and
\* announced to its session by then.
Associated(s, k) == Joined(conn[s]) \/ \E i \in 1 .. k - 1 : Is(i, "ASSOCIATE", s)
Established(s, k) ==
  \/ Announced(conn[s])
  \/ \E j \in 1 .. k - 1 : Is(j, "ESTABLISH", s) /\ Associated(s, j)

\* A connection that is open has its announcement behind it, pending, or still
\* in the hands of the thread that is making it, unless the IO thread was early.
AnnOK(s) ==
  conn[s] # NoLink /\ hSock[s] # INVALID_SOCKET =>
    /\ state[s] = "CONNECT" =>
         \/ at["main"] = "associate" /\ arg["main"].sock = s
         \/ Associated(s, Len(queue) + 1)
    /\ state[s] = "ESTABLISH" /\ conn[s] \notin early =>
         \/ at["accept"] = "associate" /\ arg["accept"].sock = s
         \/ /\ at["accept"] = "establish" /\ arg["accept"].sock = s
            /\ Associated(s, Len(queue) + 1)
         \/ Established(s, Len(queue) + 1)

\* A message pending at k is its object's present connection's, is run before
\* the end of that connection, and not before its announcement unless it is early.
RecvOK(k) ==
  queue[k].eType = "RECV" =>
    /\ queue[k].link # NoLink /\ conn[queue[k].poSock] = queue[k].link
    /\ state[queue[k].poSock] \in {"ESTABLISH", "CLOSE"}
    /\ \A i \in 1 .. Len(queue) : EndsAt(i, queue[k].poSock) => k < i
    /\ queue[k].link \in early \/ Established(queue[k].poSock, k)

LEMMA Later ==
  ASSUME NEW s, NEW m \in Int, NEW n \in Int, m <= n
  PROVE  /\ Associated(s, m) => Associated(s, n)
         /\ Established(s, m) => Established(s, n)
<1>1. \A i \in 1 .. m - 1 : i \in 1 .. n - 1
  OBVIOUS
<1>2. Associated(s, m) => Associated(s, n)
  BY <1>1 DEF Associated
<1>3. Established(s, m) => Established(s, n)
  BY <1>1 DEF Established
<1>4. QED
  BY <1>2, <1>3

\* What is announced, or will be by event k, stays so while the queue moves.
Keeps(d, s) ==
  \A k \in 1 .. Len(queue) + 1 :
    /\ Associated(s, k) => Associated(s, k - d)'
    /\ Established(s, k) => Established(s, k - d)'

LEMMA KeepsAnnouncements ==
  ASSUME TypeInv, NEW d, NEW evs, Moves(d, evs), NEW s \in Sock, conn'[s] = conn[s],
         Joined(conn[s]) => Joined(conn[s])',
         Announced(conn[s]) => Announced(conn[s])',
         d = 1 /\ Is(1, "ASSOCIATE", s) => Joined(conn[s])',
         d = 1 /\ Is(1, "ESTABLISH", s) /\ Joined(conn[s]) => Announced(conn[s])'
  PROVE  Keeps(d, s)
<1>1. Len(queue) \in Nat /\ Len(evs) \in Nat /\ (d = 0 \/ d = 1)
  BY LenProperties DEF TypeInv, Moves
<1>2. ASSUME NEW i \in 1 .. Len(queue), i > d
      PROVE  i - d \in 1 .. Len(queue') /\ queue'[i - d] = queue[i]
  <2>1. i - d \in 1 .. Len(queue) - d /\ (i - d) + d = i
    BY <1>1, <1>2
  <2>2. Len(queue') = Len(queue) - d + Len(evs)
    BY DEF Moves
  <2>3. i - d \in 1 .. Len(queue')
    BY <1>1, <2>1, <2>2
  <2>4. queue'[i - d] = queue[(i - d) + d]
    BY <2>1 DEF Moves
  <2>5. QED
    BY <2>1, <2>3, <2>4
<1>3. ASSUME NEW k \in 1 .. Len(queue) + 1, Associated(s, k) PROVE Associated(s, k - d)'
  <2>1. CASE Joined(conn[s])
    BY <2>1 DEF Associated
  <2>2. CASE ~Joined(conn[s])
    <3>1. PICK i \in 1 .. k - 1 : Is(i, "ASSOCIATE", s)
      BY <1>3, <2>2 DEF Associated
    <3>2. i \in 1 .. Len(queue)
      BY <1>1
    <3>3. CASE i > d
      <4>1. i - d \in 1 .. (k - d) - 1 /\ queue'[i - d] = queue[i]
        BY <1>1, <1>2, <3>2, <3>3
      <4>2. PICK j \in 1 .. (k - d) - 1 : queue'[j] = queue[i]
        BY <4>1
      <4>3. Is(j, "ASSOCIATE", s)'
        BY <3>1, <4>2 DEF Is
      <4>4. QED
        BY <4>3 DEF Associated
    <3>4. CASE ~(i > d)
      <4>1. i = 1 /\ d = 1
        BY <1>1, <3>2, <3>4
      <4>2. QED
        BY <3>1, <4>1 DEF Associated
    <3>5. QED
      BY <3>3, <3>4
  <2>3. QED
    BY <2>1, <2>2
<1>4. ASSUME NEW k \in 1 .. Len(queue) + 1, Established(s, k) PROVE Established(s, k - d)'
  <2>1. CASE Announced(conn[s])
    BY <2>1 DEF Established
  <2>2. CASE ~Announced(conn[s])
    <3>1. PICK i \in 1 .. k - 1 : Is(i, "ESTABLISH", s) /\ Associated(s, i)
      BY <1>4, <2>2 DEF Established
    <3>2. i \in 1 .. Len(queue) /\ i \in 1 .. Len(queue) + 1
      BY <1>1
    <3>3. CASE i > d
      <4>1. i - d \in 1 .. (k - d) - 1 /\ queue'[i - d] = queue[i]
        BY <1>1, <1>2, <3>2, <3>3
      <4>2. PICK j \in 1 .. (k - d) - 1 : j = i - d /\ queue'[j] = queue[i]
        BY <4>1
      <4>3. Is(j, "ESTABLISH", s)'
        BY <3>1, <4>2 DEF Is
      <4>4. Associated(s, j)'
        BY <1>3, <3>1, <3>2, <4>2 DEF Associated
      <4>5. QED
        BY <4>3, <4>4 DEF Established
    <3>4. CASE ~(i > d)
      <4>1. i = 1 /\ d = 1
        BY <1>1, <3>2, <3>4
      <4>2. Joined(conn[s])
        BY <3>1, <4>1 DEF Associated
      <4>3. QED
        BY <3>1, <4>1, <4>2 DEF Established
    <3>5. QED
      BY <3>3, <3>4
  <2>3. QED
    BY <2>1, <2>2
<1>5. QED
  BY <1>3, <1>4 DEF Keeps

\* Object s keeps its connection; it may be closed meanwhile, not opened.
Same(s) == /\ conn'[s] = conn[s]
           /\ state'[s] = state[s] \/ (state[s] = "ESTABLISH" /\ state'[s] = "CLOSE")
           /\ hSock'[s] # INVALID_SOCKET => hSock[s] # INVALID_SOCKET

\* The threads that make connections go on with the announcement of s.
GoOn(s) ==
  /\ at["main"] = "associate" /\ arg["main"].sock = s =>
       \/ at'["main"] = "associate" /\ arg'["main"].sock = s
       \/ Associated(s, Len(queue) + 1)'
  /\ at["accept"] = "associate" /\ arg["accept"].sock = s =>
       \/ at'["accept"] = "associate" /\ arg'["accept"].sock = s
       \/ /\ at'["accept"] = "establish" /\ arg'["accept"].sock = s
          /\ Associated(s, Len(queue) + 1)'
  /\ at["accept"] = "establish" /\ arg["accept"].sock = s /\ Associated(s, Len(queue) + 1)' =>
       \/ at'["accept"] = "establish" /\ arg'["accept"].sock = s
       \/ Established(s, Len(queue) + 1)'

LEMMA KeepsToTheEnd ==
  ASSUME TypeInv, NEW d, NEW evs, Moves(d, evs), NEW s \in Sock, Keeps(d, s)
  PROVE  /\ Associated(s, Len(queue) + 1) => Associated(s, Len(queue) + 1)'
         /\ Established(s, Len(queue) + 1) => Established(s, Len(queue) + 1)'
<1>1. Len(queue) \in Nat /\ Len(evs) \in Nat /\ (d = 0 \/ d = 1)
        /\ Len(queue') = Len(queue) - d + Len(evs)
  BY LenProperties DEF TypeInv, Moves
<1>2. PICK m \in Int : m = Len(queue) + 1 - d
  BY <1>1
<1>3. PICK n \in Int : n = Len(queue') + 1
  BY <1>1
<1>4. m <= n /\ Len(queue) + 1 \in 1 .. Len(queue) + 1
  BY <1>1, <1>2, <1>3
<1>5. /\ Associated(s, Len(queue) + 1) => Associated(s, m)'
      /\ Established(s, Len(queue) + 1) => Established(s, m)'
  <2>1. PICK k \in 1 .. Len(queue) + 1 : k = Len(queue) + 1
    BY <1>4
  <2>2. (Associated(s, k) => Associated(s, k - d)') /\ (Established(s, k) => Established(s, k - d)')
    BY DEF Keeps
  <2>3. k - d = m
    BY <1>1, <1>2, <2>1
  <2>4. (Associated(s, k) => Associated(s, m)') /\ (Established(s, k) => Established(s, m)')
    BY <2>2, <2>3 DEF Associated, Established
  <2>5. QED
    BY <2>1, <2>4
<1>6. (Associated(s, m) => Associated(s, n))' /\ (Established(s, m) => Established(s, n))'
  <2>1. \A i \in 1 .. m - 1 : i \in 1 .. n - 1
    BY <1>4
  <2>2. (Associated(s, m) => Associated(s, n))'
    BY <2>1 DEF Associated
  <2>3. (Established(s, m) => Established(s, n))'
    BY <2>1 DEF Established
  <2>4. QED
    BY <2>2, <2>3
<1>7. /\ Associated(s, n)' => Associated(s, Len(queue) + 1)'
      /\ Established(s, n)' => Established(s, Len(queue) + 1)'
  BY <1>3 DEF Associated, Established
<1>8. QED
  BY <1>5, <1>6, <1>7

LEMMA AnnKept ==
  ASSUME TypeInv, NEW d, NEW evs, Moves(d, evs), NEW s \in Sock, AnnOK(s), Same(s),
         conn[s] # NoLink => Keeps(d, s), conn[s] # NoLink => GoOn(s),
         early \subseteq early'
  PROVE  AnnOK(s)'
<1> SUFFICES ASSUME conn'[s] # NoLink, hSock'[s] # INVALID_SOCKET
             PROVE  /\ state'[s] = "CONNECT" =>
                         \/ at'["main"] = "associate" /\ arg'["main"].sock = s
                         \/ Associated(s, Len(queue) + 1)'
                    /\ state'[s] = "ESTABLISH" /\ conn'[s] \notin early' =>
                         \/ at'["accept"] = "associate" /\ arg'["accept"].sock = s
                         \/ /\ at'["accept"] = "establish" /\ arg'["accept"].sock = s
                            /\ Associated(s, Len(queue) + 1)'
                         \/ Established(s, Len(queue) + 1)'
  BY DEF AnnOK
<1>1. conn[s] # NoLink /\ hSock[s] # INVALID_SOCKET /\ GoOn(s) /\ Keeps(d, s)
        /\ conn'[s] = conn[s]
  BY DEF Same
<1>2. /\ Associated(s, Len(queue) + 1) => Associated(s, Len(queue) + 1)'
      /\ Established(s, Len(queue) + 1) => Established(s, Len(queue) + 1)'
  BY <1>1, KeepsToTheEnd
<1>3. ASSUME state'[s] = "CONNECT"
      PROVE  \/ at'["main"] = "associate" /\ arg'["main"].sock = s
             \/ Associated(s, Len(queue) + 1)'
  <2>1. state[s] = "CONNECT"
    BY <1>3 DEF Same
  <2>2. QED
    BY <1>1, <1>2, <2>1 DEF AnnOK, GoOn
<1>4. ASSUME state'[s] = "ESTABLISH", conn'[s] \notin early'
      PROVE  \/ at'["accept"] = "associate" /\ arg'["accept"].sock = s
             \/ /\ at'["accept"] = "establish" /\ arg'["accept"].sock = s
                /\ Associated(s, Len(queue) + 1)'
             \/ Established(s, Len(queue) + 1)'
  <2>1. state[s] = "ESTABLISH" /\ conn[s] \notin early
    BY <1>1, <1>4 DEF Same
  <2>2. QED
    BY <1>1, <1>2, <2>1 DEF AnnOK, GoOn
<1>5. QED
  BY <1>3, <1>4

LEMMA RecvKept ==
  ASSUME TypeInv, NEW d, NEW evs, Moves(d, evs), \A k \in 1 .. Len(queue) : RecvOK(k),
         early \subseteq early',
         \A k \in 1 .. Len(queue) : k > d /\ queue[k].eType = "RECV" =>
           /\ conn'[queue[k].poSock] = conn[queue[k].poSock]
           /\ state'[queue[k].poSock] \in {"ESTABLISH", "CLOSE"}
           /\ Keeps(d, queue[k].poSock),
         \A k \in 1 .. Len(queue') : k > Len(queue) - d => RecvOK(k)'
  PROVE  \A k \in 1 .. Len(queue') : RecvOK(k)'
<1> SUFFICES ASSUME NEW m \in 1 .. Len(queue'), ~(m > Len(queue) - d) PROVE RecvOK(m)'
  OBVIOUS
<1>1. Len(queue) \in Nat /\ Len(evs) \in Nat /\ (d = 0 \/ d = 1)
        /\ Len(queue') = Len(queue) - d + Len(evs)
  BY LenProperties DEF TypeInv, Moves
<1>2. m \in 1 .. Len(queue) - d
  BY <1>1
<1>3. PICK k \in 1 .. Len(queue) : k = m + d /\ k > d /\ queue'[m] = queue[k]
  BY <1>1, <1>2 DEF Moves
<1> SUFFICES ASSUME queue[k].eType = "RECV"
             PROVE  /\ queue[k].link # NoLink /\ conn'[queue[k].poSock] = queue[k].link
                    /\ state'[queue[k].poSock] \in {"ESTABLISH", "CLOSE"}
                    /\ \A i \in 1 .. Len(queue') : EndsAt(i, queue[m].poSock)' => m < i
                    /\ queue[k].link \in early' \/ Established(queue[m].poSock, m)'
  BY <1>3 DEF RecvOK
<1>4. RecvOK(k)
  OBVIOUS
<1>5. PICK s : s = queue[k].poSock
  OBVIOUS
<1>6. /\ queue[k].link # NoLink /\ conn[s] = queue[k].link
      /\ \A i \in 1 .. Len(queue) : EndsAt(i, s) => k < i
      /\ queue[k].link \in early \/ Established(s, k)
  BY <1>4, <1>5 DEF RecvOK
<1>7. conn'[s] = conn[s] /\ state'[s] \in {"ESTABLISH", "CLOSE"} /\ Keeps(d, s)
  BY <1>3, <1>5
<1>8. ASSUME NEW i \in 1 .. Len(queue'), IsDeath(queue'[i]), queue'[i].poSock = s PROVE m < i
  <2>1. CASE i <= Len(queue) - d
    <3>1. i + d \in 1 .. Len(queue) /\ queue'[i] = queue[i + d]
      BY <1>1, <2>1 DEF Moves
    <3>2. k < i + d
      BY <1>6, <1>8, <3>1 DEF EndsAt
    <3>3. QED
      BY <1>1, <1>3, <3>2
  <2>2. CASE ~(i <= Len(queue) - d)
    BY <1>1, <1>2, <2>2
  <2>3. QED
    BY <2>1, <2>2
<1>9. Established(s, k) => Established(s, m)'
  <2>1. k \in 1 .. Len(queue) + 1 /\ k - d = m
    BY <1>1, <1>3
  <2>2. Established(s, k) => Established(s, k - d)'
    BY <1>7, <2>1 DEF Keeps
  <2>3. QED
    BY <2>1, <2>2
<1>10. Established(s, m)' => Established(queue[m].poSock, m)'
  BY <1>3, <1>5 DEF Established, Associated, Is
<1>11. \A i \in 1 .. Len(queue') : EndsAt(i, queue[m].poSock)' => m < i
  BY <1>3, <1>5, <1>8 DEF EndsAt, IsDeath
<1>12. QED
  BY <1>5, <1>6, <1>7, <1>9, <1>10, <1>11

-----------------------------------------------------------------------------
(* Counting messages                                                        *)

LEMMA ShiftedSize ==
  ASSUME NEW S \in SUBSET Nat, IsFiniteSet(S), NEW d \in Nat
  PROVE  LET T == {i - d : i \in S}
         IN  IsFiniteSet(T) /\ Cardinality(T) = Cardinality(S)
<1> DEFINE T == {i - d : i \in S}
           f == [i \in S |-> i - d]
<1>1. f \in Bijection(S, T)
  <2>1. f \in [S -> T]
    OBVIOUS
  <2>2. \A a, b \in S : f[a] = f[b] => a = b
    OBVIOUS
  <2>3. \A t \in T : \E s \in S : f[s] = t
    OBVIOUS
  <2>4. QED
    BY <2>1, <2>2, <2>3 DEF Bijection, Injection, Surjection, IsInjective
<1>2. ExistsBijection(S, T)
  BY <1>1 DEF ExistsBijection
<1>3. QED
  BY <1>2, FS_Bijection

\* The places in a sequence where a call, or a message of l, stands.
Places(t, call) == {i \in 1 .. Len(t) : t[i] = call}
Messages(q, l) == {i \in 1 .. Len(q) : q[i].eType = "RECV" /\ q[i].link = l}

LEMMA FinitePlaces ==
  ASSUME NEW n \in Nat, NEW S \in SUBSET (1 .. n)
  PROVE  IsFiniteSet(S) /\ Cardinality(S) \in Nat
<1>1. IsFiniteSet(1 .. n)
  BY FS_Interval
<1>2. QED
  BY <1>1, FS_Subset, FS_CardinalityType

LEMMA CallCounted ==
  ASSUME NEW t \in Seq(Calls), NEW x \in Calls
  PROVE  /\ x # "OnRecv" =>
              Cardinality(Places(Append(t, x), "OnRecv")) = Cardinality(Places(t, "OnRecv"))
         /\ x = "OnRecv" =>
              Cardinality(Places(Append(t, x), "OnRecv")) = Cardinality(Places(t, "OnRecv")) + 1
<1> DEFINE u == Append(t, x)
<1>1. /\ Len(t) \in Nat /\ Len(u) = Len(t) + 1 /\ u[Len(t) + 1] = x
      /\ \A i \in 1 .. Len(t) : u[i] = t[i]
  BY LenProperties, AppendProperties
<1> HIDE DEF u
<1>2. IsFiniteSet(Places(t, "OnRecv"))
  BY <1>1, FinitePlaces DEF Places
<1>3. ASSUME x # "OnRecv" PROVE Places(u, "OnRecv") = Places(t, "OnRecv")
  BY <1>1, <1>3 DEF Places
<1>4. ASSUME x = "OnRecv"
      PROVE  /\ Places(u, "OnRecv") = Places(t, "OnRecv") \cup {Len(t) + 1}
             /\ Len(t) + 1 \notin Places(t, "OnRecv")
  BY <1>1, <1>4 DEF Places
<1>5. ASSUME x = "OnRecv"
      PROVE  Cardinality(Places(u, "OnRecv")) = Cardinality(Places(t, "OnRecv")) + 1
  BY <1>2, <1>4, <1>5, FS_AddElement
<1>6. QED
  BY <1>3, <1>5 DEF u

\* The messages of l pending, when the queue moves.
LEMMA MessagesCounted ==
  ASSUME TypeInv, NEW d, NEW evs, Moves(d, evs), NEW l, 
         \A i \in 1 .. Len(evs) : ~(evs[i].eType = "RECV" /\ evs[i].link = l)
  PROVE  /\ Cardinality(Messages(queue, l)) \in Nat
         /\ 1 \in 1 .. d /\ 1 \in Messages(queue, l) =>
              Cardinality(Messages(queue', l)) = Cardinality(Messages(queue, l)) - 1
         /\ ~(1 \in 1 .. d /\ 1 \in Messages(queue, l)) =>
              Cardinality(Messages(queue', l)) = Cardinality(Messages(queue, l))
<1> DEFINE S == Messages(queue, l)
           R == {i \in S : i > d}
<1>1. Len(queue) \in Nat /\ Len(evs) \in Nat /\ d \in Nat /\ (d = 0 \/ d = 1)
        /\ Len(queue') = Len(queue) - d + Len(evs)
  BY LenProperties DEF TypeInv, Moves
<1>2. S \in SUBSET (1 .. Len(queue)) /\ R \in SUBSET (1 .. Len(queue)) /\ R \in SUBSET Nat
  BY <1>1 DEF Messages
<1>3. IsFiniteSet(S) /\ IsFiniteSet(R) /\ Cardinality(S) \in Nat
  BY <1>1, <1>2, FinitePlaces
<1>4. Messages(queue', l) = {i - d : i \in R}
  <2>1. ASSUME NEW i \in Messages(queue', l) PROVE i \in {k - d : k \in R}
    <3>1. i \in 1 .. Len(queue') /\ queue'[i].eType = "RECV" /\ queue'[i].link = l
      BY <2>1 DEF Messages
    <3>2. CASE i <= Len(queue) - d
      <4>1. i + d \in 1 .. Len(queue) /\ queue'[i] = queue[i + d] /\ i + d > d /\ i = (i + d) - d
        BY <1>1, <3>1, <3>2 DEF Moves
      <4>2. i + d \in R
        BY <3>1, <4>1 DEF Messages
      <4>3. QED
        BY <4>1, <4>2
    <3>3. CASE ~(i <= Len(queue) - d)
      <4>1. /\ i - (Len(queue) - d) \in 1 .. Len(evs)
            /\ queue'[Len(queue) - d + (i - (Len(queue) - d))] = evs[i - (Len(queue) - d)]
            /\ Len(queue) - d + (i - (Len(queue) - d)) = i
        BY <1>1, <3>1, <3>3 DEF Moves
      <4>2. QED
        BY <3>1, <4>1
    <3>4. QED
      BY <3>2, <3>3
  <2>2. ASSUME NEW k \in R PROVE k - d \in Messages(queue', l)
    <3>1. k \in 1 .. Len(queue) /\ queue[k].eType = "RECV" /\ queue[k].link = l /\ k > d
      BY <2>2 DEF Messages
    <3>2. k - d \in 1 .. Len(queue) - d /\ k - d \in 1 .. Len(queue') /\ (k - d) + d = k
      BY <1>1, <3>1
    <3>3. queue'[k - d] = queue[k]
      BY <3>2 DEF Moves
    <3>4. QED
      BY <3>1, <3>2, <3>3 DEF Messages
  <2>3. QED
    BY <2>1, <2>2
<1> HIDE DEF R
<1>5. Cardinality(Messages(queue', l)) = Cardinality(R)
  BY <1>1, <1>2, <1>3, <1>4, ShiftedSize
<1>6. ASSUME 1 \in 1 .. d, 1 \in S PROVE Cardinality(R) = Cardinality(S) - 1
  <2>1. R = S \ {1}
    BY <1>1, <1>2, <1>6 DEF R
  <2>2. QED
    BY <1>3, <1>6, <2>1, FS_RemoveElement
<1>7. ASSUME ~(1 \in 1 .. d /\ 1 \in S) PROVE R = S
  BY <1>1, <1>2, <1>7 DEF R
<1>8. QED
  BY <1>3, <1>5, <1>6, <1>7

LEMMA MessageAdded ==
  ASSUME TypeInv, NEW e \in Ev, e.eType = "RECV", queue' = Append(queue, e)
  PROVE  Cardinality(Messages(queue', e.link)) = Cardinality(Messages(queue, e.link)) + 1
<1>1. queue \in Seq(Ev) /\ Len(queue) \in Nat
  BY LenProperties DEF TypeInv
<1>2. /\ Len(queue') = Len(queue) + 1 /\ queue'[Len(queue) + 1] = e
      /\ \A i \in 1 .. Len(queue) : queue'[i] = queue[i]
  BY <1>1, AppendProperties
<1>3. IsFiniteSet(Messages(queue, e.link))
  BY <1>1, FinitePlaces DEF Messages
<1>4. /\ Messages(queue', e.link) = Messages(queue, e.link) \cup {Len(queue) + 1}
      /\ Len(queue) + 1 \notin Messages(queue, e.link)
  BY <1>1, <1>2 DEF Messages
<1>5. QED
  BY <1>3, <1>4, FS_AddElement

LEMMA PushedEvent ==
  ASSUME TypeInv, NEW d, NEW evs, Moves(d, evs), NEW k \in 1 .. Len(queue'),
         k > Len(queue) - d
  PROVE  \E i \in 1 .. Len(evs) : queue'[k] = evs[i]
<1>1. Len(queue) \in Nat /\ Len(evs) \in Nat
  BY LenProperties DEF TypeInv, Moves
<1>2. /\ k - (Len(queue) - d) \in 1 .. Len(evs)
      /\ queue'[Len(queue) - d + (k - (Len(queue) - d))] = evs[k - (Len(queue) - d)]
      /\ Len(queue) - d + (k - (Len(queue) - d)) = k
  BY <1>1 DEF Moves
<1>3. QED
  BY <1>2

\* A message received on an open connection has reached the session or is
\* pending; none has been received on one that is yet to be made.
CountOK(l) ==
  /\ l > nLink => nRecv[l] = 0
  /\ /\ m_poSock[l] # NoSock /\ state[m_poSock[l]] # "CLOSE"
     /\ m_nConnStat[l] # "CLOSING" /\ l \notin early
     => Cardinality(Places(told[l], "OnRecv")) + Cardinality(Messages(queue, l)) = nRecv[l]

Traffic ==
  /\ \A s \in Sock : AnnOK(s)
  /\ \A k \in 1 .. Len(queue) : RecvOK(k)
  /\ \A l \in Link : CountOK(l)

TrafficInv == reused = {} => Traffic

\* No connection goes back in what its session knows of it.
Rises == \A l \in Link : /\ Joined(l) => Joined(l)'
                         /\ Announced(l) => Announced(l)'

LEMMA AllKeep ==
  ASSUME TypeInv, NEW d, NEW evs, Moves(d, evs), Rises,
         d = 1 => queue[1].eType \notin {"ASSOCIATE", "ESTABLISH"},
         NEW s \in Sock, conn[s] # NoLink, conn'[s] = conn[s]
  PROVE  Keeps(d, s)
<1>1. PICK l \in Link : l = conn[s]
  BY DEF TypeInv
<1>2. (Joined(l) => Joined(l)') /\ (Announced(l) => Announced(l)')
  BY DEF Rises
<1>3. (Joined(conn[s]) => Joined(conn[s])') /\ (Announced(conn[s]) => Announced(conn[s])')
  BY <1>1, <1>2 DEF Joined, Announced
<1>4. d = 1 => ~Is(1, "ASSOCIATE", s) /\ ~Is(1, "ESTABLISH", s)
  BY DEF Is
<1>5. QED
  BY <1>3, <1>4, KeepsAnnouncements

\* No connection is made and no message comes; a message that is run is counted.
LEMMA TrafficKept ==
  ASSUME TypeInv, Traffic, NEW d, NEW evs, Moves(d, evs), \A s \in Sock : Same(s),
         \A s \in Sock : conn[s] # NoLink => Keeps(d, s) /\ GoOn(s),
         early \subseteq early',
         \A i \in 1 .. Len(evs) : evs[i].eType # "RECV",
         \A l \in Link : \/ CountOK(l)'
                         \/ /\ m_nConnStat[l] = "CLOSING" => m_nConnStat'[l] = "CLOSING"
                            /\ Cardinality(Places(told'[l], "OnRecv")) =
                                 Cardinality(Places(told[l], "OnRecv"))
                            /\ d = 1 => 1 \notin Messages(queue, l),
         UNCHANGED <<m_poSock, nRecv, nLink>>
  PROVE  Traffic'
<1>1. Len(queue) \in Nat /\ Len(evs) \in Nat /\ (d = 0 \/ d = 1)
        /\ Len(queue') = Len(queue) - d + Len(evs)
  BY LenProperties DEF TypeInv, Moves
<1>2. \A s \in Sock : AnnOK(s)'
  BY AnnKept DEF Traffic
<1>3. \A k \in 1 .. Len(queue') : RecvOK(k)'
  <2>1. ASSUME NEW k \in 1 .. Len(queue), queue[k].eType = "RECV"
        PROVE  /\ conn'[queue[k].poSock] = conn[queue[k].poSock]
               /\ state'[queue[k].poSock] \in {"ESTABLISH", "CLOSE"}
               /\ Keeps(d, queue[k].poSock)
    <3>1. PICK s \in Sock : s = queue[k].poSock
      <4>1. queue \in Seq(Ev)
        BY DEF TypeInv
      <4>2. queue[k] \in Ev
        BY <4>1, LenProperties
      <4>3. QED
        BY <4>2 DEF Ev
    <3>2. conn[s] # NoLink /\ state[s] \in {"ESTABLISH", "CLOSE"}
      BY <2>1, <3>1 DEF Traffic, RecvOK
    <3>3. QED
      BY <3>1, <3>2 DEF Same
  <2>2. ASSUME NEW k \in 1 .. Len(queue'), k > Len(queue) - d PROVE RecvOK(k)'
    <3>1. PICK i \in 1 .. Len(evs) : queue'[k] = evs[i]
      BY <2>2, PushedEvent
    <3>2. QED
      BY <3>1 DEF RecvOK
  <2>3. QED
    BY <2>1, <2>2, RecvKept DEF Traffic
<1>4. ASSUME NEW l \in Link PROVE CountOK(l)'
  <2> SUFFICES ASSUME /\ m_nConnStat[l] = "CLOSING" => m_nConnStat'[l] = "CLOSING"
                      /\ Cardinality(Places(told'[l], "OnRecv")) =
                           Cardinality(Places(told[l], "OnRecv"))
                      /\ d = 1 => 1 \notin Messages(queue, l)
               PROVE  CountOK(l)'
    OBVIOUS
  <2>1. Cardinality(Messages(queue', l)) = Cardinality(Messages(queue, l))
    <3>1. ~(1 \in 1 .. d /\ 1 \in Messages(queue, l))
      BY <1>1
    <3>2. QED
      BY <3>1, MessagesCounted
  <2>2. ASSUME m_poSock'[l] # NoSock, state'[m_poSock'[l]] # "CLOSE"
        PROVE  state[m_poSock[l]] # "CLOSE" /\ m_poSock[l] # NoSock
    <3>1. m_poSock[l] \in Sock /\ Same(m_poSock[l])
      BY <2>2 DEF TypeInv
    <3>2. QED
      BY <2>2, <3>1 DEF Same
  <2>3. CountOK(l)
    BY DEF Traffic
  <2>4. QED
    BY <2>1, <2>2, <2>3 DEF CountOK
<1>5. QED
  BY <1>2, <1>3, <1>4 DEF Traffic

\* Nothing is announced or told; an object may be closed.
LEMMA TrafficPlain ==
  ASSUME TypeInv, Traffic, NEW d, NEW evs, Moves(d, evs), \A s \in Sock : Same(s),
         Rises, \A s \in Sock : conn[s] # NoLink => GoOn(s), early \subseteq early',
         \A i \in 1 .. Len(evs) : evs[i].eType # "RECV",
         d = 1 => queue[1].eType \notin {"ASSOCIATE", "ESTABLISH", "RECV"},
         \A l \in Link : /\ m_nConnStat[l] = "CLOSING" => m_nConnStat'[l] = "CLOSING"
                         /\ Cardinality(Places(told'[l], "OnRecv")) =
                              Cardinality(Places(told[l], "OnRecv")),
         UNCHANGED <<m_poSock, nRecv, nLink>>
  PROVE  Traffic'
<1>1. \A s \in Sock : conn[s] # NoLink => Keeps(d, s)
  BY AllKeep DEF Same
<1>2. \A l \in Link : d = 1 => 1 \notin Messages(queue, l)
  BY DEF Messages
<1>3. QED
  BY <1>1, <1>2, TrafficKept

LEMMA SameUnchanged ==
  ASSUME UNCHANGED <<conn, state, hSock>> PROVE \A s \in Sock : Same(s)
BY DEF Same

LEMMA RisesUnchanged == ASSUME UNCHANGED m_nConnStat PROVE Rises
BY DEF Rises, Joined, Announced

LEMMA GoOnUnchanged ==
  ASSUME UNCHANGED <<at, arg>> PROVE \A s \in Sock : GoOn(s)
BY DEF GoOn

LEMMA CloseSame ==
  ASSUME TypeInv, NEW c \in Sock, NEW q, NEW evs, Close(c, q, evs), UNCHANGED conn
  PROVE  \A s \in Sock : Same(s)
<1> SUFFICES ASSUME NEW s \in Sock PROVE Same(s)
  OBVIOUS
<1>1. state'[s] = state[s] \/ (state[s] = "ESTABLISH" /\ state'[s] = "CLOSE")
  BY DEF Close, IsConnected, TypeInv
<1>2. hSock'[s] # INVALID_SOCKET => hSock[s] # INVALID_SOCKET
  BY DEF Close, TypeInv
<1>3. QED
  BY <1>1, <1>2 DEF Same

LEMMA CloseTraffic ==
  ASSUME TypeInv, Traffic, NEW c \in Sock, NEW evs \in Seq(Ev), Close(c, queue, evs),
         \A i \in 1 .. Len(evs) : evs[i].eType # "RECV",
         Rises, \A s \in Sock : conn[s] # NoLink => GoOn(s), early \subseteq early',
         \A l \in Link : m_nConnStat[l] = "CLOSING" => m_nConnStat'[l] = "CLOSING",
         UNCHANGED <<conn, m_poSock, nRecv, nLink, told>>
  PROVE  Traffic'
<1> DEFINE t == Event(c, "TERMINATE", conn[c])
           more == evs \o <<t>>
<1>1. \A s \in Sock : Same(s)
  BY CloseSame
<1>2. (CloseIsDone(c) => Moves(0, evs)) /\ (~CloseIsDone(c) => Moves(0, more))
  <2>1. PICK d, q : d = 0 /\ q = queue
    OBVIOUS
  <2>2. Close(c, q, evs)
    BY <2>1
  <2>3. (CloseIsDone(c) => Moves(d, evs)) /\ (~CloseIsDone(c) => Moves(d, more))
    BY <2>1, <2>2, CloseMoves
  <2>4. QED
    BY <2>1, <2>3
<1>3. t \in Ev /\ t.eType = "TERMINATE" /\ Len(evs) \in Nat
  BY EventType, LenProperties DEF EventTypes, TypeInv
<1> HIDE DEF t
<1>4. \A i \in 1 .. Len(more) : more[i].eType # "RECV"
  <2>1. /\ Len(more) = Len(evs) + 1 /\ more[Len(evs) + 1] = t
        /\ \A i \in 1 .. Len(evs) : more[i] = evs[i]
    BY <1>3
  <2> HIDE DEF more
  <2>2. \A i \in 1 .. Len(more) : i \in 1 .. Len(evs) \/ i = Len(evs) + 1
    BY <1>3, <2>1
  <2>3. QED
    BY <1>3, <2>1, <2>2
<1> HIDE DEF more
<1>5. CASE CloseIsDone(c)
  BY <1>1, <1>2, <1>5, TrafficPlain
<1>6. CASE ~CloseIsDone(c)
  BY <1>1, <1>2, <1>4, <1>6, TrafficPlain
<1>7. QED
  BY <1>5, <1>6

\* A connection is made for an object of the pool.
LEMMA TrafficNew ==
  ASSUME TypeInv, Pairing, Traffic, \A l \in Link : TalkOK(l), nLink < MaxLinks,
         NEW c \in free, NEW evs, Moves(0, evs),
         \A i \in 1 .. Len(evs) : evs[i].eType # "RECV",
         conn' = [conn EXCEPT ![c] = nLink + 1],
         m_poSock' = [m_poSock EXCEPT ![nLink + 1] = c], nLink' = nLink + 1,
         \/ UNCHANGED m_nConnStat
         \/ m_nConnStat' = [m_nConnStat EXCEPT ![nLink + 1] = "CONN"],
         UNCHANGED <<told, nRecv, early>>,
         \A r \in Sock \ {c} : hSock'[r] = hSock[r] /\ state'[r] = state[r] /\ GoOn(r),
         AnnOK(c)'
  PROVE  Traffic'
<1>1. nLink \in Nat /\ nLink + 1 \in Link /\ c \in Sock /\ conn[c] = NoLink /\ NoLink \notin Link
        /\ conn \in [Sock -> Link \cup {NoLink}] /\ m_poSock \in [Link -> Sock \cup {NoSock}]
        /\ m_nConnStat \in [Link -> ConnStats]
  BY LifecycleAssumption DEF TypeInv, Link, Pairing, NoLink
<1>2. Len(queue) \in Nat /\ Len(evs) \in Nat
  BY LenProperties DEF TypeInv, Moves
<1>3. \A r \in Sock \ {c} : Same(r)
  BY <1>1 DEF Same
<1>4. m_poSock[nLink + 1] = NoSock
  <2>1. ASSUME m_poSock[nLink + 1] # NoSock PROVE FALSE
    <3>1. PICK r \in Sock : r = m_poSock[nLink + 1] /\ conn[r] = nLink + 1
      BY <1>1, <2>1 DEF Pairing
    <3>2. nLink + 1 <= nLink
      BY <1>1, <3>1 DEF Pairing
    <3>3. QED
      BY <1>1, <3>2
  <2>2. QED
    BY <2>1
<1>5. Rises
  <2>1. m_nConnStat[nLink + 1] = "NONE"
    BY <1>1, <1>4 DEF TalkOK
  <2>2. ASSUME NEW l \in Link, Joined(l) PROVE m_nConnStat'[l] = m_nConnStat[l]
    BY <1>1, <2>1, <2>2 DEF Joined, Announced
  <2>3. QED
    BY <2>2 DEF Rises, Joined, Announced
<1>6. \A r \in Sock \ {c} : conn[r] # NoLink => Keeps(0, r)
  BY <1>3, <1>5, AllKeep DEF Same
<1>7. ASSUME NEW r \in Sock PROVE AnnOK(r)'
  <2>1. CASE r # c
    BY <1>3, <1>6, <2>1, AnnKept DEF Traffic
  <2>2. QED
    BY <2>1
<1>8. \A k \in 1 .. Len(queue') : RecvOK(k)'
  <2>1. ASSUME NEW k \in 1 .. Len(queue), queue[k].eType = "RECV"
        PROVE  /\ conn'[queue[k].poSock] = conn[queue[k].poSock]
               /\ state'[queue[k].poSock] \in {"ESTABLISH", "CLOSE"}
               /\ Keeps(0, queue[k].poSock)
    <3>1. PICK s \in Sock : s = queue[k].poSock
      <4>1. queue[k] \in Ev
        BY LenProperties DEF TypeInv
      <4>2. QED
        BY <4>1 DEF Ev
    <3>2. conn[s] # NoLink /\ state[s] \in {"ESTABLISH", "CLOSE"}
      BY <2>1, <3>1 DEF Traffic, RecvOK
    <3>3. s \in Sock \ {c}
      BY <1>1, <3>2
    <3>4. QED
      BY <1>3, <1>6, <3>1, <3>2, <3>3 DEF Same
  <2>2. ASSUME NEW k \in 1 .. Len(queue'), k > Len(queue) - 0 PROVE RecvOK(k)'
    <3>1. PICK i \in 1 .. Len(evs) : queue'[k] = evs[i]
      BY <2>2, PushedEvent
    <3>2. QED
      BY <3>1 DEF RecvOK
  <2>3. early \subseteq early' /\ \A k \in 1 .. Len(queue) : RecvOK(k)
    BY DEF Traffic
  <2>4. QED
    BY <2>1, <2>2, <2>3, RecvKept
<1>9. ASSUME NEW l \in Link PROVE CountOK(l)'
  <2>1. Cardinality(Messages(queue', l)) = Cardinality(Messages(queue, l))
    <3>1. ~(1 \in 1 .. 0)
      OBVIOUS
    <3>2. QED
      BY <3>1, MessagesCounted
  <2>2. CountOK(l)
    BY DEF Traffic
  <2>3. CASE l = nLink + 1
    <3>1. Messages(queue, l) = {}
      <4>1. ASSUME NEW k \in Messages(queue, l) PROVE FALSE
        <5>1. k \in 1 .. Len(queue) /\ queue[k].eType = "RECV" /\ queue[k].link = nLink + 1
          BY <2>3, <4>1 DEF Messages
        <5>2. conn[queue[k].poSock] = nLink + 1
          BY <5>1 DEF Traffic, RecvOK
        <5>3. queue[k] \in Ev
          BY <5>1, LenProperties DEF TypeInv
        <5>4. queue[k].poSock \in Sock
          BY <5>3 DEF Ev
        <5>5. nLink + 1 <= nLink
          BY <1>1, <5>2, <5>4 DEF Pairing
        <5>6. QED
          BY <1>1, <5>5
      <4>2. QED
        BY <4>1
    <3>2. told[l] = <<>> /\ nRecv[l] = 0
      BY <1>1, <2>2, <2>3 DEF TalkOK, CountOK
    <3>3. Places(told'[l], "OnRecv") = {}
      BY <3>2 DEF Places
    <3>4. Cardinality(Places(told'[l], "OnRecv")) = 0 /\ Cardinality(Messages(queue', l)) = 0
      BY <2>1, <3>1, <3>3, FS_EmptySet
    <3>5. QED
      BY <3>2, <3>4 DEF CountOK
  <2>4. CASE l # nLink + 1
    <3>1. m_poSock'[l] = m_poSock[l] /\ m_nConnStat'[l] = m_nConnStat[l]
      BY <1>1, <2>4
    <3>2. m_poSock[l] # NoSock => m_poSock[l] \in Sock \ {c}
      BY <1>1 DEF Pairing
    <3>3. l > nLink' => l > nLink
      BY <1>1 DEF Link
    <3>4. QED
      BY <2>1, <2>2, <3>1, <3>2, <3>3 DEF CountOK
  <2>5. QED
    BY <2>3, <2>4
<1>10. QED
  BY <1>7, <1>8, <1>9 DEF Traffic

\* A message is received and pushed.
LEMMA TrafficRecv ==
  ASSUME TypeInv, Pairing, Traffic, NEW c \in Sock, ObjOK(c), OnRecv(c)
  PROVE  Traffic'
<1>1. /\ conn[c] \in Link /\ conn[c] # NoLink /\ state[c] = "ESTABLISH" /\ connecting # c
      /\ nRecv' = [nRecv EXCEPT ![conn[c]] = nRecv[conn[c]] + 1]
      /\ queue' = Append(queue, Event(c, "RECV", conn[c])) /\ NoteEarly(c)
      /\ UNCHANGED <<conn, state, hSock, m_nConnStat, m_poSock, told, at, arg, nLink>>
  BY LifecycleAssumption DEF OnRecv, IsConnected, TypeInv, sockVars, connVars, threadVars
<1>2. PICK e \in Ev : /\ e = Event(c, "RECV", conn[c]) /\ e.poSock = c
                      /\ e.eType = "RECV" /\ e.link = conn[c]
  BY <1>1, EventType DEF EventTypes
<1>3. Moves(0, <<e>>) /\ queue' = Append(queue, e)
  BY <1>1, <1>2, MovesAppend
<1>4. Len(queue) \in Nat /\ Len(queue') = Len(queue) + 1 /\ queue'[Len(queue) + 1] = e
  BY <1>3, LenProperties DEF TypeInv, Moves
<1>5. early \subseteq early' /\ (\A s \in Sock : Same(s)) /\ Rises /\ \A s \in Sock : GoOn(s)
  BY <1>1, SameUnchanged, RisesUnchanged, GoOnUnchanged DEF NoteEarly
<1>6. \A s \in Sock : conn[s] # NoLink => Keeps(0, s)
  BY <1>3, <1>5, AllKeep DEF Same
<1>7. \A s \in Sock : AnnOK(s)'
  BY <1>3, <1>5, <1>6, AnnKept DEF Traffic
<1>8. PICK n \in 1 .. Len(queue) + 1 : n = Len(queue) + 1 /\ RecvOK(n)'
  <2>1. NoEnd(c)'
    <3>1. NoEnd(c)
      BY <1>1 DEF ObjOK
    <3>2. \A i \in 1 .. Len(<<e>>) : ~(IsDeath(<<e>>[i]) /\ <<e>>[i].poSock = c)
      BY <1>2 DEF IsDeath
    <3>3. \A k \in 1 .. Len(queue) : EndsAt(k, c) => k <= 0
      BY <3>1 DEF NoEnd
    <3>4. QED
      BY <1>3, <3>2, <3>3, LastEnd
  <2>2. ASSUME conn[c] \notin early' PROVE Established(c, Len(queue) + 1)
    <3>1. conn[c] \notin early /\ \A t \in Threads : at[t] # "idle" => arg[t].sock # c
      BY <1>1, <2>2 DEF NoteEarly
    <3>2. hSock[c] # INVALID_SOCKET
      BY <1>1 DEF ObjOK
    <3>3. AnnOK(c)
      BY DEF Traffic
    <3>4. QED
      BY <1>1, <3>1, <3>2, <3>3 DEF AnnOK, Threads
  <2>3. PICK n \in 1 .. Len(queue) + 1 : n = Len(queue) + 1
    BY <1>4
  <2>4. Established(c, n) => Established(c, n)'
    <3>1. Established(c, n) => Established(c, n - 0)'
      BY <1>1, <1>6 DEF Keeps
    <3>2. n - 0 = n
      BY <1>4
    <3>3. QED
      BY <3>1, <3>2 DEF Established, Associated
  <2>5. queue'[n] = e /\ n = Len(queue')
    BY <1>4, <2>3
  <2>6. conn[c] \in early' \/ Established(c, n)'
    BY <2>2, <2>3, <2>4
  <2>7. \A i \in 1 .. Len(queue') : ~EndsAt(i, c)'
    BY <2>1 DEF NoEnd
  <2>8. RecvOK(n)'
    BY <1>1, <1>2, <2>5, <2>6, <2>7 DEF RecvOK, EndsAt, Established, Associated, Is
  <2>9. QED
    BY <2>3, <2>8
<1>9. \A k \in 1 .. Len(queue') : RecvOK(k)'
  <2>1. ASSUME NEW k \in 1 .. Len(queue), queue[k].eType = "RECV"
        PROVE  /\ conn'[queue[k].poSock] = conn[queue[k].poSock]
               /\ state'[queue[k].poSock] \in {"ESTABLISH", "CLOSE"}
               /\ Keeps(0, queue[k].poSock)
    <3>1. PICK s \in Sock : s = queue[k].poSock
      <4>1. queue[k] \in Ev
        BY LenProperties DEF TypeInv
      <4>2. QED
        BY <4>1 DEF Ev
    <3>2. conn[s] # NoLink /\ state[s] \in {"ESTABLISH", "CLOSE"}
      BY <2>1, <3>1 DEF Traffic, RecvOK
    <3>3. QED
      BY <1>1, <1>6, <3>1, <3>2
  <2>2. ASSUME NEW k \in 1 .. Len(queue'), k > Len(queue) - 0 PROVE RecvOK(k)'
    <3>1. k = n
      BY <1>4, <1>8, <2>2
    <3>2. QED
      BY <1>8, <3>1
  <2>3. \A k \in 1 .. Len(queue) : RecvOK(k)
    BY DEF Traffic
  <2>4. QED
    BY <1>3, <1>5, <2>1, <2>2, <2>3, RecvKept
<1>10. ASSUME NEW l \in Link PROVE CountOK(l)'
  <2>1. CountOK(l) /\ nRecv \in [Link -> Nat] /\ Cardinality(Messages(queue, l)) \in Nat
    <3>1. Cardinality(Messages(queue, l)) \in Nat
      BY <1>4, FinitePlaces DEF Messages
    <3>2. QED
      BY <3>1 DEF Traffic, TypeInv
  <2>2. Cardinality(Places(told[l], "OnRecv")) \in Nat
    <3>1. Len(told[l]) \in Nat
      BY LenProperties DEF TypeInv
    <3>2. QED
      BY <3>1, FinitePlaces DEF Places
  <2>3. CASE l = conn[c]
    <3>1. Cardinality(Messages(queue', l)) = Cardinality(Messages(queue, l)) + 1
      BY <1>2, <1>3, <2>3, MessageAdded
    <3>2. nRecv'[l] = nRecv[l] + 1
      BY <1>1, <2>1, <2>3
    <3>3. ~(l > nLink)
      BY <1>1, <2>3, LifecycleAssumption DEF TypeInv, Pairing, Link
    <3>4. QED
      BY <1>1, <1>5, <2>1, <2>2, <3>1, <3>2, <3>3 DEF CountOK
  <2>4. CASE l # conn[c]
    <3>1. Cardinality(Messages(queue', l)) = Cardinality(Messages(queue, l))
      <4>1. \A i \in 1 .. Len(<<e>>) : ~(<<e>>[i].eType = "RECV" /\ <<e>>[i].link = l)
        BY <1>2, <2>4
      <4>2. ~(1 \in 1 .. 0)
        OBVIOUS
      <4>3. QED
        BY <1>3, <4>1, <4>2, MessagesCounted
    <3>2. nRecv'[l] = nRecv[l]
      BY <1>1, <2>1, <2>4
    <3>3. QED
      BY <1>1, <1>5, <2>1, <3>1, <3>2 DEF CountOK
  <2>5. QED
    BY <2>3, <2>4
<1>11. QED
  BY <1>7, <1>9, <1>10 DEF Traffic

\* A connecting socket is established, and announced unless the IO thread is early.
LEMMA TrafficConnect ==
  ASSUME TypeInv, Traffic, NEW c \in Sock, OnConnect(c) PROVE Traffic'
<1>1. /\ conn[c] \in Link \cup {NoLink} /\ state[c] = "CONNECT" /\ NoteEarly(c)
      /\ state' = [state EXCEPT ![c] = "ESTABLISH"]
      /\ queue' = Append(queue, Event(c, "ESTABLISH", conn[c]))
      /\ UNCHANGED <<conn, hSock, m_nConnStat, m_poSock, told, at, arg, nLink, nRecv>>
  BY DEF OnConnect, TypeInv, connVars, threadVars, counters
<1>2. PICK e \in Ev : /\ e = Event(c, "ESTABLISH", conn[c]) /\ e.poSock = c
                      /\ e.eType = "ESTABLISH"
  BY <1>1, EventType DEF EventTypes
<1>3. Moves(0, <<e>>) /\ \A i \in 1 .. Len(<<e>>) : <<e>>[i].eType # "RECV"
  BY <1>1, <1>2, MovesAppend
<1>4. Len(queue) \in Nat /\ Len(queue') = Len(queue) + 1 /\ queue'[Len(queue) + 1] = e
  BY <1>3, LenProperties DEF TypeInv, Moves
<1>5. early \subseteq early' /\ Rises /\ \A s \in Sock : GoOn(s)
  BY <1>1, RisesUnchanged, GoOnUnchanged DEF NoteEarly
<1>6. \A s \in Sock \ {c} : Same(s)
  BY <1>1 DEF Same, TypeInv
<1>7. \A s \in Sock : conn[s] # NoLink => Keeps(0, s)
  BY <1>1, <1>3, <1>5, AllKeep
<1>8. AnnOK(c)'
  <2> SUFFICES ASSUME conn[c] # NoLink, hSock[c] # INVALID_SOCKET, conn[c] \notin early'
               PROVE  Established(c, Len(queue) + 1)'
    <3>1. state'[c] = "ESTABLISH"
      BY <1>1 DEF TypeInv
    <3>2. QED
      BY <1>1, <3>1 DEF AnnOK
  <2>1. ~(at["main"] = "associate" /\ arg["main"].sock = c)
    BY <1>1 DEF NoteEarly, Threads
  <2>2. Associated(c, Len(queue) + 1)
    BY <1>1, <2>1 DEF Traffic, AnnOK
  <2>3. PICK n \in 1 .. Len(queue) + 1 : n = Len(queue) + 1
    BY <1>4
  <2>4. Associated(c, n)'
    <3>1. Associated(c, n) => Associated(c, n - 0)'
      BY <1>7 DEF Keeps
    <3>2. n - 0 = n
      BY <1>4
    <3>3. QED
      BY <2>2, <2>3, <3>1, <3>2 DEF Associated
  <2>5. Is(n, "ESTABLISH", c)' /\ n \in 1 .. (Len(queue') + 1) - 1
    BY <1>2, <1>4, <2>3 DEF Is
  <2>6. QED
    BY <2>4, <2>5 DEF Established
<1>9. \A s \in Sock : AnnOK(s)'
  <2> SUFFICES ASSUME NEW s \in Sock, s # c PROVE AnnOK(s)'
    BY <1>8
  <2>1. QED
    BY <1>3, <1>5, <1>6, <1>7, AnnKept DEF Traffic
<1>10. \A k \in 1 .. Len(queue') : RecvOK(k)'
  <2>1. ASSUME NEW k \in 1 .. Len(queue), queue[k].eType = "RECV"
        PROVE  /\ conn'[queue[k].poSock] = conn[queue[k].poSock]
               /\ state'[queue[k].poSock] \in {"ESTABLISH", "CLOSE"}
               /\ Keeps(0, queue[k].poSock)
    <3>1. PICK s \in Sock : s = queue[k].poSock
      <4>1. queue[k] \in Ev
        BY LenProperties DEF TypeInv
      <4>2. QED
        BY <4>1 DEF Ev
    <3>2. conn[s] # NoLink /\ state[s] \in {"ESTABLISH", "CLOSE"}
      BY <2>1, <3>1 DEF Traffic, RecvOK
    <3>3. s \in Sock \ {c}
      BY <1>1, <3>2
    <3>4. QED
      BY <1>6, <1>7, <3>1, <3>2, <3>3 DEF Same
  <2>2. ASSUME NEW k \in 1 .. Len(queue'), k > Len(queue) - 0 PROVE RecvOK(k)'
    <3>1. PICK i \in 1 .. Len(<<e>>) : queue'[k] = <<e>>[i]
      BY <1>3, <2>2, PushedEvent
    <3>2. QED
      BY <1>3, <3>1 DEF RecvOK
  <2>3. \A k \in 1 .. Len(queue) : RecvOK(k)
    BY DEF Traffic
  <2>4. QED
    BY <1>3, <1>5, <2>1, <2>2, <2>3, RecvKept
<1>11. ASSUME NEW l \in Link PROVE CountOK(l)'
  <2>1. Cardinality(Messages(queue', l)) = Cardinality(Messages(queue, l))
    <3>1. ~(1 \in 1 .. 0)
      OBVIOUS
    <3>2. QED
      BY <1>3, <3>1, MessagesCounted
  <2>2. ASSUME m_poSock[l] # NoSock, state'[m_poSock[l]] # "CLOSE"
        PROVE  state[m_poSock[l]] # "CLOSE"
    BY <1>1, <2>2 DEF TypeInv
  <2>3. CountOK(l)
    BY DEF Traffic
  <2>4. QED
    BY <1>1, <1>5, <2>1, <2>2, <2>3 DEF CountOK
<1>12. QED
  BY <1>9, <1>10, <1>11 DEF Traffic

\* The end of a connection: its messages have all been run before.
LEMMA TrafficRelease ==
  ASSUME TypeInv, Pairing, Traffic, ProcRelease PROVE Traffic'
<1>1. /\ queue # <<>> /\ Head(queue).eType = "RELEASE" /\ SockRelease(EventSock)
      /\ queue' = Tail(queue)
      /\ UNCHANGED <<at, arg, nLink, nRecv, early>>
  BY DEF ProcRelease, Runs, threadVars, counters
<1>2. PICK c \in Sock : c = EventSock
  BY <1>1, HeadType
<1>3. /\ Moves(1, <<>>) /\ Len(queue) \in Nat \ {0} /\ queue[1].eType = "RELEASE"
      /\ queue[1].poSock = c
  BY <1>1, <1>2, HeadType, MovesPop DEF EventSock
<1>4. /\ conn \in [Sock -> Link \cup {NoLink}] /\ m_poSock \in [Link -> Sock \cup {NoSock}]
      /\ m_nConnStat \in [Link -> ConnStats] /\ told \in [Link -> Seq(Calls)]
      /\ state \in [Sock -> SockStates] /\ hSock \in [Sock -> Fd \cup {INVALID_SOCKET}]
      /\ NoLink \notin Link /\ NoSock \notin Sock
  BY LifecycleAssumption DEF TypeInv, Link, NoLink
<1>5. ASSUME NEW l \in Link, l # conn[c]
      PROVE  m_poSock'[l] = m_poSock[l] /\ m_nConnStat'[l] = m_nConnStat[l] /\ told'[l] = told[l]
  BY <1>2, <1>4, <1>5 DEF ProcRelease, EventConn, Tell, connVars
<1>6. conn[c] \in Link => m_poSock'[conn[c]] = NoSock
  BY <1>2, <1>4 DEF ProcRelease, EventConn
<1>7. /\ conn' = [conn EXCEPT ![c] = NoLink]
      /\ \A s \in Sock \ {c} : Same(s) /\ state'[s] = state[s]
  BY <1>1, <1>2, <1>4 DEF SockRelease, Same
<1>8. \A s \in Sock : GoOn(s)
  BY <1>1, GoOnUnchanged
<1>9. ASSUME NEW s \in Sock, s # c, conn[s] # NoLink PROVE Keeps(1, s)
  <2>1. conn[s] \in Link /\ conn[s] # conn[c] /\ conn'[s] = conn[s]
    BY <1>4, <1>7, <1>9 DEF Pairing
  <2>2. m_nConnStat'[conn[s]] = m_nConnStat[conn[s]]
    BY <1>5, <2>1
  <2>3. (Joined(conn[s]) => Joined(conn[s])') /\ (Announced(conn[s]) => Announced(conn[s])')
    BY <2>1, <2>2 DEF Joined, Announced
  <2>4. ~Is(1, "ASSOCIATE", s) /\ ~Is(1, "ESTABLISH", s)
    BY <1>3 DEF Is
  <2>5. QED
    BY <1>3, <2>1, <2>3, <2>4, KeepsAnnouncements
<1>10. \A s \in Sock : AnnOK(s)'
  <2> SUFFICES ASSUME NEW s \in Sock PROVE AnnOK(s)'
    OBVIOUS
  <2>1. CASE s = c
    BY <1>4, <1>7, <2>1 DEF AnnOK
  <2>2. CASE s # c
    BY <1>1, <1>3, <1>7, <1>8, <1>9, <2>2, AnnKept DEF Traffic
  <2>3. QED
    BY <2>1, <2>2
<1>11. \A k \in 1 .. Len(queue') : RecvOK(k)'
  <2>1. ASSUME NEW k \in 1 .. Len(queue), queue[k].eType = "RECV", k > 1
        PROVE  /\ conn'[queue[k].poSock] = conn[queue[k].poSock]
               /\ state'[queue[k].poSock] \in {"ESTABLISH", "CLOSE"}
               /\ Keeps(1, queue[k].poSock)
    <3>1. PICK s \in Sock : s = queue[k].poSock
      <4>1. queue[k] \in Ev
        BY LenProperties DEF TypeInv
      <4>2. QED
        BY <4>1 DEF Ev
    <3>2. /\ conn[s] # NoLink /\ state[s] \in {"ESTABLISH", "CLOSE"}
          /\ \A i \in 1 .. Len(queue) : EndsAt(i, s) => k < i
      BY <2>1, <3>1 DEF Traffic, RecvOK
    <3>3. s # c
      <4>1. 1 \in 1 .. Len(queue) /\ ~(k < 1) /\ EndsAt(1, c)
        BY <1>3, <2>1 DEF EndsAt, IsDeath
      <4>2. QED
        BY <3>2, <4>1
    <3>4. QED
      BY <1>7, <1>9, <3>1, <3>2, <3>3 DEF Same
  <2>2. ASSUME NEW k \in 1 .. Len(queue'), k > Len(queue) - 1 PROVE RecvOK(k)'
    <3>1. PICK i \in 1 .. Len(<<>>) : queue'[k] = <<>>[i]
      BY <1>3, <2>2, PushedEvent
    <3>2. QED
      BY <3>1
  <2>3. early \subseteq early' /\ \A k \in 1 .. Len(queue) : RecvOK(k)
    BY <1>1 DEF Traffic
  <2>4. QED
    BY <1>3, <2>1, <2>2, <2>3, RecvKept
<1>12. ASSUME NEW l \in Link PROVE CountOK(l)'
  <2>1. Cardinality(Messages(queue', l)) = Cardinality(Messages(queue, l))
    <3>1. 1 \notin Messages(queue, l)
      BY <1>3 DEF Messages
    <3>2. QED
      BY <1>3, <3>1, MessagesCounted
  <2>2. CountOK(l)
    BY DEF Traffic
  <2>3. CASE l = conn[c]
    BY <1>1, <1>6, <2>2, <2>3 DEF CountOK
  <2>4. CASE l # conn[c]
    <3>1. m_poSock'[l] = m_poSock[l] /\ m_nConnStat'[l] = m_nConnStat[l] /\ told'[l] = told[l]
      BY <1>5, <2>4
    <3>2. m_poSock[l] # NoSock => m_poSock[l] \in Sock \ {c}
      BY <1>4, <2>4 DEF Pairing
    <3>3. QED
      BY <1>1, <1>7, <2>1, <2>2, <3>1, <3>2 DEF CountOK
  <2>5. QED
    BY <2>3, <2>4
<1>13. QED
  BY <1>10, <1>11, <1>12 DEF Traffic

\* OnAccept: the announcement is in the accepting thread's hands, or the object
\* has no descriptor.
LEMMA TrafficAccept ==
  ASSUME TypeInv, Pairing, Traffic, \A l \in Link : TalkOK(l), \A s \in Sock : ObjOK(s),
         OnAccept
  PROVE  Traffic'
<1>1. PICK c \in free :
        /\ conn' = [conn EXCEPT ![c] = nLink + 1]
        /\ m_poSock' = [m_poSock EXCEPT ![nLink + 1] = c] /\ nLink' = nLink + 1
        /\ arg' = [arg EXCEPT !["accept"] =
                      [sock |-> c, link |-> nLink + 1, fd |-> nFd + 1]]
        /\ \/ /\ state' = [state EXCEPT ![c] = "ESTABLISH"]
              /\ hSock' = [hSock EXCEPT ![c] = nFd + 1]
              /\ at' = [at EXCEPT !["accept"] = "associate"]
              /\ UNCHANGED queue
           \/ /\ state' = [state EXCEPT ![c] = "CLOSE"]
              /\ queue' = queue \o <<Event(c, "ERROR", nLink + 1), Event(c, "TERMINATE", nLink + 1)>>
              /\ at' = [at EXCEPT !["accept"] = "undo"]
              /\ UNCHANGED hSock
  BY DEF OnAccept
<1>2. /\ at["accept"] = "idle" /\ nLink < MaxLinks /\ c \in Sock /\ nLink + 1 \in Link
      /\ UNCHANGED <<m_nConnStat, told, nRecv, early>>
  BY LifecycleAssumption DEF OnAccept, TypeInv, Link
<1>3. /\ hSock'[c] = hSock[c] => hSock'[c] = INVALID_SOCKET
      /\ "main" \in Threads /\ "accept" \in Threads /\ "main" # "accept"
  BY <1>1, <1>2 DEF ObjOK, Threads
<1>4. /\ \A r \in Sock \ {c} : hSock'[r] = hSock[r] /\ state'[r] = state[r]
      /\ at'["main"] = at["main"] /\ arg'["main"] = arg["main"] /\ arg'["accept"].sock = c
  BY <1>1, <1>2, <1>3 DEF TypeInv
<1>5. \A r \in Sock : GoOn(r)
  BY <1>2, <1>4 DEF GoOn
<1>6. AnnOK(c)'
  <2>1. CASE state' = [state EXCEPT ![c] = "ESTABLISH"] /\ at' = [at EXCEPT !["accept"] = "associate"]
    <3>1. state'[c] = "ESTABLISH" /\ at'["accept"] = "associate"
      BY <1>2, <1>3, <2>1 DEF TypeInv
    <3>2. QED
      BY <1>4, <3>1 DEF AnnOK
  <2>2. CASE hSock' = hSock
    BY <1>3, <2>2 DEF AnnOK
  <2>3. QED
    BY <1>1, <2>1, <2>2
<1>7. PICK evs : Moves(0, evs) /\ \A i \in 1 .. Len(evs) : evs[i].eType # "RECV"
  <2>1. CASE UNCHANGED queue
    <3>1. \A i \in 1 .. Len(<<>>) : <<>>[i].eType # "RECV"
      OBVIOUS
    <3>2. QED
      BY <2>1, <3>1, MovesNot
  <2>2. CASE queue' = queue \o <<Event(c, "ERROR", nLink + 1), Event(c, "TERMINATE", nLink + 1)>>
    <3>1. PICK e \in Ev : e = Event(c, "ERROR", nLink + 1) /\ e.eType = "ERROR"
      BY <1>2, EventType DEF EventTypes
    <3>2. PICK f \in Ev : f = Event(c, "TERMINATE", nLink + 1) /\ f.eType = "TERMINATE"
      BY <1>2, EventType DEF EventTypes
    <3>3. <<e, f>> \in Seq(Ev) /\ \A i \in 1 .. Len(<<e, f>>) : <<e, f>>[i].eType # "RECV"
      BY <3>1, <3>2
    <3>4. queue' = queue \o <<e, f>>
      BY <2>2, <3>1, <3>2
    <3>5. QED
      BY <3>3, <3>4, MovesConcat
  <2>3. QED
    BY <1>1, <2>1, <2>2
<1>8. QED
  BY <1>1, <1>2, <1>4, <1>5, <1>6, <1>7, TrafficNew

\* TcpConnect: the same, on the main thread.
LEMMA TrafficBegin ==
  ASSUME TypeInv, Pairing, Traffic, \A l \in Link : TalkOK(l), \A s \in Sock : ObjOK(s),
         TcpConnect
  PROVE  Traffic'
<1>1. PICK c \in free :
        /\ conn' = [conn EXCEPT ![c] = nLink + 1]
        /\ m_poSock' = [m_poSock EXCEPT ![nLink + 1] = c] /\ nLink' = nLink + 1
        /\ m_nConnStat' = [m_nConnStat EXCEPT ![nLink + 1] = "CONN"]
        /\ BeginConnect(c, nLink + 1, queue)
  BY DEF TcpConnect
<1>2. /\ at["main"] = "idle" /\ nLink < MaxLinks /\ c \in Sock /\ nLink + 1 \in Link
      /\ UNCHANGED <<told, nRecv, early>>
  BY LifecycleAssumption DEF TcpConnect, TypeInv, Link
<1>3. /\ hSock[c] = INVALID_SOCKET
      /\ "main" \in Threads /\ "accept" \in Threads /\ "main" # "accept"
  BY <1>1, <1>2 DEF ObjOK, Threads
<1>4. /\ \A r \in Sock \ {c} : hSock'[r] = hSock[r] /\ state'[r] = state[r]
      /\ at'["accept"] = at["accept"] /\ arg'["accept"] = arg["accept"]
  BY <1>1, <1>2, <1>3 DEF TypeInv, BeginConnect
<1>5. \A r \in Sock : GoOn(r)
  BY <1>2, <1>4 DEF GoOn
<1>6. AnnOK(c)'
  <2>1. CASE /\ state' = [state EXCEPT ![c] = "CONNECT"]
             /\ at' = [at EXCEPT !["main"] = "associate"]
             /\ arg' = [arg EXCEPT !["main"] =
                           [sock |-> c, link |-> nLink + 1, fd |-> nFd + 1]]
    <3>1. state'[c] = "CONNECT" /\ at'["main"] = "associate" /\ arg'["main"].sock = c
      BY <1>2, <1>3, <2>1 DEF TypeInv
    <3>2. QED
      BY <3>1 DEF AnnOK
  <2>2. CASE hSock' = hSock
    BY <1>3, <2>2 DEF AnnOK
  <2>3. QED
    BY <1>1, <2>1, <2>2 DEF BeginConnect
<1>7. PICK evs : Moves(0, evs) /\ \A i \in 1 .. Len(evs) : evs[i].eType # "RECV"
  <2>1. PICK e \in Ev : e = Event(c, "ERROR", nLink + 1) /\ e.eType = "ERROR"
    BY <1>2, EventType DEF EventTypes
  <2>2. PICK f \in Ev : f = Event(c, "TERMINATE", nLink + 1) /\ f.eType = "TERMINATE"
    BY <1>2, EventType DEF EventTypes
  <2>3. CASE queue' = queue
    <3>1. \A i \in 1 .. Len(<<>>) : <<>>[i].eType # "RECV"
      OBVIOUS
    <3>2. QED
      BY <2>3, <3>1, MovesNot
  <2>4. CASE queue' = Append(queue, e)
    <3>1. \A i \in 1 .. Len(<<e>>) : <<e>>[i].eType # "RECV"
      BY <2>1
    <3>2. QED
      BY <2>4, <3>1, MovesAppend
  <2>5. CASE queue' = queue \o <<e, f, e>>
    <3>1. <<e, f, e>> \in Seq(Ev) /\ \A i \in 1 .. Len(<<e, f, e>>) : <<e, f, e>>[i].eType # "RECV"
      BY <2>1, <2>2
    <3>2. QED
      BY <2>5, <3>1, MovesConcat
  <2>6. QED
    BY <1>1, <2>1, <2>2, <2>3, <2>4, <2>5 DEF BeginConnect
<1>8. QED
  BY <1>1, <1>2, <1>4, <1>5, <1>6, <1>7, TrafficNew

\* The thread that makes a connection pushes the next event of its announcement.
LEMMA TrafficPush ==
  ASSUME TypeInv, Traffic, PushAssociate \/ PushEstablish \/ PushAssociateMain
  PROVE  Traffic'
<1>1. PICK t \in Threads, type \in {"ASSOCIATE", "ESTABLISH"} :
        /\ \/ /\ t = "main" /\ at[t] = "associate" /\ type = "ASSOCIATE"
              /\ at' = [at EXCEPT ![t] = "connect"]
           \/ /\ t = "accept" /\ at[t] = "associate" /\ type = "ASSOCIATE"
              /\ at' = [at EXCEPT ![t] = "establish"]
           \/ /\ t = "accept" /\ at[t] = "establish" /\ type = "ESTABLISH"
              /\ at' = [at EXCEPT ![t] = "idle"]
        /\ queue' = Append(queue, Event(arg[t].sock, type, arg[t].link))
  <2>1. CASE PushAssociate
    BY <2>1 DEF PushAssociate, Threads
  <2>2. CASE PushEstablish
    BY <2>2 DEF PushEstablish, Threads
  <2>3. CASE PushAssociateMain
    BY <2>3 DEF PushAssociateMain, Threads
  <2>4. QED
    BY <2>1, <2>2, <2>3
<1>2. UNCHANGED <<conn, state, hSock, m_nConnStat, m_poSock, told, arg, nLink, nRecv, early>>
  BY DEF PushAssociate, PushEstablish, PushAssociateMain, sockVars, connVars, counters
<1>3. PICK c \in Sock : c = arg[t].sock
  BY <1>1 DEF TypeInv
<1>4. PICK e \in Ev : /\ e = Event(c, type, arg[t].link) /\ e.poSock = c /\ e.eType = type
  <2>1. arg[t].link \in Link
    BY <1>1 DEF TypeInv
  <2>2. QED
    BY <2>1, EventType DEF EventTypes
<1>5. Moves(0, <<e>>) /\ \A i \in 1 .. Len(<<e>>) : <<e>>[i].eType # "RECV"
  BY <1>1, <1>3, <1>4, MovesAppend
<1>6. Len(queue) \in Nat /\ Len(queue') = Len(queue) + 1 /\ queue'[Len(queue) + 1] = e
  BY <1>5, LenProperties DEF TypeInv, Moves
<1>7. PICK n \in 1 .. Len(queue') : n = Len(queue) + 1 /\ n = Len(queue') /\ Is(n, type, c)'
  BY <1>4, <1>6 DEF Is
<1>8. \A i \in 1 .. n - 1 : i \in 1 .. (Len(queue') + 1) - 1
  BY <1>6, <1>7
<1>9. n \in 1 .. (Len(queue') + 1) - 1
  BY <1>6, <1>7
<1>10. type = "ASSOCIATE" => Associated(c, Len(queue) + 1)'
  BY <1>7, <1>9 DEF Associated
<1>11. type = "ESTABLISH" /\ Associated(c, Len(queue) + 1)' => Established(c, Len(queue) + 1)'
  <2> SUFFICES ASSUME type = "ESTABLISH", Associated(c, Len(queue) + 1)'
               PROVE  Established(c, Len(queue) + 1)'
    OBVIOUS
  <2>1. Associated(c, n)'
    <3>1. \A i \in 1 .. (Len(queue') + 1) - 1 : i \in 1 .. n - 1 \/ i = n
      BY <1>6, <1>7
    <3>2. ~Is(n, "ASSOCIATE", c)'
      BY <1>7 DEF Is
    <3>3. QED
      BY <3>1, <3>2 DEF Associated
  <2>2. QED
    BY <1>7, <1>9, <2>1 DEF Established
<1>12. \A s \in Sock : GoOn(s)
  <2> SUFFICES ASSUME NEW s \in Sock PROVE GoOn(s)
    OBVIOUS
  <2>1. "main" \in Threads /\ "accept" \in Threads /\ at \in [Threads -> {"idle", "associate", "establish", "undo", "connect"}]
    BY DEF Threads, TypeInv
  <2>2. CASE t = "main" /\ type = "ASSOCIATE"
    <3>1. at'["accept"] = at["accept"]
      BY <1>1, <2>1, <2>2
    <3>2. QED
      BY <1>2, <1>3, <1>10, <2>2, <3>1 DEF GoOn
  <2>3. CASE t = "accept" /\ type = "ASSOCIATE"
    <3>1. at'["main"] = at["main"] /\ at["accept"] = "associate" /\ at'["accept"] = "establish"
      BY <1>1, <2>1, <2>3
    <3>2. QED
      BY <1>2, <1>3, <1>10, <2>3, <3>1 DEF GoOn
  <2>4. CASE t = "accept" /\ type = "ESTABLISH"
    <3>1. at'["main"] = at["main"] /\ at["accept"] = "establish"
      BY <1>1, <2>1, <2>4
    <3>2. QED
      BY <1>2, <1>3, <1>11, <2>4, <3>1 DEF GoOn
  <2>5. QED
    BY <1>1, <2>2, <2>3, <2>4
<1>13. (\A s \in Sock : Same(s)) /\ Rises
  BY <1>2, SameUnchanged, RisesUnchanged
<1>14. QED
  BY <1>2, <1>5, <1>12, <1>13, TrafficPlain

\* Messages a session has heard, after one call more.
LEMMA CallHeard ==
  ASSUME TypeInv, NEW c \in Link, NEW x \in Calls, told' = [told EXCEPT ![c] = Append(told[c], x)]
  PROVE  /\ \A l \in Link : l # c \/ x # "OnRecv" =>
              Cardinality(Places(told'[l], "OnRecv")) = Cardinality(Places(told[l], "OnRecv"))
         /\ x = "OnRecv" =>
              Cardinality(Places(told'[c], "OnRecv")) = Cardinality(Places(told[c], "OnRecv")) + 1
<1>1. /\ told[c] \in Seq(Calls) /\ told'[c] = Append(told[c], x)
      /\ \A l \in Link : l # c => told'[l] = told[l]
  BY DEF TypeInv
<1>2. /\ x # "OnRecv" => Cardinality(Places(Append(told[c], x), "OnRecv")) =
                           Cardinality(Places(told[c], "OnRecv"))
      /\ x = "OnRecv" => Cardinality(Places(Append(told[c], x), "OnRecv")) =
                           Cardinality(Places(told[c], "OnRecv")) + 1
  BY <1>1, CallCounted
<1>3. /\ x # "OnRecv" => Cardinality(Places(told'[c], "OnRecv")) =
                           Cardinality(Places(told[c], "OnRecv"))
      /\ x = "OnRecv" => Cardinality(Places(told'[c], "OnRecv")) =
                           Cardinality(Places(told[c], "OnRecv")) + 1
  BY <1>1, <1>2, Zenon
<1>4. QED
  BY <1>1, <1>3, Zenon

LEMMA ErrorHeard ==
  ASSUME TypeInv, NEW c \in Link, TellError(c)
  PROVE  \A l \in Link : Cardinality(Places(told'[l], "OnRecv")) =
                           Cardinality(Places(told[l], "OnRecv"))
<1>1. CASE told' = told
  BY <1>1
<1>2. CASE told' = [told EXCEPT ![c] = Append(told[c], "OnError")]
  <2>1. PICK x \in Calls : x = "OnError"
    BY DEF Calls
  <2>2. told' = [told EXCEPT ![c] = Append(told[c], x)] /\ x # "OnRecv"
    BY <1>2, <2>1
  <2>3. QED
    BY <2>2, CallHeard
<1>3. QED
  BY <1>1, <1>2 DEF TellError, TypeInv

\* ASSOCIATE and ESTABLISH are run.
LEMMA TrafficAnnounce ==
  ASSUME TypeInv, Traffic, ProcAssociate \/ ProcEstablish PROVE Traffic'
<1>1. /\ queue # <<>> /\ queue' = Tail(queue)
      /\ UNCHANGED <<conn, state, hSock, m_poSock, at, arg, nLink, nRecv, early>>
  BY DEF ProcAssociate, ProcEstablish, Ignored, Runs, sockVars, connVars, threadVars
<1>2. PICK c \in Sock : c = EventSock /\ c = queue[1].poSock /\ EventConn = conn[c]
  BY <1>1, HeadType DEF EventConn, EventSock
<1>3. PICK type \in {"ASSOCIATE", "ESTABLISH"} :
        /\ queue[1].eType = type
        /\ type = "ASSOCIATE" => ProcAssociate
        /\ type = "ESTABLISH" => ProcEstablish
  BY <1>1, HeadType DEF ProcAssociate, ProcEstablish, Runs
<1>4. Moves(1, <<>>) /\ \A i \in 1 .. Len(<<>>) : <<>>[i].eType # "RECV"
  BY <1>1, MovesPop
<1>5. conn[c] \in Link \cup {NoLink} /\ m_nConnStat \in [Link -> ConnStats]
  BY DEF TypeInv
<1>6. /\ conn[c] # NoLink /\ type = "ASSOCIATE" => Joined(conn[c])'
      /\ conn[c] # NoLink /\ type = "ESTABLISH" /\ Joined(conn[c]) => Announced(conn[c])'
  <2>1. ASSUME conn[c] # NoLink, type = "ASSOCIATE" PROVE m_nConnStat'[conn[c]] \notin {"NONE", "CONN"}
                                                         /\ m_nConnStat'[conn[c]] \in ConnStats
    BY <1>1, <1>2, <1>3, <1>5, <2>1 DEF ProcAssociate, Ignored, connVars, ConnStats
  <2>2. ASSUME conn[c] # NoLink, type = "ESTABLISH", Joined(conn[c])
        PROVE  m_nConnStat'[conn[c]] \in {"OK", "CLOSING"}
    BY <1>1, <1>2, <1>3, <1>5, <2>2 DEF ProcEstablish, Ignored, connVars, Joined, Announced
  <2>3. QED
    BY <1>1, <2>1, <2>2 DEF Joined, Announced, ConnStats
<1>7. ASSUME NEW l \in Link
      PROVE  /\ m_nConnStat[l] \in {"ASSOCIATE", "OK", "CLOSING"} =>
                  m_nConnStat'[l] \in {"ASSOCIATE", "OK", "CLOSING"}
             /\ m_nConnStat[l] \in {"OK", "CLOSING"} => m_nConnStat'[l] = m_nConnStat[l]
             /\ Cardinality(Places(told'[l], "OnRecv")) = Cardinality(Places(told[l], "OnRecv"))
  <2>1. CASE UNCHANGED <<m_nConnStat, told>>
    BY <2>1
  <2>2. CASE /\ EventConn # NoLink /\ m_nConnStat[EventConn] \in {"NONE", "CONN"}
             /\ m_nConnStat' = [m_nConnStat EXCEPT ![EventConn] = "ASSOCIATE"] /\ UNCHANGED told
    BY <1>5, <2>2
  <2>3. CASE /\ EventConn # NoLink /\ m_nConnStat[EventConn] = "ASSOCIATE"
             /\ m_nConnStat' = [m_nConnStat EXCEPT ![EventConn] = "OK"]
             /\ Tell(EventConn, <<"OnConnect">>)
    <3>1. PICK x \in Calls : x = "OnConnect"
      BY DEF Calls
    <3>2. PICK k \in Link : k = EventConn
      BY <1>2, <1>5, <2>3
    <3>3. told' = [told EXCEPT ![k] = Append(told[k], x)]
      BY <2>3, <3>1, <3>2, ToldOne
    <3>4. Cardinality(Places(told'[l], "OnRecv")) = Cardinality(Places(told[l], "OnRecv"))
      BY <3>1, <3>3, CallHeard
    <3>5. QED
      BY <1>5, <2>3, <3>4
  <2>4. QED
    BY <2>1, <2>2, <2>3 DEF ProcAssociate, ProcEstablish, Ignored, connVars
<1>8. Rises
  BY <1>7 DEF Rises, Joined, Announced
<1>9. ASSUME NEW s \in Sock, conn[s] # NoLink PROVE Keeps(1, s)
  <2>1. PICK l \in Link : l = conn[s]
    BY <1>9 DEF TypeInv
  <2>2. (Joined(l) => Joined(l)') /\ (Announced(l) => Announced(l)')
    BY <1>8 DEF Rises
  <2>3. (Joined(conn[s]) => Joined(conn[s])') /\ (Announced(conn[s]) => Announced(conn[s])')
    BY <1>1, <2>1, <2>2 DEF Joined, Announced
  <2>4. Is(1, "ASSOCIATE", s) => s = c /\ type = "ASSOCIATE"
    BY <1>2, <1>3 DEF Is
  <2>5. Is(1, "ESTABLISH", s) => s = c /\ type = "ESTABLISH"
    BY <1>2, <1>3 DEF Is
  <2>6. Is(1, "ASSOCIATE", s) => Joined(conn[s])'
    BY <1>6, <1>9, <2>4
  <2>7. Is(1, "ESTABLISH", s) /\ Joined(conn[s]) => Announced(conn[s])'
    BY <1>6, <1>9, <2>5
  <2>8. conn'[s] = conn[s]
    BY <1>1
  <2>9. QED
    BY <1>4, <2>3, <2>6, <2>7, <2>8, KeepsAnnouncements
<1>10. \A l \in Link : 1 \notin Messages(queue, l)
  BY <1>3 DEF Messages
<1>11. (\A s \in Sock : Same(s)) /\ (\A s \in Sock : GoOn(s)) /\ early \subseteq early'
  BY <1>1, SameUnchanged, GoOnUnchanged
<1>12. QED
  BY <1>1, <1>4, <1>7, <1>9, <1>10, <1>11, TrafficKept

\* RECV is run: the message reaches its session, or its connection is closing,
\* or it came early.
LEMMA TrafficMessage ==
  ASSUME TypeInv, Pairing, Traffic, ProcToSession("RECV") PROVE Traffic'
<1>1. /\ queue # <<>> /\ queue' = Tail(queue) /\ Head(queue).eType = "RECV"
      /\ UNCHANGED <<conn, state, hSock, m_nConnStat, m_poSock, at, arg, nLink, nRecv, early>>
  BY DEF ProcToSession, Ignored, Runs, sockVars, threadVars, connVars
<1>2. PICK c \in Sock : c = EventSock /\ c = queue[1].poSock /\ EventConn = conn[c]
  BY <1>1, HeadType DEF EventConn, EventSock
<1>3. /\ Moves(1, <<>>) /\ (\A i \in 1 .. Len(<<>>) : <<>>[i].eType # "RECV")
      /\ queue[1].eType = "RECV" /\ Len(queue) \in Nat \ {0}
  BY <1>1, HeadType, MovesPop
<1>4. RecvOK(1)
  BY <1>3 DEF Traffic
<1>5. PICK l \in Link : /\ l = conn[c] /\ l = queue[1].link /\ l # NoLink
                        /\ l \in early \/ Established(c, 1)
  BY <1>2, <1>3, <1>4 DEF RecvOK, TypeInv
<1>6. l \in early \/ m_nConnStat[l] \in {"OK", "CLOSING"}
  BY <1>5 DEF Established, Announced
<1>7. Rises /\ (\A s \in Sock : Same(s)) /\ (\A s \in Sock : GoOn(s)) /\ early \subseteq early'
  BY <1>1, RisesUnchanged, SameUnchanged, GoOnUnchanged
<1>8. \A s \in Sock : conn[s] # NoLink => Keeps(1, s)
  BY <1>1, <1>3, <1>7, AllKeep
<1>9. 1 \in 1 .. 1 /\ 1 \in Messages(queue, l) /\ \A k \in Link : k # l => 1 \notin Messages(queue, k)
  BY <1>3, <1>5 DEF Messages
<1>10. Cardinality(Messages(queue', l)) = Cardinality(Messages(queue, l)) - 1
         /\ Cardinality(Messages(queue, l)) \in Nat
  BY <1>3, <1>9, MessagesCounted
<1>11. CASE m_nConnStat[l] = "OK"
  <2>1. PICK x \in Calls : x = "OnRecv"
    BY DEF Calls
  <2>2. Tell(l, <<x>>)
    BY <1>2, <1>5, <1>11, <2>1 DEF ProcToSession
  <2>3. told' = [told EXCEPT ![l] = Append(told[l], x)]
    BY <2>2, ToldOne
  <2>4. /\ Cardinality(Places(told'[l], "OnRecv")) = Cardinality(Places(told[l], "OnRecv")) + 1
        /\ \A k \in Link : k # l => Cardinality(Places(told'[k], "OnRecv")) =
                                      Cardinality(Places(told[k], "OnRecv"))
    BY <2>1, <2>3, CallHeard
  <2>5. Cardinality(Places(told[l], "OnRecv")) \in Nat
    <3>1. Len(told[l]) \in Nat
      BY LenProperties DEF TypeInv
    <3>2. QED
      BY <3>1, FinitePlaces DEF Places
  <2>6. CountOK(l)'
    <3>1. CountOK(l)
      BY DEF Traffic
    <3>2. QED
      BY <1>1, <1>10, <2>4, <2>5, <3>1 DEF CountOK
  <2>7. QED
    BY <1>1, <1>3, <1>7, <1>8, <1>9, <2>4, <2>6, TrafficKept
<1>12. CASE m_nConnStat[l] # "OK"
  <2>1. told' = told
    BY <1>2, <1>5, <1>12 DEF ProcToSession, Ignored, connVars
  <2>2. CountOK(l)'
    <3>1. CountOK(l)
      BY DEF Traffic
    <3>2. QED
      BY <1>1, <1>6, <1>12, <3>1 DEF CountOK
  <2>3. QED
    BY <1>1, <1>3, <1>7, <1>8, <1>9, <2>1, <2>2, TrafficKept
<1>13. QED
  BY <1>11, <1>12

\* A message that is too long closes its socket instead.
LEMMA TrafficTooLong ==
  ASSUME TypeInv, Pairing, Traffic, Runs("RECV"), EventConn # NoLink,
         Close(EventSock, Tail(queue), <<Event(EventSock, "ERROR", EventConn)>>),
         UNCHANGED <<conn, m_nConnStat, m_poSock, told, at, arg, nLink, nRecv, early>>
  PROVE  Traffic'
<1>1. queue # <<>> /\ Head(queue).eType = "RECV"
  BY DEF Runs
<1>2. PICK c \in Sock : c = EventSock /\ c = queue[1].poSock /\ EventConn = conn[c]
  BY <1>1, HeadType DEF EventConn, EventSock
<1>3. queue[1].eType = "RECV" /\ Len(queue) \in Nat \ {0}
  BY <1>1, HeadType
<1>4. RecvOK(1)
  BY <1>3 DEF Traffic
<1>5. PICK l \in Link : l = conn[c] /\ l = queue[1].link /\ state[c] \in {"ESTABLISH", "CLOSE"}
  BY <1>2, <1>3, <1>4 DEF RecvOK, TypeInv
<1>6. PICK e \in Ev : e = Event(c, "ERROR", conn[c]) /\ e.eType = "ERROR"
  BY <1>5, EventType DEF EventTypes
<1>7. PICK d, q : d = 1 /\ q = Tail(queue)
  OBVIOUS
<1>8. Close(c, q, <<e>>) /\ <<e>> \in Seq(Ev)
  BY <1>2, <1>6, <1>7
<1>9. PICK evs : Moves(d, evs) /\ \A i \in 1 .. Len(evs) : evs[i].eType # "RECV"
  <2>1. PICK f \in Ev : f = Event(c, "TERMINATE", conn[c]) /\ f.eType = "TERMINATE"
    BY <1>5, EventType DEF EventTypes
  <2>2. /\ CloseIsDone(c) => Moves(d, <<e>>)
        /\ ~CloseIsDone(c) => Moves(d, <<e>> \o <<f>>)
    BY <1>1, <1>7, <1>8, <2>1, CloseMoves
  <2>3. \A i \in 1 .. Len(<<e>>) : <<e>>[i].eType # "RECV"
    BY <1>6
  <2>4. \A i \in 1 .. Len(<<e>> \o <<f>>) : (<<e>> \o <<f>>)[i].eType # "RECV"
    BY <1>6, <2>1
  <2>5. QED
    BY <2>2, <2>3, <2>4
<1>10. \A s \in Sock : Same(s)
  BY <1>8, CloseSame
<1>11. Rises /\ (\A s \in Sock : GoOn(s)) /\ early \subseteq early'
  BY RisesUnchanged, GoOnUnchanged
<1>12. \A s \in Sock : conn[s] # NoLink => Keeps(d, s)
  BY <1>3, <1>9, <1>11, AllKeep
<1>13. \A k \in Link : k # l => 1 \notin Messages(queue, k)
  BY <1>5 DEF Messages
<1>14. CountOK(l)'
  <2>1. m_poSock[l] = c
    BY <1>2, <1>5 DEF Pairing
  <2>2. state'[c] = "CLOSE"
    BY <1>5, <1>8 DEF Close, IsConnected, TypeInv
  <2>3. CountOK(l)
    BY DEF Traffic
  <2>4. QED
    BY <2>1, <2>2, <2>3 DEF CountOK
<1>15. QED
  BY <1>9, <1>10, <1>11, <1>12, <1>13, <1>14, TrafficKept

\* An event of another kind is run: no message is heard of.
LEMMA TrafficOther ==
  ASSUME TypeInv, Traffic, queue # <<>>,
         queue[1].eType \notin {"ASSOCIATE", "ESTABLISH", "RECV"},
         NEW evs, Moves(1, evs), \A i \in 1 .. Len(evs) : evs[i].eType # "RECV",
         \/ UNCHANGED told
         \/ \E c \in Link : TellError(c),
         UNCHANGED <<conn, state, hSock, m_nConnStat, m_poSock, at, arg, nLink, nRecv, early>>
  PROVE  Traffic'
<1>1. \A l \in Link : Cardinality(Places(told'[l], "OnRecv")) = Cardinality(Places(told[l], "OnRecv"))
  <2>1. CASE UNCHANGED told
    BY <2>1
  <2>2. CASE \E c \in Link : TellError(c)
    BY <2>2, ErrorHeard
  <2>3. QED
    BY <2>1, <2>2
<1>2. Rises /\ (\A s \in Sock : Same(s)) /\ (\A s \in Sock : GoOn(s)) /\ early \subseteq early'
  BY RisesUnchanged, SameUnchanged, GoOnUnchanged
<1>3. PICK d : d = 1
  OBVIOUS
<1>4. Moves(d, evs)
  BY <1>3
<1>5. QED
  BY <1>1, <1>2, <1>4, TrafficPlain

\* A connection may be asked to close, and the main thread return from Connect.
LEMMA RisesClosing ==
  ASSUME TypeInv, \/ UNCHANGED m_nConnStat
                  \/ \E l \in Link : m_nConnStat' = [m_nConnStat EXCEPT ![l] = "CLOSING"]
  PROVE  Rises /\ \A l \in Link : m_nConnStat[l] = "CLOSING" => m_nConnStat'[l] = "CLOSING"
<1>1. \A l \in Link : m_nConnStat'[l] = m_nConnStat[l] \/ m_nConnStat'[l] = "CLOSING"
  BY DEF TypeInv
<1>2. QED
  BY <1>1 DEF Rises, Joined, Announced

LEMMA GoOnReturn ==
  ASSUME TypeInv, UNCHANGED arg,
         \/ UNCHANGED at
         \/ at["main"] = "connect" /\ at' = [at EXCEPT !["main"] = "idle"]
  PROVE  \A s \in Sock : GoOn(s)
<1>1. CASE UNCHANGED at
  BY <1>1, GoOnUnchanged
<1>2. CASE at["main"] = "connect" /\ at' = [at EXCEPT !["main"] = "idle"]
  <2>1. at'["accept"] = at["accept"]
    BY <1>2 DEF TypeInv, Threads
  <2>2. QED
    BY <1>2, <2>1 DEF GoOn
<1>3. QED
  BY <1>1, <1>2

LEMMA TrafficStep ==
  TypeInv /\ Pairing /\ ObjectInv /\ SessionInv /\ TrafficInv /\ Next => TrafficInv'
<1> SUFFICES ASSUME TypeInv, Pairing, ObjectInv, SessionInv, TrafficInv, Next, reused' = {}
             PROVE  Traffic'
  BY DEF TrafficInv
<1>1. ASSUME reused = {}
      PROVE  Traffic /\ (\A l \in Link : TalkOK(l)) /\ \A s \in Sock : ObjOK(s)
  BY <1>1 DEF TrafficInv, SessionInv, ObjectInv
\* Nothing is announced, told or pushed but a Close.
<1>2. ASSUME NEW c \in Sock, NEW e \in Ev, e.eType # "RECV",
             Close(c, queue, <<e>>) \/ Close(c, queue, <<>>),
             UNCHANGED arg,
             \/ UNCHANGED at
             \/ at["main"] = "connect" /\ at' = [at EXCEPT !["main"] = "idle"],
             \/ UNCHANGED m_nConnStat
             \/ \E l \in Link : m_nConnStat' = [m_nConnStat EXCEPT ![l] = "CLOSING"],
             early \subseteq early',
             UNCHANGED <<conn, m_poSock, nRecv, nLink, told, reused>>
      PROVE  Traffic'
  <2>1. Traffic
    BY <1>1, <1>2
  <2>2. Rises /\ \A l \in Link : m_nConnStat[l] = "CLOSING" => m_nConnStat'[l] = "CLOSING"
    BY <1>2, RisesClosing
  <2>3. \A s \in Sock : GoOn(s)
    BY <1>2, GoOnReturn
  <2>5. CASE Close(c, queue, <<e>>)
    <3>1. <<e>> \in Seq(Ev) /\ \A i \in 1 .. Len(<<e>>) : <<e>>[i].eType # "RECV"
      BY <1>2
    <3>2. QED
      BY <1>2, <2>1, <2>2, <2>3, <2>5, <3>1, CloseTraffic
  <2>6. CASE Close(c, queue, <<>>)
    <3>1. <<>> \in Seq(Ev) /\ \A i \in 1 .. Len(<<>>) : <<>>[i].eType # "RECV"
      OBVIOUS
    <3>2. QED
      BY <1>2, <2>1, <2>2, <2>3, <2>6, <3>1, CloseTraffic
  <2>7. QED
    BY <1>2, <2>5, <2>6
\* Nothing is announced, told or pushed.
<1>3. ASSUME UNCHANGED <<queue, conn, state, hSock, m_poSock, nRecv, nLink, told, early, reused>>,
             UNCHANGED arg,
             \/ UNCHANGED at
             \/ at["main"] = "connect" /\ at' = [at EXCEPT !["main"] = "idle"],
             \/ UNCHANGED m_nConnStat
             \/ \E l \in Link : m_nConnStat' = [m_nConnStat EXCEPT ![l] = "CLOSING"]
      PROVE  Traffic'
  <2>1. Traffic
    BY <1>1, <1>3
  <2>2. Rises /\ \A l \in Link : m_nConnStat[l] = "CLOSING" => m_nConnStat'[l] = "CLOSING"
    BY <1>3, RisesClosing
  <2>3. \A s \in Sock : GoOn(s)
    BY <1>3, GoOnReturn
  <2>5. Moves(0, <<>>) /\ \A i \in 1 .. Len(<<>>) : <<>>[i].eType # "RECV"
    BY <1>3, MovesNot
  <2>6. \A s \in Sock : Same(s)
    BY <1>3, SameUnchanged
  <2>7. PICK d, evs : d = 0 /\ evs = <<>>
    OBVIOUS
  <2>8. Moves(d, evs) /\ \A i \in 1 .. Len(evs) : evs[i].eType # "RECV"
    BY <2>5, <2>7
  <2>9. QED
    BY <1>3, <2>1, <2>2, <2>3, <2>6, <2>7, <2>8, TrafficPlain
<1>4. ASSUME NEW type, Runs(type)
      PROVE  /\ queue # <<>> /\ queue[1].eType = type /\ EventSock \in Sock
             /\ EventConn \in Link \cup {NoLink} /\ queue[1] \in Ev
             /\ EventSock = queue[1].poSock /\ Head(queue) = queue[1]
  BY <1>4, HeadType DEF Runs, EventConn, EventSock
<1>5. ASSUME NEW c \in Sock, NEW type \in EventTypes \ {"RECV"}, NEW l \in Link \cup {NoLink}
      PROVE  Event(c, type, l) \in Ev /\ Event(c, type, l).eType # "RECV"
  BY <1>5, EventType
<1>6. CASE OnAccept
  BY <1>1, <1>6, TrafficAccept DEF OnAccept
<1>7. CASE TcpConnect
  BY <1>1, <1>7, TrafficBegin DEF TcpConnect
<1>8. CASE UndoAccept
  BY <1>8 DEF UndoAccept
<1>9. CASE PushAssociate \/ PushEstablish \/ PushAssociateMain
  <2>1. UNCHANGED reused
    BY <1>9 DEF PushAssociate, PushEstablish, PushAssociateMain
  <2>2. QED
    BY <1>1, <1>9, <2>1, TrafficPush
<1>10. CASE EndConnect
  <2>1. /\ at["main"] = "connect" /\ at' = [at EXCEPT !["main"] = "idle"]
        /\ UNCHANGED <<conn, m_nConnStat, m_poSock, told, arg, nLink, nRecv, early, reused>>
    BY <1>10 DEF EndConnect, connVars, counters
  <2>2. CASE UNCHANGED <<state, hSock, queue>>
    BY <1>3, <2>1, <2>2
  <2>3. CASE Close(arg["main"].sock, queue, <<Event(arg["main"].sock, "CONN_ERR", arg["main"].link)>>)
    <3>1. PICK c \in Sock : c = arg["main"].sock
      BY <2>1 DEF TypeInv, Threads
    <3>2. PICK e \in Ev : e = Event(c, "CONN_ERR", arg["main"].link) /\ e.eType # "RECV"
      <4>1. arg["main"].link \in Link
        BY <2>1 DEF TypeInv, Threads
      <4>2. QED
        BY <1>5, <4>1 DEF EventTypes
    <3>3. Close(c, queue, <<e>>)
      BY <2>3, <3>1, <3>2
    <3>4. QED
      BY <1>2, <2>1, <3>2, <3>3
  <2>4. QED
    BY <1>10, <2>2, <2>3 DEF EndConnect
<1>11. ASSUME NEW l \in Link, SessionClose(l) PROVE Traffic'
  BY <1>3, <1>11 DEF SessionClose, sockVars, threadVars, counters
<1>12. ASSUME NEW c \in Sock PROVE \E e \in Ev : e.eType # "RECV"
  <2>1. NoLink \in Link \cup {NoLink} /\ "ERROR" \in EventTypes \ {"RECV"}
    BY DEF EventTypes
  <2>2. QED
    BY <1>5, <2>1
<1>13. ASSUME NEW l \in Link, Reconnect(l) PROVE Traffic'
  <2>1. PICK c \in Sock : c = m_poSock[l]
    BY <1>13 DEF Reconnect, TypeInv
  <2>2. PICK e \in Ev : e.eType # "RECV"
    BY <1>12
  <2>3. Close(c, queue, <<>>)
    BY <1>13, <2>1 DEF Reconnect
  <2>4. /\ \E k \in Link : m_nConnStat' = [m_nConnStat EXCEPT ![k] = "CLOSING"]
        /\ UNCHANGED <<conn, m_poSock, told, at, arg, nLink, nRecv, early, reused>>
    BY <1>13 DEF Reconnect, threadVars, counters
  <2>5. QED
    BY <1>2, <2>2, <2>3, <2>4
<1>14. CASE DrainDelayClose
  <2>1. PICK c \in Sock : c = Head(delayed).sock
    <3>1. delayed \in Seq([sock : Sock, link : Link]) /\ delayed # <<>>
      BY <1>14 DEF DrainDelayClose, TypeInv
    <3>2. Head(delayed) \in [sock : Sock, link : Link]
      BY <3>1, HeadTailProperties
    <3>3. QED
      BY <3>2
  <2>2. PICK e \in Ev : e.eType # "RECV"
    BY <1>12
  <2>3. Close(c, queue, <<>>)
    BY <1>14, <2>1 DEF DrainDelayClose
  <2>4. UNCHANGED <<conn, m_nConnStat, m_poSock, told, at, arg, nLink, nRecv, early, reused>>
    BY <1>14 DEF DrainDelayClose, threadVars, connVars, counters
  <2>5. QED
    BY <1>2, <2>2, <2>3, <2>4
<1>15. CASE WaitEvents
  BY <1>3, <1>15 DEF WaitEvents, sockVars, connVars, threadVars, counters
<1>16. ASSUME NEW s \in Sock, OnRecv(s) PROVE Traffic'
  BY <1>1, <1>16, TrafficRecv DEF OnRecv
<1>17. ASSUME NEW s \in Sock, OnNothing(s) PROVE Traffic'
  BY <1>3, <1>17 DEF OnNothing, sockVars, connVars, threadVars, counters
<1>18. ASSUME NEW s \in Sock, OnIoError(s) PROVE Traffic'
  <2>1. PICK e \in Ev : e = Event(s, "ERROR", conn[s]) /\ e.eType # "RECV"
    <3>1. conn[s] \in Link \cup {NoLink}
      BY DEF TypeInv
    <3>2. QED
      BY <1>5, <3>1 DEF EventTypes
  <2>2. /\ Close(s, queue, <<e>>) /\ early \subseteq early'
        /\ UNCHANGED <<conn, m_nConnStat, m_poSock, told, at, arg, nLink, nRecv, reused>>
    BY <1>18, <2>1 DEF OnIoError, NoteEarly, threadVars, connVars, counters
  <2>3. QED
    BY <1>2, <2>1, <2>2
<1>19. ASSUME NEW s \in Sock, OnConnect(s) PROVE Traffic'
  BY <1>1, <1>19, TrafficConnect DEF OnConnect
<1>20. CASE EndOnConnect
  <2>1. PICK c \in Sock : c = connecting
    BY <1>20 DEF EndOnConnect, TypeInv
  <2>2. UNCHANGED <<conn, m_nConnStat, m_poSock, told, at, arg, nLink, nRecv, early, reused>>
    BY <1>20 DEF EndOnConnect, threadVars, connVars, counters
  <2>3. CASE UNCHANGED <<state, hSock, queue>>
    BY <1>3, <2>2, <2>3
  <2>4. CASE Close(connecting, queue, <<Event(connecting, "ERROR", conn[connecting])>>)
    <3>1. PICK e \in Ev : e = Event(c, "ERROR", conn[c]) /\ e.eType # "RECV"
      <4>1. conn[c] \in Link \cup {NoLink}
        BY DEF TypeInv
      <4>2. QED
        BY <1>5, <4>1 DEF EventTypes
    <3>2. Close(c, queue, <<e>>)
      BY <2>1, <2>4, <3>1
    <3>3. QED
      BY <1>2, <2>2, <3>1, <3>2
  <2>5. QED
    BY <1>20, <2>3, <2>4 DEF EndOnConnect
<1>21. CASE ProcAssociate \/ ProcEstablish
  <2>1. UNCHANGED reused
    BY <1>21 DEF ProcAssociate, ProcEstablish, Ignored
  <2>2. QED
    BY <1>1, <1>21, <2>1, TrafficAnnounce
<1>22. CASE ProcToSession("RECV")
  <2>1. UNCHANGED reused
    BY <1>22 DEF ProcToSession, Ignored
  <2>2. QED
    BY <1>1, <1>22, <2>1, TrafficMessage
<1>23. CASE ProcRecv
  <2>1. CASE ~ProcToSession("RECV")
    <3>1. /\ Runs("RECV") /\ EventConn # NoLink
          /\ Close(EventSock, Tail(queue), <<Event(EventSock, "ERROR", EventConn)>>)
          /\ UNCHANGED <<conn, m_nConnStat, m_poSock, told, at, arg, nLink, nRecv, early, reused>>
      BY <1>23, <2>1 DEF ProcRecv, connVars, threadVars, counters
    <3>2. QED
      BY <1>1, <3>1, TrafficTooLong
  <2>2. QED
    BY <1>22, <2>1
<1>24. CASE ProcError
  <2>1. /\ Runs("ERROR") /\ queue' = Tail(queue)
        /\ UNCHANGED <<conn, state, hSock, m_nConnStat, m_poSock, at, arg, nLink, nRecv, early, reused>>
        /\ UNCHANGED told \/ (EventConn # NoLink /\ TellError(EventConn))
    <3>1. ProcToSession("ERROR")
      BY <1>24 DEF ProcError
    <3>2. CASE Ignored
      <4>1. Runs("ERROR") /\ UNCHANGED <<nLink, nRecv, early>>
        BY <3>1 DEF ProcToSession
      <4>2. QED
        BY <3>2, <4>1 DEF Ignored, sockVars, connVars, threadVars
    <3>3. CASE ~Ignored
      BY <3>1, <3>3 DEF ProcToSession, sockVars, connVars, threadVars
    <3>4. QED
      BY <3>2, <3>3
  <2>2. queue # <<>> /\ queue[1].eType = "ERROR" /\ EventConn \in Link \cup {NoLink}
    BY <1>4, <2>1
  <2>3. Moves(1, <<>>) /\ \A i \in 1 .. Len(<<>>) : <<>>[i].eType # "RECV"
    BY <2>1, <2>2, MovesPop
  <2>4. UNCHANGED told \/ \E c \in Link : TellError(c)
    BY <2>1, <2>2
  <2>5. QED
    BY <1>1, <2>1, <2>2, <2>3, <2>4, TrafficOther
<1>25. CASE ProcConnectError
  <2>1. /\ Runs("CONN_ERR") /\ queue' = Tail(queue)
        /\ UNCHANGED <<conn, state, hSock, m_nConnStat, m_poSock, at, arg, nLink, nRecv, early, reused>>
        /\ UNCHANGED told \/ (EventConn # NoLink /\ TellError(EventConn))
    <3>1. CASE Ignored
      <4>1. Runs("CONN_ERR") /\ UNCHANGED <<nLink, nRecv, early>>
        BY <1>25 DEF ProcConnectError
      <4>2. QED
        BY <3>1, <4>1 DEF Ignored, sockVars, connVars, threadVars
    <3>2. CASE ~Ignored
      BY <1>25, <3>2 DEF ProcConnectError, threadVars
    <3>3. QED
      BY <3>1, <3>2
  <2>2. queue # <<>> /\ queue[1].eType = "CONN_ERR" /\ EventConn \in Link \cup {NoLink}
    BY <1>4, <2>1
  <2>3. Moves(1, <<>>) /\ \A i \in 1 .. Len(<<>>) : <<>>[i].eType # "RECV"
    BY <2>1, <2>2, MovesPop
  <2>4. UNCHANGED told \/ \E c \in Link : TellError(c)
    BY <2>1, <2>2
  <2>5. QED
    BY <1>1, <2>1, <2>2, <2>3, <2>4, TrafficOther
<1>26. CASE ProcTerminate
  <2>1. /\ Runs("TERMINATE") /\ queue' = Append(Tail(queue), [Head(queue) EXCEPT !.eType = "RELEASE"])
        /\ UNCHANGED <<conn, state, hSock, m_nConnStat, m_poSock, told, at, arg, nLink, nRecv, early,
                       reused>>
    BY <1>26 DEF ProcTerminate, sockVars, connVars, threadVars, counters
  <2>2. queue # <<>> /\ queue[1].eType = "TERMINATE" /\ queue[1] \in Ev /\ Head(queue) = queue[1]
    BY <1>4, <2>1
  <2>3. PICK e \in Ev : e = [Head(queue) EXCEPT !.eType = "RELEASE"]
    BY <2>2 DEF Ev, EventTypes
  <2>4. Moves(1, <<e>>)
    BY <2>1, <2>2, <2>3, MovesTailAppend
  <2>5. e.eType # "RECV"
    BY <2>2, <2>3 DEF Ev
  <2>6. \A i \in 1 .. Len(<<e>>) : <<e>>[i].eType # "RECV"
    BY <2>5
  <2>7. QED
    BY <1>1, <2>1, <2>2, <2>4, <2>6, TrafficOther
<1>27. CASE ProcRelease
  BY <1>1, <1>27, TrafficRelease DEF ProcRelease
<1>28. QED
  BY <1>6, <1>7, <1>8, <1>9, <1>10, <1>11, <1>13, <1>14, <1>15, <1>16, <1>17, <1>18, <1>19, <1>20,
     <1>21, <1>23, <1>24, <1>25, <1>26, <1>27
     DEF Next, Accept, Connect, HandleEvents, ProcEvent

-----------------------------------------------------------------------------
(* What the sessions see                                                    *)

Safe == ObjectsSafe /\ SessionInv /\ TrafficInv

LEMMA InitSafe == Init => Safe
<1> SUFFICES ASSUME Init PROVE Safe
  OBVIOUS
<1>1. ObjectsSafe
  BY InitObjects
<1>2. SessionInv
  BY LifecycleAssumption DEF Init, SessionInv, TalkOK, Conversation, Greeted, Link
<1>3. ASSUME NEW l \in Link PROVE CountOK(l)
  BY <1>3 DEF Init, CountOK
<1>4. TrafficInv
  BY <1>3 DEF Init, TrafficInv, Traffic, AnnOK, RecvOK
<1>5. QED
  BY <1>1, <1>2, <1>4 DEF Safe

LEMMA StepSafe == Safe /\ [Next]_vars => Safe'
<1>1. ASSUME Safe, Next PROVE Safe'
  BY <1>1, StepObjects, SessionStep, TrafficStep DEF Safe, ObjectsSafe
<1>2. ASSUME Safe, UNCHANGED vars PROVE Safe'
  <2>1. UNCHANGED <<conn, state, hSock, m_nConnStat, m_poSock, told, queue, at, arg, nLink, nRecv,
                    early, reused>>
    BY <1>2 DEF vars, sockVars, connVars, threadVars, counters
  <2>2. ObjectsSafe'
    BY <1>2, StepObjects DEF Safe
  <2>3. SessionInv'
    BY <1>2, <2>1 DEF Safe, SessionInv, TalkOK, Conversation, Greeted
  <2>4. TrafficInv'
    <3>1. (\A s \in Sock : AnnOK(s)) => \A s \in Sock : AnnOK(s)'
      BY <2>1 DEF AnnOK, Associated, Established, Joined, Announced, Is
    <3>2. (\A k \in 1 .. Len(queue) : RecvOK(k)) => \A k \in 1 .. Len(queue') : RecvOK(k)'
      BY <2>1 DEF RecvOK, EndsAt, Associated, Established, Joined, Announced, Is
    <3>3. (\A l \in Link : CountOK(l)) => \A l \in Link : CountOK(l)'
      BY <2>1 DEF CountOK
    <3>4. QED
      BY <1>2, <2>1, <3>1, <3>2, <3>3 DEF Safe, TrafficInv, Traffic
  <2>5. QED
    BY <2>2, <2>3, <2>4 DEF Safe
<1>3. QED
  BY <1>1, <1>2

LEMMA SpecSafe == Spec => []Safe
BY InitSafe, StepSafe, PTL DEF Spec

LEMMA AtMostOne ==
  ASSUME NEW S, \A a, b \in S : a = b PROVE Cardinality(S) <= 1
<1>1. CASE S = {}
  <2>1. Cardinality(S) = 0
    BY <1>1, FS_EmptySet
  <2>2. QED
    BY <2>1
<1>2. CASE S # {}
  <2>1. PICK a \in S : S = {a}
    BY <1>2
  <2>2. Cardinality(S) = 1
    BY <2>1, FS_Singleton
  <2>3. QED
    BY <2>2
<1>3. QED
  BY <1>1, <1>2

\* What a session sees of its connection is a conversation: one OnConnect before
\* any OnRecv, one OnClose with the Release after it, and nothing after that.
THEOREM SessionProtocolCorrect == Spec => []SessionProtocol
<1>1. Safe => SessionProtocol
  <2> SUFFICES ASSUME Safe, reused = {}, NEW l \in Link
               PROVE  /\ \A call \in {"OnConnect", "OnClose", "Release"} : Times(l, call) <= 1
                      /\ Gone(l) => told[l][Len(told[l])] = "Release"
                      /\ \A i \in 1 .. Len(told[l]) :
                           /\ told[l][i] = "OnRecv" =>
                                \E j \in 1 .. i - 1 : told[l][j] = "OnConnect"
                           /\ told[l][i] = "OnClose" => i = Len(told[l]) - 1
    BY DEF SessionProtocol
  <2>1. PICK t, over : t = told[l] /\ Conversation(t, over)
    BY DEF Safe, SessionInv, TalkOK
  <2>2. ASSUME NEW call \in {"OnConnect", "OnClose", "Release"} PROVE Times(l, call) <= 1
    <3>1. PICK S : S = {i \in 1 .. Len(t) : t[i] = call}
      OBVIOUS
    <3>2. \A a, b \in S : a = b
      BY <2>1, <2>2, <3>1 DEF Conversation
    <3>3. QED
      BY <2>1, <3>1, <3>2, AtMostOne DEF Times
  <2>3. Gone(l) => told[l][Len(told[l])] = "Release"
    BY <2>1 DEF Gone, Conversation
  <2>4. \A i \in 1 .. Len(told[l]) :
          /\ told[l][i] = "OnRecv" => \E j \in 1 .. i - 1 : told[l][j] = "OnConnect"
          /\ told[l][i] = "OnClose" => i = Len(told[l]) - 1
    BY <2>1 DEF Conversation
  <2>5. QED
    BY <2>2, <2>3, <2>4
<1>2. QED
  BY <1>1, SpecSafe, PTL

\* Once every event has been run, the session of each established socket has been
\* told of its connection, unless the IO thread was faster than the announcement.
THEOREM AnnouncedAtRestCorrect == Spec => []AnnouncedAtRest
<1>1. Safe => AnnouncedAtRest
  <2> SUFFICES ASSUME Safe, Quiet, reused = {}, NEW s \in Sock, IsConnected(s), conn[s] # NoLink,
                      conn[s] \notin early
               PROVE  m_nConnStat[conn[s]] \in {"OK", "CLOSING"}
    BY DEF AnnouncedAtRest
  <2>1. ObjOK(s) /\ AnnOK(s) /\ state[s] = "ESTABLISH" /\ Len(queue) = 0
    BY DEF Safe, ObjectsSafe, ObjectInv, TrafficInv, Traffic, IsConnected, Quiet
  <2>2. CASE hSock[s] # INVALID_SOCKET
    <3>1. Established(s, Len(queue) + 1)
      BY <2>1, <2>2 DEF AnnOK, Quiet, Threads
    <3>2. QED
      BY <2>1, <3>1 DEF Established, Announced
  <2>3. CASE hSock[s] = INVALID_SOCKET
    <3>1. NoEnd(s)
      BY <2>1 DEF NoEnd
    <3>2. s \in free
      BY <2>1, <2>3, <3>1 DEF ObjOK
    <3>3. QED
      BY <2>1, <3>2 DEF ObjOK
  <2>4. QED
    BY <2>2, <2>3
<1>2. QED
  BY <1>1, SpecSafe, PTL

\* No message is dropped on an open connection: what the IO thread has received
\* is what the session has been given and what is pending.
THEOREM MessagesKeptCorrect == Spec => []MessagesKept
<1>1. Safe => MessagesKept
  <2> SUFFICES ASSUME Safe, reused = {}, NEW l \in Link, m_nConnStat[l] = "OK", l \notin early,
                      m_poSock[l] # NoSock => IsConnected(m_poSock[l])
               PROVE  Times(l, "OnRecv") + Pending(l) = nRecv[l]
    BY DEF MessagesKept
  <2>1. TalkOK(l) /\ CountOK(l)
    BY DEF Safe, SessionInv, TrafficInv, Traffic
  <2>2. m_poSock[l] # NoSock
    BY <2>1 DEF TalkOK
  <2>3. state[m_poSock[l]] # "CLOSE"
    BY <2>2 DEF IsConnected
  <2>4. Cardinality(Places(told[l], "OnRecv")) + Cardinality(Messages(queue, l)) = nRecv[l]
    BY <2>1, <2>2, <2>3 DEF CountOK
  <2>5. QED
    BY <2>4 DEF Times, Pending, Places, Messages
<1>2. QED
  BY <1>1, SpecSafe, PTL
=============================================================================
