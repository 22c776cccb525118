------------------------- MODULE UdpHandshakeProofs -------------------------
(***************************************************************************)
(* Proofs about module UdpHandshake, for any number of clients and         *)
(* endpoints and any length of the listener's queue.  A SYN that is sent   *)
(* once and that the network delivers once is in one place at a time: in   *)
(* flight, in the listener's queue, or turned into an endpoint; that is    *)
(* what makes the endpoint of its client the only one.                     *)
(***************************************************************************)
EXTENDS UdpHandshake, TLAPS

TypeOK ==
  /\ conn \in [Client -> {"idle", "wait", "added", "est", "closed", "refused"}]
  /\ syn \subseteq Client
  /\ toClient \in [Client -> SUBSET ToClient]
  /\ lq \in Seq(Client)
  /\ accepting \in Endpoint \cup {NoEndpoint}
  /\ ep \in [Endpoint -> {"free", "bound", "conn"}]
  /\ owner \in [Endpoint -> Client \cup {NoClient}]
  /\ window \in [Endpoint -> {"first", "retry", "open"}]
  /\ excused \subseteq Watched /\ loosened \subseteq Watched

\* An endpoint has an owner as long as it is not in the pool, where its window
\* is a new one.
PoolClean ==
  \A e \in Endpoint :
    /\ Live(e) <=> owner[e] \in Client
    /\ ~Live(e) => window[e] = "first"

Queued(c) == \E i \in 1 .. Len(lq) : lq[i] = c
HasEndpoint(c) == \E e \in Endpoint : owner[e] = c

\* The server has heard nothing of a client that has not called Connect.
Unheard ==
  \A c \in Client :
    conn[c] = "idle" => /\ c \notin syn /\ ~Queued(c) /\ ~HasEndpoint(c)
                        /\ toClient[c] = {}

Trying(c) == conn[c] \in {"wait", "added", "est"}

\* The one SYN of a client without a mishap is in one place only, and an answer
\* has left the endpoint it became.
OneToken ==
  \A c \in Watched :
    Trying(c) /\ c \notin excused =>
      /\ c \in syn => ~Queued(c) /\ ~HasEndpoint(c)
      /\ Queued(c) => ~HasEndpoint(c)
      /\ \A i, j \in 1 .. Len(lq) : lq[i] = c /\ lq[j] = c => i = j
      /\ \A e, f \in Endpoint : owner[e] = c /\ owner[f] = c => e = f
      /\ toClient[c] # {} \/ conn[c] # "wait" => HasEndpoint(c)

\* Until the window of an endpoint has been loosened it holds the SYNACK alone,
\* and no data is on its way to a client that waits.
Tight ==
  \A c \in Watched :
    conn[c] = "wait" /\ c \notin loosened =>
      /\ "DATA" \notin toClient[c]
      /\ \A e \in Endpoint : owner[e] = c => window[e] = "first"

IInv == TypeOK /\ PoolClean /\ Unheard /\ OneToken /\ Tight /\ RefusedOnlyIf

-----------------------------------------------------------------------------
(* The listener's queue                                                     *)

\* What a SYN that arrives does to it.
LEMMA Arrived ==
  ASSUME lq \in Seq(Client), NEW c \in Client, lq' = Append(lq, c)
  PROVE  /\ lq' \in Seq(Client)
         /\ \A d : Queued(d)' <=> Queued(d) \/ d = c
         /\ \A d : /\ \A i, j \in 1 .. Len(lq) : lq[i] = d /\ lq[j] = d => i = j
                   /\ Queued(d) => d # c
                   => \A i, j \in 1 .. Len(lq') : lq'[i] = d /\ lq'[j] = d => i = j
<1> DEFINE n == Len(lq)
<1>1. /\ n \in Nat /\ Len(lq') = n + 1 /\ lq'[n + 1] = c
      /\ \A i \in 1 .. n : lq'[i] = lq[i]
      /\ lq' \in Seq(Client)
  OBVIOUS
<1>2. \A i : i \in 1 .. n + 1 <=> i \in 1 .. n \/ i = n + 1
  BY <1>1
<1>3. \A d : Queued(d)' <=> Queued(d) \/ d = c
  BY <1>1, <1>2 DEF Queued
<1>4. ASSUME NEW d, NEW i \in 1 .. Len(lq'), NEW j \in 1 .. Len(lq'),
             \A a, b \in 1 .. n : lq[a] = d /\ lq[b] = d => a = b,
             Queued(d) => d # c,
             lq'[i] = d, lq'[j] = d
      PROVE  i = j
  BY <1>1, <1>2, <1>4 DEF Queued
<1> QED
  BY <1>1, <1>3, <1>4

\* What OnAccept's recvfrom leaves.
LEMMA Received ==
  ASSUME lq \in Seq(Client), lq # <<>>, lq' = Tail(lq)
  PROVE  /\ lq' \in Seq(Client)
         /\ Head(lq) \in Client /\ Queued(Head(lq))
         /\ \A d : Queued(d)' => Queued(d)
         /\ \A d : (\A i, j \in 1 .. Len(lq) : lq[i] = d /\ lq[j] = d => i = j)
                   => /\ \A i, j \in 1 .. Len(lq') :
                           lq'[i] = d /\ lq'[j] = d => i = j
                      /\ d = Head(lq) => ~Queued(d)'
<1> DEFINE n == Len(lq)
<1>1. /\ n \in Nat \ {0} /\ Len(lq') = n - 1 /\ lq[1] = Head(lq)
      /\ Head(lq) \in Client
      /\ \A i \in 1 .. n - 1 : lq'[i] = lq[i + 1] /\ i + 1 \in 1 .. n
      /\ lq' \in Seq(Client)
  OBVIOUS
<1>2. 1 \in 1 .. n /\ \A i \in 1 .. n - 1 : i + 1 # 1
  BY <1>1
<1>3. Queued(Head(lq)) /\ \A d : Queued(d)' => Queued(d)
  BY <1>1, <1>2 DEF Queued
<1>4. ASSUME NEW d, \A i, j \in 1 .. n : lq[i] = d /\ lq[j] = d => i = j
      PROVE  /\ \A i, j \in 1 .. Len(lq') : lq'[i] = d /\ lq'[j] = d => i = j
             /\ d = Head(lq) => ~Queued(d)'
  <2>1. ASSUME NEW i \in 1 .. n - 1, NEW j \in 1 .. n - 1,
               lq'[i] = d, lq'[j] = d
        PROVE  i = j
    <3>1. i + 1 = j + 1
      BY <1>1, <1>4, <2>1
    <3> QED
      BY <1>1, <3>1
  <2>2. ASSUME d = Head(lq), NEW i \in 1 .. n - 1 PROVE lq'[i] # d
    BY <1>1, <1>2, <1>4, <2>2
  <2> QED
    BY <1>1, <2>1, <2>2 DEF Queued
<1> QED
  BY <1>1, <1>3, <1>4

\* A new server.
LEMMA InitInv == Init => IInv
<1> SUFFICES ASSUME Init PROVE IInv
  OBVIOUS
<1> USE HandshakeAssumption DEF Init
<1>1. Len(lq) = 0
  OBVIOUS
<1>2. TypeOK
  BY DEF TypeOK
<1>3. PoolClean
  BY DEF PoolClean, Live
<1>4. Unheard
  BY <1>1 DEF Unheard, Queued, HasEndpoint
<1>5. OneToken /\ Tight /\ RefusedOnlyIf
  BY DEF OneToken, Trying, Tight, RefusedOnlyIf
<1> QED
  BY <1>2, <1>3, <1>4, <1>5 DEF IInv

-----------------------------------------------------------------------------
(* The client                                                               *)

\* Connect sends the first SYN.
LEMMA ConnectStep ==
  ASSUME IInv, NEW c \in Client, Connect(c) PROVE IInv'
<1> USE HandshakeAssumption
<1>1. /\ conn[c] = "idle" /\ conn' = [conn EXCEPT ![c] = "wait"]
      /\ syn' = syn \cup {c}
      /\ UNCHANGED <<toClient, lq, accepting, ep, owner, window, excused, loosened>>
  BY DEF Connect, epVars, historyVars
<1>2. \A d : /\ Queued(d)' <=> Queued(d)
             /\ HasEndpoint(d)' <=> HasEndpoint(d)
             /\ Live(d)' <=> Live(d)
  BY <1>1 DEF Queued, HasEndpoint, Live
<1>3. TypeOK' /\ PoolClean'
  BY <1>1, <1>2 DEF IInv, TypeOK, PoolClean
<1>4. Unheard'
  BY <1>1, <1>2 DEF IInv, TypeOK, Unheard
<1>5. ~Queued(c) /\ ~HasEndpoint(c) /\ toClient[c] = {}
  BY <1>1 DEF IInv, Unheard
<1>6. OneToken'
  BY <1>1, <1>2, <1>5 DEF IInv, TypeOK, OneToken, Trying, Queued, HasEndpoint
<1>7. Tight' /\ RefusedOnlyIf'
  BY <1>1, <1>5 DEF IInv, TypeOK, Tight, RefusedOnlyIf, HasEndpoint
<1> QED
  BY <1>3, <1>4, <1>6, <1>7 DEF IInv

\* A SYN sent again excuses the client.
LEMMA RecvTimeoutStep ==
  ASSUME IInv, NEW c \in Client, RecvTimeout(c) PROVE IInv'
<1> USE HandshakeAssumption
<1>1. /\ conn[c] = "wait" /\ syn' = syn \cup {c}
      /\ excused' = Excusing({c})
      /\ UNCHANGED <<conn, toClient, lq, accepting, ep, owner, window, loosened>>
  BY DEF RecvTimeout, Resend, epVars
<1>2. \A d : /\ Queued(d)' <=> Queued(d)
             /\ HasEndpoint(d)' <=> HasEndpoint(d)
             /\ Live(d)' <=> Live(d)
  BY <1>1 DEF Queued, HasEndpoint, Live
<1>3. excused' = excused \cup ({c} \cap Watched)
  BY <1>1 DEF Excusing
<1>4. TypeOK' /\ PoolClean' /\ Unheard'
  BY <1>1, <1>2, <1>3 DEF IInv, TypeOK, PoolClean, Unheard
<1>5. OneToken'
  BY <1>1, <1>2, <1>3 DEF IInv, OneToken, Trying
<1>6. Tight' /\ RefusedOnlyIf'
  BY <1>1 DEF IInv, Tight, RefusedOnlyIf
<1> QED
  BY <1>4, <1>5, <1>6 DEF IInv

\* The server, its queue and its endpoints are left alone.
LEMMA ServerSame ==
  ASSUME UNCHANGED <<lq, ep, owner>>
  PROVE  \A d : /\ Queued(d)' <=> Queued(d)
                /\ HasEndpoint(d)' <=> HasEndpoint(d)
                /\ Live(d)' <=> Live(d)
  BY DEF Queued, HasEndpoint, Live

\* recvfrom returns: with a SYNACK, or with data that makes Connect give up.
LEMMA ConnectRecvStep ==
  ASSUME IInv, NEW c \in Client, ConnectRecv(c) \/ ConnectRefuses(c)
  PROVE  IInv'
<1> USE HandshakeAssumption
<1>1. /\ conn[c] = "wait"
      /\ toClient[c] # {} /\ toClient' = [toClient EXCEPT ![c] = {}]
      /\ UNCHANGED <<syn, lq, accepting, ep, owner, window>>
  BY DEF ConnectRecv, ConnectRefuses, epVars
<1>2. \/ /\ conn' = [conn EXCEPT ![c] = "added"]
         /\ loosened' = loosened \ {c} /\ UNCHANGED excused
      \/ /\ conn' = [conn EXCEPT ![c] = "refused"]
         /\ excused' = excused \ {c} /\ UNCHANGED loosened
         /\ "DATA" \in toClient[c]
  BY DEF ConnectRecv, ConnectRefuses, IInv, TypeOK, ToClient
<1>3. TypeOK' /\ PoolClean'
  BY <1>1, <1>2, ServerSame DEF IInv, TypeOK, PoolClean
<1>4. Unheard'
  BY <1>1, <1>2, ServerSame DEF IInv, TypeOK, Unheard
<1>5. OneToken'
  BY <1>1, <1>2, ServerSame DEF IInv, TypeOK, OneToken, Trying
<1>6. Tight'
  BY <1>1, <1>2 DEF IInv, TypeOK, Tight
<1>7. RefusedOnlyIf'
  BY <1>1, <1>2 DEF IInv, TypeOK, Tight, RefusedOnlyIf
<1> QED
  BY <1>3, <1>4, <1>5, <1>6, <1>7 DEF IInv

\* Connect returns, or the client ends.
LEMMA ClientEndsStep ==
  ASSUME IInv, NEW c \in Client,
         ConnectDone(c) \/ EarlyUpdate(c) \/ ClientEnds(c)
  PROVE  IInv'
<1> USE HandshakeAssumption
<1>1. /\ conn[c] \in {"added", "est"}
      /\ UNCHANGED <<syn, toClient, lq, accepting, ep, owner, window, loosened>>
      /\ \/ conn' = [conn EXCEPT ![c] = "est"] /\ UNCHANGED excused
         \/ conn' = [conn EXCEPT ![c] = "closed"] /\ excused' = excused \ {c}
  BY DEF ConnectDone, EarlyUpdate, ClientEnds, netVars, epVars, historyVars
<1>2. TypeOK' /\ PoolClean' /\ Unheard'
  BY <1>1, ServerSame DEF IInv, TypeOK, PoolClean, Unheard
<1>3. OneToken'
  BY <1>1, ServerSame DEF IInv, TypeOK, OneToken, Trying
<1>4. Tight' /\ RefusedOnlyIf'
  BY <1>1 DEF IInv, TypeOK, Tight, RefusedOnlyIf
<1> QED
  BY <1>2, <1>3, <1>4 DEF IInv

-----------------------------------------------------------------------------
(* The network and OnAccept                                                 *)

\* Packets are lost.
LEMMA LoseStep ==
  ASSUME IInv, NEW c \in Client,
         LoseSyn(c) \/ \E k \in ToClient : LoseReply(c, k)
  PROVE  IInv'
<1>1. /\ UNCHANGED <<conn, lq, accepting, ep, owner, window, excused, loosened>>
      /\ \/ syn' = syn \ {c} /\ UNCHANGED toClient
         \/ \E k \in ToClient :
              UNCHANGED syn /\ toClient' = [toClient EXCEPT ![c] = @ \ {k}]
  BY DEF LoseSyn, LoseReply, epVars, historyVars
<1>2. syn' \subseteq syn /\ \A d \in Client : toClient'[d] \subseteq toClient[d]
  BY <1>1 DEF IInv, TypeOK
<1>3. TypeOK' /\ PoolClean'
  BY <1>1, ServerSame DEF IInv, TypeOK, PoolClean
<1>4. Unheard'
  BY <1>1, <1>2, ServerSame DEF IInv, Unheard
<1>5. OneToken'
  BY <1>1, <1>2, ServerSame, HandshakeAssumption DEF IInv, OneToken, Trying
<1>6. Tight' /\ RefusedOnlyIf'
  BY <1>1, <1>2, HandshakeAssumption DEF IInv, Tight, RefusedOnlyIf
<1> QED
  BY <1>3, <1>4, <1>5, <1>6 DEF IInv

\* A SYN moves from the network to the listener's queue, or a copy of it does,
\* which excuses the client.
LEMMA ArriveStep ==
  ASSUME IInv, NEW c \in Client, NEW k \in ToServer, ArriveAtListener(c, k)
  PROVE  IInv'
<1> USE HandshakeAssumption
<1>1. /\ c \in syn /\ lq' = Append(lq, c)
      /\ \/ syn' = syn \ {c} /\ excused' = Excusing({})
         \/ syn' = syn /\ excused' = Excusing({c})
      /\ UNCHANGED <<conn, toClient, accepting, ep, owner, window, loosened>>
  BY DEF ArriveAtListener, Validates, InFlight, Taken, epVars
<1>2. /\ syn' \subseteq syn
      /\ excused \subseteq excused' /\ excused' \subseteq Watched
      /\ c \in Watched /\ Trying(c) => c \notin syn' \/ c \in excused'
  BY <1>1 DEF Excusing, Trying, IInv, TypeOK
<1>3. /\ lq' \in Seq(Client)
      /\ \A d : Queued(d)' <=> Queued(d) \/ d = c
      /\ \A d : /\ \A i, j \in 1 .. Len(lq) : lq[i] = d /\ lq[j] = d => i = j
                /\ Queued(d) => d # c
                => \A i, j \in 1 .. Len(lq') : lq'[i] = d /\ lq'[j] = d => i = j
  BY <1>1, Arrived DEF IInv, TypeOK
<1>4. \A d : HasEndpoint(d)' <=> HasEndpoint(d)
  BY <1>1 DEF HasEndpoint
<1>5. TypeOK'
  BY <1>2, <1>1, <1>3 DEF IInv, TypeOK
<1>6. PoolClean'
  BY <1>1 DEF IInv, PoolClean, Live
<1>7. Unheard'
  BY <1>2, <1>1, <1>3, <1>4 DEF IInv, Unheard
<1>8. OneToken'
  <2> SUFFICES ASSUME NEW d \in Watched, Trying(d), d \notin excused'
               PROVE  /\ d \in syn' => ~Queued(d)' /\ ~HasEndpoint(d)'
                      /\ Queued(d)' => ~HasEndpoint(d)'
                      /\ \A i, j \in 1 .. Len(lq') :
                           lq'[i] = d /\ lq'[j] = d => i = j
                      /\ \A e, f \in Endpoint : owner[e] = d /\ owner[f] = d => e = f
                      /\ toClient[d] # {} \/ conn[d] # "wait" => HasEndpoint(d)'
    BY <1>1 DEF OneToken, Trying
  <2>1. /\ d \in syn => ~Queued(d) /\ ~HasEndpoint(d)
        /\ Queued(d) => ~HasEndpoint(d)
        /\ \A i, j \in 1 .. Len(lq) : lq[i] = d /\ lq[j] = d => i = j
        /\ \A e, f \in Endpoint : owner[e] = d /\ owner[f] = d => e = f
        /\ toClient[d] # {} \/ conn[d] # "wait" => HasEndpoint(d)
    BY <1>2 DEF IInv, OneToken
  <2>2. \A i, j \in 1 .. Len(lq') : lq'[i] = d /\ lq'[j] = d => i = j
    BY <1>1, <1>3, <2>1
  <2> QED
    BY <1>2, <1>1, <1>3, <1>4, <2>1, <2>2
<1>9. Tight' /\ RefusedOnlyIf'
  BY <1>1 DEF IInv, Tight, RefusedOnlyIf
<1> QED
  BY <1>5, <1>6, <1>7, <1>8, <1>9 DEF IInv

\* The SYN is dropped.
LEMMA AcceptDropsStep ==
  ASSUME IInv, AcceptDrops PROVE IInv'
<1> USE HandshakeAssumption
<1>1. /\ lq # <<>> /\ lq' = Tail(lq)
      /\ UNCHANGED <<conn, syn, toClient, accepting, ep, owner, window, excused,
                     loosened>>
  BY DEF AcceptDrops, netVars, epVars, historyVars
<1>2. /\ lq' \in Seq(Client)
      /\ \A d : Queued(d)' => Queued(d)
      /\ \A d : (\A i, j \in 1 .. Len(lq) : lq[i] = d /\ lq[j] = d => i = j)
                => \A i, j \in 1 .. Len(lq') : lq'[i] = d /\ lq'[j] = d => i = j
  BY <1>1, Received DEF IInv, TypeOK
<1>3. \A d : HasEndpoint(d)' <=> HasEndpoint(d)
  BY <1>1 DEF HasEndpoint
<1>4. TypeOK' /\ PoolClean' /\ Unheard'
  BY <1>1, <1>2, <1>3 DEF IInv, TypeOK, PoolClean, Live, Unheard
<1>5. OneToken'
  BY <1>1, <1>2, <1>3 DEF IInv, OneToken, Trying
<1>6. Tight' /\ RefusedOnlyIf'
  BY <1>1 DEF IInv, Tight, RefusedOnlyIf
<1> QED
  BY <1>4, <1>5, <1>6 DEF IInv

\* The SYN becomes an endpoint, and its answer is sent.
LEMMA AcceptBindsStep ==
  ASSUME IInv, NEW e \in Endpoint, AcceptBinds(e) PROVE IInv'
<1> USE HandshakeAssumption
<1> DEFINE c == Head(lq)
<1>1. /\ lq # <<>> /\ lq' = Tail(lq)
      /\ ep[e] = "free" /\ ep' = [ep EXCEPT ![e] = "bound"]
      /\ owner' = [owner EXCEPT ![e] = c]
      /\ toClient' = Sent(c, "SYNACK")
      /\ accepting' = e
      /\ UNCHANGED <<conn, syn, window, excused, loosened>>
  BY DEF AcceptBinds, FreeEndpoint, historyVars
<1>2. /\ lq' \in Seq(Client) /\ c \in Client /\ Queued(c)
      /\ \A d : Queued(d)' => Queued(d)
      /\ \A d : (\A i, j \in 1 .. Len(lq) : lq[i] = d /\ lq[j] = d => i = j)
                => /\ \A i, j \in 1 .. Len(lq') :
                        lq'[i] = d /\ lq'[j] = d => i = j
                   /\ d = c => ~Queued(d)'
  BY <1>1, Received DEF IInv, TypeOK
<1>3. /\ owner[e] \notin Client /\ window[e] = "first"
      /\ \A f \in Endpoint : owner'[f] = IF f = e THEN c ELSE owner[f]
      /\ \A f \in Endpoint : Live(f)' <=> Live(f) \/ f = e
  BY <1>1 DEF IInv, TypeOK, PoolClean, Live
<1>4. \A d \in Client : HasEndpoint(d)' <=> HasEndpoint(d) \/ d = c
  BY <1>3 DEF HasEndpoint
<1>5. \A d \in Client :
        toClient'[d] = IF d = c /\ conn[c] = "wait"
                         THEN toClient[d] \cup {"SYNACK"} ELSE toClient[d]
  BY <1>1, <1>2 DEF Sent, IInv, TypeOK
<1>6. conn[c] # "idle"
  BY <1>2 DEF IInv, Unheard
<1>7. TypeOK'
  <2>1. toClient' \in [Client -> SUBSET ToClient]
    BY <1>1, <1>2 DEF IInv, TypeOK, Sent, ToClient
  <2> QED
    BY <1>1, <1>2, <2>1 DEF IInv, TypeOK
<1>8. PoolClean'
  BY <1>1, <1>2, <1>3 DEF IInv, PoolClean
<1>9. Unheard'
  BY <1>1, <1>2, <1>4, <1>5, <1>6 DEF IInv, Unheard
<1>10. OneToken'
  <2> SUFFICES ASSUME NEW d \in Watched, Trying(d), d \notin excused
               PROVE  /\ d \in syn => ~Queued(d)' /\ ~HasEndpoint(d)'
                      /\ Queued(d)' => ~HasEndpoint(d)'
                      /\ \A i, j \in 1 .. Len(lq') :
                           lq'[i] = d /\ lq'[j] = d => i = j
                      /\ \A f, g \in Endpoint :
                           owner'[f] = d /\ owner'[g] = d => f = g
                      /\ toClient'[d] # {} \/ conn[d] # "wait" => HasEndpoint(d)'
    BY <1>1 DEF OneToken, Trying
  <2>1. /\ d \in syn => ~Queued(d) /\ ~HasEndpoint(d)
        /\ Queued(d) => ~HasEndpoint(d)
        /\ \A i, j \in 1 .. Len(lq) : lq[i] = d /\ lq[j] = d => i = j
        /\ \A f, g \in Endpoint : owner[f] = d /\ owner[g] = d => f = g
        /\ toClient[d] # {} \/ conn[d] # "wait" => HasEndpoint(d)
    BY DEF IInv, OneToken
  <2>2. /\ \A i, j \in 1 .. Len(lq') : lq'[i] = d /\ lq'[j] = d => i = j
        /\ d = c => ~Queued(d)'
    BY <1>2, <2>1
  <2>3. d \in Client
    OBVIOUS
  <2>4. \A f, g \in Endpoint : owner'[f] = d /\ owner'[g] = d => f = g
    BY <1>2, <1>3, <2>1, <2>3 DEF HasEndpoint
  <2> QED
    BY <1>2, <1>4, <1>5, <2>1, <2>2, <2>3, <2>4
<1>11. Tight'
  <2> SUFFICES ASSUME NEW d \in Watched, conn[d] = "wait", d \notin loosened
               PROVE  /\ "DATA" \notin toClient'[d]
                      /\ \A f \in Endpoint : owner'[f] = d => window[f] = "first"
    BY <1>1 DEF Tight
  <2>1. /\ "DATA" \notin toClient[d]
        /\ \A f \in Endpoint : owner[f] = d => window[f] = "first"
    BY DEF IInv, Tight
  <2>2. d \in Client
    OBVIOUS
  <2>3. toClient'[d] \subseteq toClient[d] \cup {"SYNACK"}
    BY <1>5, <2>2
  <2>4. "DATA" \notin toClient'[d]
    BY <2>1, <2>3
  <2>5. \A f \in Endpoint : owner'[f] = d => window[f] = "first"
    BY <1>3, <2>1
  <2> QED
    BY <2>4, <2>5
<1>12. RefusedOnlyIf'
  BY <1>1 DEF IInv, RefusedOnlyIf
<1> QED
  BY <1>7, <1>8, <1>9, <1>10, <1>11, <1>12 DEF IInv

\* The endpoint is connected, if it is still there.
LEMMA AcceptConnectsStep ==
  ASSUME IInv, AcceptConnects PROVE IInv'
<1> USE HandshakeAssumption
<1>1. /\ accepting \in Endpoint
      /\ ep' = [ep EXCEPT ![accepting] = IF @ = "bound" THEN "conn" ELSE @]
      /\ accepting' = NoEndpoint
      /\ UNCHANGED <<conn, syn, toClient, lq, owner, window, excused, loosened>>
  BY DEF AcceptConnects, netVars, historyVars, IInv, TypeOK
<1>2. \A d : /\ Queued(d)' <=> Queued(d)
             /\ HasEndpoint(d)' <=> HasEndpoint(d)
  BY <1>1 DEF Queued, HasEndpoint
<1>3. \A f \in Endpoint : Live(f)' <=> Live(f)
  BY <1>1 DEF Live, IInv, TypeOK
<1>4. TypeOK' /\ PoolClean' /\ Unheard'
  BY <1>1, <1>2, <1>3 DEF IInv, TypeOK, PoolClean, Unheard
<1>5. OneToken'
  BY <1>1, <1>2 DEF IInv, OneToken, Trying
<1>6. Tight' /\ RefusedOnlyIf'
  BY <1>1 DEF IInv, Tight, RefusedOnlyIf
<1> QED
  BY <1>4, <1>5, <1>6 DEF IInv

-----------------------------------------------------------------------------
(* The endpoints                                                            *)

\* An endpoint whose owner is excused goes back to the pool.
LEMMA CloseStep ==
  ASSUME IInv, NEW e \in Endpoint, Close(e), Live(e),
         syn' \subseteq syn,
         NEW C, excused' = Excusing(C),
         owner[e] \in Watched /\ Trying(owner[e]) => owner[e] \in excused',
         UNCHANGED <<conn, toClient, lq, accepting, loosened>>
  PROVE  IInv'
<1> USE HandshakeAssumption
<1>1. /\ ep' = [ep EXCEPT ![e] = "free"]
      /\ owner' = [owner EXCEPT ![e] = NoClient]
      /\ window' = [window EXCEPT ![e] = "first"]
  BY DEF Close
<1>2. /\ \A f \in Endpoint : owner'[f] = IF f = e THEN NoClient ELSE owner[f]
      /\ \A f \in Endpoint : window'[f] = IF f = e THEN "first" ELSE window[f]
      /\ \A f \in Endpoint : Live(f)' <=> Live(f) /\ f # e
  BY <1>1 DEF IInv, TypeOK, Live
<1>3. /\ \A d : Queued(d)' <=> Queued(d)
      /\ \A d \in Client : HasEndpoint(d)' => HasEndpoint(d)
      /\ \A d \in Client : d # owner[e] /\ HasEndpoint(d) => HasEndpoint(d)'
  BY <1>2 DEF Queued, HasEndpoint
<1>4. excused \subseteq excused' /\ excused' \subseteq Watched
  BY DEF Excusing, IInv, TypeOK
<1>5. TypeOK'
  BY <1>1, <1>4 DEF IInv, TypeOK
<1>6. PoolClean'
  BY <1>2 DEF IInv, PoolClean
<1>7. Unheard'
  BY <1>3 DEF IInv, Unheard
<1>8. OneToken'
  <2> SUFFICES ASSUME NEW d \in Watched, Trying(d), d \notin excused'
               PROVE  /\ d \in syn' => ~Queued(d)' /\ ~HasEndpoint(d)'
                      /\ Queued(d)' => ~HasEndpoint(d)'
                      /\ \A i, j \in 1 .. Len(lq) :
                           lq[i] = d /\ lq[j] = d => i = j
                      /\ \A f, g \in Endpoint :
                           owner'[f] = d /\ owner'[g] = d => f = g
                      /\ toClient[d] # {} \/ conn[d] # "wait" => HasEndpoint(d)'
    BY DEF OneToken, Trying
  <2>1. d \notin excused /\ d # owner[e] /\ d \in Client /\ d # NoClient
    BY <1>4
  <2>2. /\ d \in syn => ~Queued(d) /\ ~HasEndpoint(d)
        /\ Queued(d) => ~HasEndpoint(d)
        /\ \A i, j \in 1 .. Len(lq) : lq[i] = d /\ lq[j] = d => i = j
        /\ \A f, g \in Endpoint : owner[f] = d /\ owner[g] = d => f = g
        /\ toClient[d] # {} \/ conn[d] # "wait" => HasEndpoint(d)
    BY <2>1 DEF IInv, OneToken
  <2> QED
    BY <1>2, <1>3, <2>1, <2>2
<1>9. Tight'
  BY <1>2 DEF IInv, Tight
<1>10. RefusedOnlyIf'
  BY DEF IInv, RefusedOnlyIf
<1> QED
  BY <1>5, <1>6, <1>7, <1>8, <1>9, <1>10 DEF IInv

\* A packet reaches an endpoint that is in use.
LEMMA ReachedLive ==
  ASSUME IInv, NEW c \in Client, NEW e \in Endpoint, Reached(c, e)
  PROVE  Live(e)
<1>1. CASE Connected(c) # {}
  <2>1. Served(c) \in Connected(c)
    BY <1>1 DEF Served
  <2> QED
    BY <1>1, <2>1 DEF Reached, Connected, Live
<1>2. CASE Connected(c) = {}
  BY <1>2 DEF Reached, Unconnected, Live
<1> QED
  BY <1>1, <1>2

\* A SYN closes the endpoint it reaches: the client's own repeated one, which
\* cannot be there as long as the client is not excused, or a stranger's.
LEMMA OnRecvSynStep ==
  ASSUME IInv, NEW e \in Endpoint, NEW c \in Client, OnRecvSyn(e, c) PROVE IInv'
<1> DEFINE C == {owner[e]} \ {c}
<1>1. /\ c \in syn /\ Close(e)
      /\ \/ syn' = syn \ {c} /\ excused' = Excusing(C)
         \/ syn' = syn /\ excused' = Excusing(C \cup {c})
      /\ UNCHANGED <<conn, toClient, lq, accepting, loosened>>
  BY DEF OnRecvSyn, InFlight, Taken
<1>2. Live(e)
  BY ReachedLive DEF OnRecvSyn
<1>3. ASSUME owner[e] \in Watched, Trying(owner[e]) PROVE owner[e] \in excused'
  <2>1. CASE c # owner[e]
    BY <1>1, <1>3, <2>1 DEF Excusing, Trying
  <2>2. CASE c = owner[e]
    <3>1. owner[e] \in excused
      BY <1>1, <1>3, <2>2 DEF IInv, OneToken, HasEndpoint
    <3> QED
      BY <1>1, <3>1 DEF Excusing
  <2> QED
    BY <2>1, <2>2
<1>4. CASE syn' = syn \ {c} /\ excused' = Excusing(C)
  BY <1>1, <1>2, <1>3, <1>4, CloseStep
<1>5. CASE syn' = syn /\ excused' = Excusing(C \cup {c})
  BY <1>1, <1>2, <1>3, <1>5, CloseStep
<1> QED
  BY <1>1, <1>4, <1>5

\* Update before connect(), and the ack timeout.
LEMMA EndpointEndsStep ==
  ASSUME IInv, NEW e \in Endpoint, PostSendFails(e) \/ AckTimeout(e) PROVE IInv'
<1>1. /\ Live(e) /\ Close(e) /\ excused' = Excusing({owner[e]})
      /\ UNCHANGED <<conn, syn, toClient, lq, accepting, loosened>>
  BY DEF PostSendFails, AckTimeout, netVars, Live
<1>2. ASSUME owner[e] \in Watched, Trying(owner[e]) PROVE owner[e] \in excused'
  BY <1>1, <1>2 DEF Excusing, Trying
<1> QED
  BY <1>1, <1>2, CloseStep

\* The window of an endpoint opens: by a retry timeout, or by an acknowledgement,
\* which its own client does not send while it waits.
LEMMA WindowStep ==
  ASSUME IInv, NEW e \in Endpoint,
         RetryTimeout(e) \/ \E c \in Client : OnRecvData(e, c)
  PROVE  IInv'
<1> USE HandshakeAssumption
<1>1. /\ Live(e)
      /\ \E w \in {"retry", "open"} : window' = [window EXCEPT ![e] = w]
      /\ \/ loosened' = Loosening(owner[e])
         \/ loosened' = loosened /\ conn[owner[e]] # "wait"
      /\ UNCHANGED <<conn, syn, toClient, lq, accepting, ep, owner, excused>>
  <2>1. CASE RetryTimeout(e)
    BY <2>1 DEF RetryTimeout, netVars, Live
  <2>2. ASSUME NEW c \in Client, OnRecvData(e, c)
        PROVE  /\ Live(e)
               /\ \E w \in {"retry", "open"} : window' = [window EXCEPT ![e] = w]
               /\ \/ loosened' = Loosening(owner[e])
                  \/ loosened' = loosened /\ conn[owner[e]] # "wait"
               /\ UNCHANGED <<conn, syn, toClient, lq, accepting, ep, owner,
                              excused>>
    BY <2>2, ReachedLive DEF OnRecvData, InFlight, netVars
  <2> QED
    BY <2>1, <2>2
<1>2. \A f \in Endpoint : f # e => window'[f] = window[f]
  BY <1>1 DEF IInv, TypeOK
<1>3. /\ loosened \subseteq loosened' /\ loosened' \subseteq Watched
      /\ owner[e] \in Watched /\ conn[owner[e]] = "wait" => owner[e] \in loosened'
  BY <1>1 DEF Loosening, IInv, TypeOK
<1>4. TypeOK'
  BY <1>1, <1>3 DEF IInv, TypeOK
<1>5. PoolClean'
  BY <1>1, <1>2, ServerSame DEF IInv, PoolClean
<1>6. Unheard' /\ OneToken'
  BY <1>1, ServerSame DEF IInv, Unheard, OneToken, Trying
<1>7. Tight'
  BY <1>1, <1>2, <1>3 DEF IInv, Tight
<1>8. RefusedOnlyIf'
  BY <1>1, <1>3 DEF IInv, RefusedOnlyIf
<1> QED
  BY <1>4, <1>5, <1>6, <1>7, <1>8 DEF IInv

\* A connected endpoint sends: data only if its window has opened.
LEMMA PostSendStep ==
  ASSUME IInv, NEW e \in Endpoint, PostSend(e) \/ PostSendData(e) PROVE IInv'
<1> USE HandshakeAssumption
<1> DEFINE c == owner[e]
<1>1. PICK k \in ToClient :
        /\ ep[e] = "conn" /\ toClient' = Sent(c, k)
        /\ k = "DATA" => window[e] # "first"
        /\ UNCHANGED <<conn, syn, lq, accepting, ep, owner, window, excused,
                       loosened>>
  BY DEF PostSend, PostSendData, MaySendData, epVars, historyVars, ToClient
<1>2. c \in Client /\ HasEndpoint(c)
  BY <1>1 DEF IInv, PoolClean, Live, HasEndpoint
<1>3. \A d \in Client :
        toClient'[d] = IF d = c /\ conn[c] = "wait"
                         THEN toClient[d] \cup {k} ELSE toClient[d]
  BY <1>1, <1>2 DEF Sent, IInv, TypeOK
<1>4. TypeOK'
  <2>1. toClient' \in [Client -> SUBSET ToClient]
    BY <1>1, <1>2 DEF IInv, TypeOK, Sent
  <2> QED
    BY <1>1, <2>1 DEF IInv, TypeOK
<1>5. PoolClean'
  BY <1>1, ServerSame DEF IInv, PoolClean
<1>6. Unheard'
  BY <1>1, <1>2, <1>3, ServerSame DEF IInv, Unheard
<1>7. OneToken'
  <2>1. \A d \in Watched : toClient'[d] = toClient[d] \/ HasEndpoint(d)
    BY <1>2, <1>3
  <2> QED
    BY <1>1, <2>1, ServerSame DEF IInv, OneToken, Trying
<1>8. Tight'
  <2> SUFFICES ASSUME NEW d \in Watched, conn[d] = "wait", d \notin loosened
               PROVE  /\ "DATA" \notin toClient'[d]
                      /\ \A f \in Endpoint : owner[f] = d => window[f] = "first"
    BY <1>1 DEF Tight
  <2>1. /\ "DATA" \notin toClient[d]
        /\ \A f \in Endpoint : owner[f] = d => window[f] = "first"
    BY DEF IInv, Tight
  <2>2. d = c => k # "DATA"
    BY <1>1, <2>1
  <2>3. d \in Client
    OBVIOUS
  <2> QED
    BY <1>3, <2>1, <2>2, <2>3
<1>9. RefusedOnlyIf'
  BY <1>1 DEF IInv, RefusedOnlyIf
<1> QED
  BY <1>4, <1>5, <1>6, <1>7, <1>8, <1>9 DEF IInv

-----------------------------------------------------------------------------
(* The theorems                                                             *)

\* Every step keeps the invariant.
LEMMA StepInv == IInv /\ [Next]_vars => IInv'
<1> SUFFICES ASSUME IInv, [Next]_vars PROVE IInv'
  OBVIOUS
<1>1. ASSUME NEW c \in Client, Connect(c) PROVE IInv'
  BY <1>1, ConnectStep
<1>2. ASSUME NEW c \in Client, RecvTimeout(c) PROVE IInv'
  BY <1>2, RecvTimeoutStep
<1>3. ASSUME NEW c \in Client, ConnectRecv(c) \/ ConnectRefuses(c) PROVE IInv'
  BY <1>3, ConnectRecvStep
<1>4. ASSUME NEW c \in Client, ConnectDone(c) \/ EarlyUpdate(c) \/ ClientEnds(c)
      PROVE  IInv'
  BY <1>4, ClientEndsStep
<1>5. ASSUME NEW c \in Client, LoseSyn(c) \/ \E k \in ToClient : LoseReply(c, k)
      PROVE  IInv'
  BY <1>5, LoseStep
<1>6. ASSUME NEW c \in Client, NEW k \in ToServer, ArriveAtListener(c, k)
      PROVE  IInv'
  BY <1>6, ArriveStep
<1>7. ASSUME NEW c \in Client, NEW e \in Endpoint, OnRecvSyn(e, c) PROVE IInv'
  BY <1>7, OnRecvSynStep
<1>8. ASSUME NEW c \in Client, NEW e \in Endpoint, OnRecvData(e, c) PROVE IInv'
  BY <1>8, WindowStep
<1>9. CASE AcceptDrops
  BY <1>9, AcceptDropsStep
<1>10. CASE AcceptConnects
  BY <1>10, AcceptConnectsStep
<1>11. ASSUME NEW e \in Endpoint, AcceptBinds(e) PROVE IInv'
  BY <1>11, AcceptBindsStep
<1>12. ASSUME NEW e \in Endpoint, PostSend(e) \/ PostSendData(e) PROVE IInv'
  BY <1>12, PostSendStep
<1>13. ASSUME NEW e \in Endpoint, PostSendFails(e) \/ AckTimeout(e) PROVE IInv'
  BY <1>13, EndpointEndsStep
<1>14. ASSUME NEW e \in Endpoint, RetryTimeout(e) PROVE IInv'
  BY <1>14, WindowStep
<1>15. CASE UNCHANGED vars
  BY <1>15, ServerSame
     DEF vars, netVars, epVars, historyVars, IInv, TypeOK, PoolClean, Unheard,
         OneToken, Trying, Tight, RefusedOnlyIf
<1> QED
  BY <1>1, <1>2, <1>3, <1>4, <1>5, <1>6, <1>7, <1>8, <1>9, <1>10, <1>11, <1>12,
     <1>13, <1>14, <1>15
     DEF Next

\* The invariant holds of every behaviour.
LEMMA Invariance == Spec => []IInv
<1> QED
  BY InitInv, StepInv, PTL DEF Spec

\* A client that is connected, whose SYN was sent once and delivered once and
\* whose endpoint met none of the named mishaps, has exactly one endpoint on the
\* server, for any number of clients and endpoints.
THEOREM PairedCorrect == Spec => []Paired
<1>1. ASSUME IInv PROVE Paired
  <2> SUFFICES ASSUME NEW c \in Watched, conn[c] = "est", c \notin excused
               PROVE  HasOneEndpoint(c)
    BY DEF Paired
  <2>1. /\ HasEndpoint(c)
        /\ \A e, f \in Endpoint : owner[e] = c /\ owner[f] = c => e = f
    BY <1>1 DEF IInv, OneToken, Trying
  <2>2. PICK e \in Endpoint : owner[e] = c
    BY <2>1 DEF HasEndpoint
  <2>3. Live(e)
    BY <1>1, <2>2, HandshakeAssumption DEF IInv, PoolClean
  <2> QED
    BY <2>1, <2>2, <2>3 DEF HasOneEndpoint
<1> QED
  BY <1>1, Invariance, PTL

\* Connect refuses a reply only after a retry timeout, or a stranger's packet, let
\* data out before the SYNACK was acknowledged.
THEOREM RefusedCorrect == Spec => []RefusedOnlyIf
<1>1. IInv => RefusedOnlyIf
  BY DEF IInv
<1> QED
  BY <1>1, Invariance, PTL
=============================================================================
