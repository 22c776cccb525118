# FxLib in TLA+

TLA+ specifications of the network library of FxLib (`src/Server/Net`), the part
of the repository on which every server in it is built. They model how bytes,
packets and events travel between the main thread, the IO threads and the
kernel, on Linux. TLC checks them on small instances; TLAPS proves the central
safety properties of the byte ring and the message parser on it, the event queue
(alone and composed with the sockets' `Close`), the TCP sending path, the life of a
TCP connection, the socket pool, the UDP handshake and the reliable UDP transport,
for every size of buffer, queue, pool and window and every number of threads,
sockets and connections: every safety property that TLC checks is also proved.

## 1. The system

A server is one process. Its main thread calls `FxNetModule::Run` in a loop: it
pops network events and runs their handlers, which call the application's
sessions. A number of IO threads (`FxIoThread`) wait in `epoll_wait` and call the
sockets' handlers. A connection (`FxConnection`) links a session with a socket
object (`FxTCPConnectSock`, `FxUDPConnectSock`, web-socket and HTTP variants).
Socket objects and connections come from pools and are used again.

| Component | State | Operations | Talks to |
|---|---|---|---|
| byte ring `FxLoopBuff` (`loopbuff.cpp`) | memory, three cursors, two wrap flags, free length | `PushBuff`, `PopBuff`, `DiscardBuff`, `CostBuff`, `CostUsedBuff`, `Get*CursorPtr`, `IsEmpty`, `Clear` | one producer and one consumer thread |
| event queue `TEventQueue` (`eventqueue.h`), `Run` (`net.cpp`) | array, two cursors, a lock for pushers | `PushBack`, `PopFront`, `PushNetEvent`, `Run` | all IO threads push, main pops and pushes |
| TCP sending (`mytcpsock.cpp`, `iothread.cpp`) | send buffer, `m_bSending`, the epoll registration | `Send`, `PostSendFree`, `OnSend`, `PostSend`, `OnConnect`, `ChangeEvent` | main thread and IO thread, through epoll |
| TCP connections (`mytcpsock.cpp`, `connection.cpp`, `sockmgr.cpp`, `iothread.cpp`) | `m_nState`, `m_hSock`, `m_poConnection`, `m_nConnStat`, pool, event queue, delayed closes | `OnAccept`, `Connect`, `OnConnect`, `Close`, `Reconnect`, `ProcEvent`, `__ProcRelease` | listener's IO thread, connection's IO thread, main thread |
| reliable UDP (`myudpsock.cpp`, `myudpsock.h`) | send and receive `SlidingWindow`, acks, timers | `Send`, `Update`/`PostSend`, `OnRecv` | the peer, over a network that loses, repeats and reorders |
| UDP handshake and listener (`myudpsock.cpp`) | the client's wait for an answer, the listener's receive queue, endpoints and whom they are connected to | `Connect`, `OnAccept`, and `OnRecv`, `PostSend` of an endpoint that is not yet acknowledged | peer, the kernel's choice of a receiving socket |
| message parser (`mytcpsock.cpp`, `myudpsock.cpp`) | `m_nNeedData`, `m_nPacketLen`, the header kept by `BuildRecvPkgHeader` | `OnRecv`, `__ProcRecv` | byte ring, event queue |
| web-socket and HTTP framing (`mytcpsock.cpp`) | handshake state, frame position | `OnRecv`, `__ProcRecv` of the two variants | byte ring |
| pools (`meta_header/dynamicpoolex.h`, `sockmgr.cpp`) | free list, count, reference counts, the next socket id | `FetchObj`, `_AllocT`, `ReleaseObj`, `Create*` | all threads |
| database, redis and url clients (`Database`, `RedisCon`, `UrlRequest`) | query queues, a thread per connection | add query, run, answer | third-party libraries |
| chat and web game servers | players, teams, allocations | message handlers | the network library |
| C# client library (`Client_c#/FxLib`) | as the C++ sockets | as the C++ sockets | a server |
| vendored and generated code | | | |

What is hard in it: the buffers and the queue are shared by threads and partly
read without their locks; the epoll registration is changed by two threads; socket
objects are known by their address to the event queue, the delayed-close queue
and epoll, and are recycled; the UDP transport numbers packets with one byte;
connections end by timeouts, by errors on either thread and by requests of the
application, often two at once. `PROJECT.json` lists these hazards line by line
with the properties that cover them.

What makes each component correct: the byte ring hands the stream on in order and
never overwrites what has not been taken; the queue hands each event to one
handler, in order; bytes accepted by `Send` reach the kernel and the IO thread does
not spin; a session sees a well-formed conversation and a socket object goes back
to the pool once; the UDP stream arrives in order, exactly once, and completely;
a stream is cut into the messages that were sent, whatever pieces it arrives in; a
client and its endpoint find each other, and `Connect` returns; the pool hands an
object to one user at a time and a socket id to one socket.

## 2. The modules

| Module | Models | Proofs |
|---|---|---|
| `LoopBuff` | `FxLoopBuff` with the calls of its users, as a send or as a receive buffer (`Role`) | `LoopBuffProofs` |
| `RecvParser` | both `OnRecv` with their parsers, and `__ProcRecv`, over `LoopBuff`; implements its `Spec` | `RecvParserProofs` |
| `EventFifo` | abstract: what the event queue promises | |
| `EventQueue` | `TEventQueue`, `PushNetEvent`, `Run`; implements `EventFifo` until a race | `EventQueueProofs` |
| `CloseQueue` | `EventQueue` composed with `Close` of the TCP sockets and their lock | `EventQueueProofs` |
| `TcpSend` | `Send`, `PostSend`, `OnConnect`, `ChangeEvent`, `Close` of one TCP socket | `TcpSendProofs` |
| `SockLifecycle` | accept, connect, close, reconnect, the events and the recycling of socket objects | `SockLifecycleProofs` |
| `SockPool` | `TDynamicPoolEx` and the ids `FxMySockMgr` gives to sockets | `SockPoolProofs` |
| `UdpHandshake` | `Connect` and `OnAccept` of the UDP sockets, up to the first acknowledgement | `UdpHandshakeProofs` |
| `ReliableUdp`, `MCReliableUdp` | two established UDP endpoints and the network | `ReliableUdpProofs` |

How they fit together: `RecvParser` replaces the arbitrary parser of `LoopBuff` by
the code's and is shown to use the ring as `LoopBuff` allows (`RingSpec`).
`CloseQueue` adds the sockets' locks to `EventQueue` and implements it
(`CloseImplements`). `EventQueue` in turn implements `EventFifo`, which is what
`SockLifecycle` and `RecvParser` take the event queue for. `SockPool` justifies
that `SockLifecycle` and `UdpHandshake` take socket objects from a set.
`ReliableUdp` begins where `UdpHandshake` ends.

Variables and actions keep the names of the members and functions they stand for;
`PROJECT.json` maps every definition to its lines. Definitions called "a slip" or
"a variant" are wrong on purpose: they are how each property was tested, and are
not used by the specifications.

**LoopBuff.** A byte is its position in the stream, so `m_pszBuff` says which byte
each cell holds. Each locked method is one step, except that removing bytes takes
two (`BeginRemove`, then `DiscardBuff` or `EndRemove`): the cursor moves before
the free length, and `IsEmpty` and `Clear` take no lock and can look in between.
The memory `GetOutCursorPtr` and `GetInCursorPtr` return is used outside the lock
in steps of its own. `Spec` covers either role and is what is proved about;
`SendSpec` is the send buffer alone, as the receive buffer is run with its parser. `nIn`, `nUse` and `nOut` advance by what a caller believes it
did even if a method refuses, since callers ignore most results: a refusal would
show as a broken invariant.

**RecvParser.** The parser's branches are one action each: the rest of a message,
a part of it, a header with or without its body, a header that goes round the end
of the ring (`BuildRecvPkgHeader`, two steps), a header not all there. `BeginParse`
is `GetUsedCursorPtr`, `FlushUsed` the `CostUsedBuff` after the loop. TCP writes
one window per `OnRecv`; UDP may write several datagrams, each possibly in two
parts, before it parses, and closes when one does not fit. The boundaries of the
messages are chosen in `ParserInit`, and the magic number is abstracted to what it
tells apart: bytes that begin a message and bytes that do not.

**EventQueue.** The statement that wraps a cursor is two stores in the builds of
the repository's Makefile; the constant `TwoStores` says whether the build keeps
them apart. The lock of `PushBack` is explicit, `PopFront` takes none, and the
slot it returns is read by `Run` in a later step. The main thread is a producer
too, because handlers push.

`Fifo` is the instance with the refinement mapping to `EventFifo`: an event counts as pushed when
the cursor passes it, and as delivered when its handler has read the slot.

**CloseQueue.** `Close` takes `m_oLock`, gives up the descriptor and pushes
TERMINATE before it unlocks; the threads that call it are the IO threads and a
handler on the main thread. `LockStuck` is the state in which main waits for the
lock of a `Close` that waits for main to make room; `MainStuck` (of `EventQueue`)
the one in which main itself pushes into a full queue.

**TcpSend.** The buffer is a number of bytes (its ring is `LoopBuff`). Each access
to shared state is a step: `PushBuff` and the registration of `Send`; finding the
buffer empty, `send()`, `DiscardBuff` and the registration of `PostSend`. A socket
begins accepted or connecting (`Origins`); a connecting one is told by EPOLLOUT, and
its `OnConnect` is two steps, the push of ESTABLISH, after which the session may
`Send`, and the registration of EPOLLIN only (or the close, when SO_ERROR is set).
`Close` comes from the main thread (`Reconnect`), from the delayed closes and from
errors. `crossed` records that `Send` registered EPOLLOUT after the IO thread had
decided to drop it and before it did, at either of the two places (`AboutToDrop`).
When `Send` has to report an error it pushes ERROR (`PushError`), which waits while
the event queue is full; of the queue only that is kept (`queueFull`: the IO threads
fill it, `Run` empties it). `m_bSendLinger` is only ever set to false, so that `Send`
gives a packet up at once when the buffer has no room (`NoRoom`).

**SockLifecycle.** Three threads: main (`Connect`, `Close`, `Reconnect`,
`ProcEvent`), the listener's IO thread (`OnAccept`) and the connections' IO thread
(`OnRecv`, `OnConnect`, errors, delayed closes). `OnAccept`, `Connect` and
`OnConnect` are split where another thread can step in: after `epoll_ctl`, between
the two events, between the event and `SO_ERROR`. When `epoll_ctl` fails in
`OnAccept` the descriptor is closed twice: the second `close` may hit any one
descriptor that was opened since (`OpenedSince`). A descriptor is one opening here,
which is what the number stands for until it is closed. A session's close is asked
for whatever the state of its socket (`SessionClose`), as in `FxConnection::Close`.
The queue is a sequence (its
ring is `EventQueue`, which behaves as one until a `PopFront` races). `told` records the calls each session
receives, `early` the connections for which the IO thread pushed an event before
they were announced, `reused` the socket objects that were opened again or given
back with their TERMINATE pending.

**SockPool.** A locked section is a step. `FetchObj` is two looks at the list with
`_AllocT` between them, which reads the count before it locks. `front()` of an
empty list is undefined behaviour: it gives NULL or an object in use, both of which
`FetchObj` refuses, or garbage, after which nothing is modelled. `m_dwNextId++` is
a load and a store. `stolen` and `overlapped` record that another thread took an
object between the two looks, and that two increments overlapped.

**UdpHandshake.** A client is one call of `Connect`, which binds a port of its own.
`OnAccept` is split where the endpoint's IO thread can step in: after `AddEvent`
and before `connect()`. The kernel's choice of the receiving socket is external: an
endpoint connected to the sender first, otherwise the listener or any endpoint that
is bound and not connected. The network loses, reorders and repeats: it may keep a
copy of any SYN it delivers. Of the send window only what decides whether data may
leave before the SYNACK is acknowledged is kept (`window`). `excused` and
`loosened` record the mishaps the properties name: a SYN that was sent again or
delivered again is one of them.

**ReliableUdp.** `Send`, `PostSend` and `OnRecv` are one step each, as an endpoint's
`PostSend` and `OnRecv` run on the same IO thread. Sequence numbers are taken
modulo `SeqMod`, differences in an expression are ints as in C++. One endpoint begins with an ack to
send (`m_bSendAck`), the one that accepted. Clocks are
abstracted: any set of timers may have run out; the congestion window is any value
it can take, halves included, since it is a double. The network is a set of
packets per direction: it loses, repeats and reorders, and no packet lives so long
that its number is used again (`Lifetime`, which the assumption on `SeqMod`
bounds: with 256 numbers and a window of 32, it may fall up to 192 numbers behind).

## 3. The runs

| Run | Asks | Instance |
|---|---|---|
| `loopbuff_send` | Do the bytes leave in order, all of them, with `IsEmpty` and `Clear` outside the lock? | ring of 4, stream of 9 |
| `recv_parser` | Is every message announced once, whole and with its own length, and run? Is the ring used as `LoopBuff` allows? | ring of 5, every stream of 3 messages of 2 to 4 bytes, TCP and UDP |
| `queue` | In the build as it is, is one race the only way to lose the order, and until then the queue a FIFO? Do all pushes, closes and events get through but for two waits of main? | 3 slots, 2 IO threads and main, 6 events, 1 socket |
| `queue_wrap` | *violated*: the order in the build as it is | 3 slots, 6 events |
| `tcp_send` | Is every byte sent, without spinning, but for two crossings? Does `Send` return, but for one wait? | buffer 3, kernel 2, packets of up to 4, 6 bytes; accepted and connecting sockets |
| `tcp_send_wake` | *violated*: is every byte sent? | the same, smaller; an accepted socket |
| `udp_handshake` | Does a connected client have one endpoint, and is it refused, only but for named mishaps? Does `Connect` return, and does a client that met a mishap get one endpoint, or end? | 2 clients, 2 endpoints, 1 SYN in the listener's queue |
| `udp_windows` | In order, exactly once, buffers accounted for, numbers wrapping? | windows of 2, 6 numbers, 4 pieces |
| `udp_delivery` | Is everything delivered, and does a half-open connection end? | 2 pieces; `send()`, `recv()` and the receive buffer may fail |
| `tcp_life` | Do sessions see a well-formed conversation on recycled sockets, with four kinds of failure? Is a connection that is being closed released in the end? | 1 socket object, 2 connections, the second reconnects, 2 descriptors |
| `tcp_reconnect` | *violated*: is no socket object released twice? | 1 connection that reconnects |
| `sock_pool` | Does the pool lose or double an object, or pass its maximum, with growth outside the lock? When can `front()` fail, when can ids repeat? | 3 threads, 1 object growing by 2 to 3, 6 sockets |

Why these bounds. A ring of 4 with a stream of 9 wraps twice, with every packet
length and every split of a packet at the end of the memory; the proofs cover other
sizes. The parser's ring of 5 with messages of 2 to 4 bytes and headers of 2 cuts
headers and bodies at every place, by the ring's end and by the end of a read, and
UDP fills it. A queue of 3 with 6 events fills, empties and wraps twice, with two
pushers contending for the lock and main as the third, and one socket lets two
threads meet in `Close`. Three threads on a pool of at most three objects are the
fewest with which one can steal from another that has just grown the pool, and a
stale id store can reach back past ids of two others. Two endpoints in the
handshake let one client have both, so that the pool is used up, and let a packet
of one client reach the other's; the histories are kept for one of the two, as
clients are alike. In
`TcpSend` the buffer fills, the kernel fills, the event queue fills, and a packet can
be longer than the buffer. Windows of 2
over 6 numbers are the smallest in which packets are overtaken, slots are reused
and the numbers wrap, in both directions (the side that has no data sends
heartbeats); a second late ack in a row ends a connection instead of the third.
With one socket object every second connection recycles it; two
connections are enough for an event, an epoll answer or a delayed close of the
first to meet the second. `MaxQueue` bounds only how far the IO thread runs ahead
of the main thread; handlers that push several events may exceed it.

Deadlock is not checked where the bounded streams, events or connections are used
up, or both endpoints have closed: those systems may stop.

### Fairness

* `RecvParser`: weak fairness of the IO thread and of the main thread: EPOLLIN is
  level triggered, and `Run` runs every event.
* `CloseQueue`: weak fairness of each thread (threads loop and are scheduled);
  strong fairness of `PushCheck` and `EnterClose`, as a thread that sleeps and
  retries, or waits for a lock, finds it free again and again.
* `TcpSend`: weak fairness of each thread; strong fairness of `SendSome`, as a
  kernel that has room does not answer EAGAIN for ever; the peer reads; the kernel
  ends a `connect()` one way or the other (EPOLLOUT of a connecting socket). None
  for `Run`: a property that needs the queue to be emptied says so.
* `UdpHandshake`: weak fairness of the threads, of `recvfrom`'s timeout and of the
  ack timeout of an endpoint nobody acknowledges and of a client no endpoint is
  connected to (`Unserved`; `HalfOpenEnds` of `ReliableUdp` shows it of an endpoint
  whose peer is gone); strong fairness of the arrival of a SYN and of a SYNACK, which
  are sent again and again; and the network does not keep a copy of a SYN for ever
  (`LoseSyn`). None for what sessions do.
* `ReliableUdp`: `Update` calls `PostSend` every 10 ms and timers run out, so the
  oldest packet is sent again and again, and the network delivers some copy
  (strong fairness of `SendHead` and of its reception). The ack timeout is taken
  to run out only once the peer has closed: with a peer that is up it would do no
  more than close the endpoint, which a failing `send()` may do at any time.
* `SockLifecycle`: the threads run; the IO thread drains its delayed closes on
  every turn of its loop (strong fairness, as a ready descriptor can come first).

### What the runs show

The library does what it should in every instance, with three exceptions, listed
under `findings` in `PROJECT.json`:

* `queue_wrap`: in a build with two stores, a `PopFront` between them takes the
  empty queue for a full one and from then on runs one event ahead of the pushes.
  The comment above `PopFront` argues that no lock is needed.
* `tcp_send_wake`: a `Send` whose registration of EPOLLOUT falls between the IO
  thread's look at the empty buffer and its registration of EPOLLIN is forgotten;
  its bytes stay in the buffer until the next `Send`. The same can happen to a `Send`
  that the session makes as soon as it is told of a connection: `OnConnect` registers
  EPOLLIN only after it has pushed ESTABLISH. `Registered` and `SentUnlessCrossed`
  show that these two places are the only ones.
* `tcp_reconnect`: when `connect()` fails on a connection with `m_bReconnect`, the
  socket object is opened again with its TERMINATE pending, and is released twice.

The passing runs say how far each of these reaches: `OrderUnlessRaced`,
`SentUnlessCrossed`, and the properties of `SockLifecycle` that except `reused`
objects hold in every behaviour in which the one event has not happened. Other
results are worth knowing, each stated as an exception in a property that holds:

* An event that the IO thread pushes before a connection is announced is ignored
  (`early` in `AnnouncedAtRest` and `MessagesKept`).
* A UDP receive call that finds no packet loses a buffer (`leaks`), the only way an
  endpoint runs out of them (`BuffersConserved`).
* `Send` can be left waiting on the main thread in one way (`SendReturns`): when it
  pushes ERROR into a full queue, for a packet too long or for a socket that was
  closed between `PushBuff` and `PostSendFree`.
* The main thread can wait for ever in two ways, and in no other (`EventsHandled`,
  `ThreadsGetThrough`): pushing into the full queue that only it empties, and for
  the lock of a socket whose `Close` waits for a place in that queue.
* The UDP parser stops at the end of the ring: messages at its head wait for the
  next datagram (`LeftAtHead` in `CaughtUp` and `EveryMessageRun`). TCP reads one
  window at a time and cannot leave any.
* A UDP client whose SYN is sent twice, or delivered twice by the network, may have no
  endpoint or two; one whose SYN was sent once and delivered once has exactly one,
  unless `Update` or a stranger's SYN came between `AddEvent` and `connect()`, or a
  timeout ran out (`Paired`). Whatever the mishap, an established client comes to
  have exactly one endpoint, or ends (`HandshakeEnds`). `Connect` refuses the answer of a
  good server only if data overtook the SYNACK, which takes a retry timeout or a
  stranger's packet (`RefusedOnlyIf`).
* `FetchObj` calls `front()` on an empty list only when another thread took an
  object between its two looks (`EmptyOnlyIfStolen`), and two sockets have one id
  only after two increments overlapped (`IdsUnique`).

## 4. The proofs

All of them are by an inductive invariant (mostly called `IInv`), proved initially true, preserved
by every action (one lemma per action or group of conjuncts), and strong enough;
they assume only the `ASSUME` of the module proved about.

* **LoopBuffProofs** (any ring size, stream length, and either role): `TypeOK`,
  `Geometry`, `Contents`, `OutWindowStable`, `ParserView`, and the action property
  `ReadsInOrder`. The cursors alone are not inductive: full and empty look alike.
  `IInv` ties each cursor to the stream (`nIn`, `nUse`, `nOut` modulo the size),
  the flags to whose lap is ahead, the free length to the difference, each cell to
  the stream position it must hold, and the windows the two threads hold outside
  the lock to the part of the ring the other one cannot touch.
* **EventQueueProofs** (any size of at least 2, any set of threads, both builds):
  `TypeOK`, `OrderUnlessRaced`, and `PopsInOrder` with `NothingOverwritten` in a
  build that merges the stores. `IInv` is `TypeOK`, the lock's owner, and, as long as
  nobody raced, the ring's contents, where the producer and the consumer stand, and
  which events have been seen. The unlocked reader needs the weak form: between
  the two stores of a wrap the in cursor is out of range, and all that `PopFront`
  may conclude is a lower bound on the number of events. From the same invariant,
  `FifoCorrect`: every step of the queue maps to a step of `EventFifo` or to a
  stutter as long as nobody raced; and `MergedFifoCorrect`: in a build that merges
  the stores the queue implements `EventFifo`.
  The same module shows of `CloseQueue` (any sockets besides) that it implements the
  queue's specification, `CloseImplements`, so that `CloseOrder` and `CloseFifo` follow
  from the theorems above.
* **TcpSendProofs** (any buffer, kernel buffer and packet size, accepted and
  connecting sockets): `TypeOK`, `NothingLost`, `Registered`. `IInv` adds that `nRet`
  never exceeds what is in the buffer; `WakeInv`: wherever the two threads stand,
  bytes in the buffer are covered by a registration already made, one about to be
  made, or a recorded crossing; and `ConnectInv`, that nothing is in the buffer before
  `OnConnect` has announced the connection. That `OnConnect` drops EPOLLOUT too is why
  the theorem names two crossings.
* **SockPoolProofs** (any threads, any initial size, growth and maximum):
  `PoolConserved`, `EmptyOnlyIfStolen`, `IdsUnique`. `IInv` adds which threads hold
  an object (`Holding`), that a thread let through by `_AllocT` finds objects or
  room for them or was robbed (`Growth`), and that, while no increments overlap, the
  counter is what the one thread that increments it has read, and past every id in
  use (`Ids`).

* **RecvParserProofs** (any ring size, stream and cut into messages, both
  protocols): `RingSpec`, that the parser's specification implements `LoopBuff`'s,
  action by action, and `MessagesWhole` and `CaughtUp`. The invariant `PInv` joins
  `LoopBuff`'s own, carried over by the refinement, with where the parser stands in
  the stream (`PositionInv`), what it has seen of the piece inside the loop (`LoopInv`)
  and of a header that goes round the end (`TailInv`), what is left when it returns
  (`RestInv`, `TcpInv`), and that the events pushed so far are the messages parsed so far (`EventInv`). That a
  later message begins later in the stream (`StreamGrows`) is an induction over data,
  done by the least-number principle (`LeastNumber`), since the induction theorems of
  the library cannot be instantiated by the provers.
* **UdpHandshakeProofs** (any sets of clients and endpoints): `Paired` and
  `RefusedOnlyIf`. The invariant adds that the endpoints out of the pool are the
  ones with an owner (`PoolClean`), that the server has heard nothing of a client that
  has not called `Connect` (`Unheard`), that the one SYN of a client without a mishap,
  sent once and delivered once, is in one place, the network, the listener's queue or
  an endpoint (`OneToken`), and that until a window is loosened no data is on its way beside the SYNACK (`Tight`).
* **SockLifecycleProofs** (any numbers of socket objects, connections, descriptors and
  messages, any failures): `DeathIsOwn`, `OneDeath`, `DescriptorsOwned`,
  `SessionProtocol`, `AnnouncedAtRest` and `MessagesKept`, with the module's `TypeOK`.
  The properties look at one object or one session; the invariant has to say what may
  be pending in the queue for it. `Pairing`: an object and its connection point at
  each other, always. `ObjectInv`: without a descriptor an object has exactly one end
  pending, its own connection's, with one it has none. `SessionInv`: the calls a
  session has received are a conversation that stands where `m_nConnStat` says.
  `TrafficInv`: a connection's ASSOCIATE and ESTABLISH are behind it, pending in that
  order, or in the hands of the thread that makes it, unless the IO thread was early;
  a pending message is its object's present connection's, after the announcement and
  before the end; and messages heard and pending add up to those received (by
  cardinalities of index sets, as the queue shifts under them). All but `Pairing` hold
  until an object is reused with an end pending, the finding of `tcp_reconnect`.

* **ReliableUdpProofs** (any window size, any number of sequence numbers that the
  window size divides, any stream, network, and failures): `TypeOK`,
  `BuffersConserved`, `WindowsAgree` and `InOrderOnce`. The numbers wrap, so nothing
  can be said by comparing them; `IInv` looks at one direction at a time (`Direction`)
  and counts from the sender's `m_btBegin`: `c` numbers are outstanding, the receiver
  has got the first `k` of them, `k <= c <= W`. `Outstanding`: the slots of the send
  window hold consecutive pieces of the stream, up to the newest one, or a single
  heartbeat. `Held`: what the receiver keeps out of order is what the sender still
  keeps in the same slot. `InFlight`: a packet in the network is an outstanding one,
  with the payload its slot still holds, or lies at most `Lifetime` numbers behind,
  where no receive window reaches. `Arrived`: what has been delivered is the first
  pieces, as many as the numbers got have carried. `Buffers` adds that the slot at the
  receiver's `m_btBegin` is empty, which is why a window never holds all the buffers
  and `OnRecv` starves only by a leak; `Endpoint`, that an ack in the network is not so
  old that it could be taken for a new one. Each kind of step is proved about these
  numbers alone first (`GrowStep`, `AckStep`, `StoreStep`, `DeliverStep`), without the
  state. Two assumptions on the constants carry the argument, both in `UdpAssumption`:
  `SeqMod % W = 0` (256 and 32 in the code), without which two outstanding numbers
  could share a slot, and `Lifetime + 2 * W <= SeqMod`, that the network forgets a
  packet before its number comes round, which the code takes for granted as it has
  no other defence.

Every invariant and action property that a run checks is stated by a theorem.
Model-checked only are the liveness properties (the prover does not handle fairness
and ENABLED): `Delivery`, `HalfOpenEnds`, `HandshakeEnds`, `ClosingEnds`,
`EveryMessageRun`, `EventsHandled`, `ThreadsGetThrough`, `SentUnlessCrossed`, `NoSpin`
and `SendReturns`.

## 5. Not modelled

* The IOCP (Windows) branches: another design under the same names.
* The rules of the congestion window: `ReliableUdp` lets it take any value. Its
  limit compares an int that is negative once the window has wrapped, so the rules
  decide how fast a sender is and not what arrives.
* Web-socket and HTTP connections: their sockets share the base class of `TcpSend`
  and `SockLifecycle`; handshake and framing are parsing of text and bit fields.
* The life of the listening sockets, `FxNetModule::Init` and `Uninit`, and a
  connection that its session opens again after `OnClose`.
* Memory exhaustion (failing pools, threads or sessions) in the TCP `OnAccept`;
  failing system calls in the UDP `OnAccept`, and an empty datagram, for which its
  checks are skipped (`recvfrom` returns 0) and which no program of the repository
  sends.
* In `TcpSend`: an answer of `epoll_wait` that is out of date when its handler runs
  (it is taken with the handler), and the waits of `Close` and of the IO threads for
  room in the event queue, which are `CloseQueue`'s.
* The data race in `EndOnConnect` between its checks and its use of
  `m_poConnection`, and the assignment of UDP sockets to IO threads
  (`m_setConnectSockets`).
* Clients of databases, redis and curl: a thread around a third-party library with
  one queue under one lock. The chat and web game servers: applications of the
  library. The C# library: a port of the client side. Vendored and generated code,
  which is most of the repository's lines.

## 6. Plan

Done: the modules of section 2 with their runs; the proofs of section 4, which cover
every invariant and action property of the passing runs. Worth proving next:

1. An abstract reliable channel, a sender's stream and a receiver's prefix of it, that
   `ReliableUdp` implements; `ReliableUdpProofs` has the invariant for it.
2. That the pool `SockPool` and the queue `EventFifo` are what `SockLifecycle` and
   `UdpHandshake` take them for, by a refinement of an abstract set of objects.
3. Lemmas for the liveness properties: that a pending event, byte or packet keeps the
   action that handles it possible until it is taken, the safety part of each
   leads-to argument.

Models that could follow: the rules of the congestion window; the web-socket
handshake; the query queues of the database and redis clients.
