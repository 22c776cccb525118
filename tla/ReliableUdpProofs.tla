------------------------- MODULE ReliableUdpProofs -------------------------
(***************************************************************************)
(* Proofs about ReliableUdp, for every window size, every number of        *)
(* sequence numbers it divides and every network: the buffers of both      *)
(* windows are accounted for, the two ends of a direction agree, and the   *)
(* stream arrives in order, each piece once.                               *)
(*                                                                         *)
(* The invariant looks at one direction at a time, and counts from the     *)
(* sender's m_btBegin: c numbers are outstanding and the receiver has got  *)
(* the first k of them.  A packet in flight either is one of the           *)
(* outstanding ones, with the payload its slot still holds, or lies at     *)
(* most Lifetime numbers behind, where no window of the receiver reaches.  *)
(* What a step does to a direction is first proved about those numbers     *)
(* alone, without the state: the send window grows, an ack moves its       *)
(* begin, a packet moves the receiver's.                                   *)
(***************************************************************************)
EXTENDS ReliableUdp, FiniteSetTheorems, WellFoundedInduction, SequenceTheorems,
        TLAPS

-----------------------------------------------------------------------------
(* Arithmetic on sequence numbers.                                         *)

\* The constants, as the arithmetic needs them.
LEMMA Sizes ==
  /\ W \in Nat /\ W >= 1 /\ SeqMod \in Nat /\ Lifetime \in Nat /\ Lifetime >= 1
  /\ Lifetime + 2 * W <= SeqMod /\ 2 * W + 1 <= SeqMod
  BY UdpAssumption

\* A number that has left the bytes by less than a lap comes back by one.
LEMMA ByteIs ==
  ASSUME NEW x \in Int
  PROVE  /\ Byte(x) \in Seq8
         /\ x \in 0 .. SeqMod - 1 => Byte(x) = x
         /\ x \in SeqMod .. 2 * SeqMod - 1 => Byte(x) = x - SeqMod
         /\ x \in -SeqMod .. -1 => Byte(x) = x + SeqMod
<1>1. Byte(x) \in Seq8
  BY Sizes DEF Byte, Seq8
<1>2. x \in 0 .. SeqMod - 1 => Byte(x) = x
  BY Sizes DEF Byte
<1>3. x \in SeqMod .. 2 * SeqMod - 1 => Byte(x) = x - SeqMod
  BY Sizes DEF Byte
<1>4. x \in -SeqMod .. -1 => Byte(x) = x + SeqMod
  BY Sizes DEF Byte
<1> QED
  BY <1>1, <1>2, <1>3, <1>4

\* Count and Byte(b + .) are each other's inverse.
LEMMA CountIs ==
  ASSUME NEW b \in Seq8
  PROVE  /\ \A e \in Seq8 : Count(b, e) \in Seq8 /\ Byte(b + Count(b, e)) = e
         /\ \A x \in Seq8 : Byte(b + x) \in Seq8 /\ Count(b, Byte(b + x)) = x
<1>1. ASSUME NEW e \in Seq8
      PROVE  Count(b, e) \in Seq8 /\ Byte(b + Count(b, e)) = e
  <2>1. Count(b, e) = IF e < b THEN e - b + SeqMod ELSE e - b
    BY ByteIs, Sizes DEF Count, Seq8
  <2> QED
    BY <2>1, ByteIs, Sizes DEF Seq8
<1>2. ASSUME NEW x \in Seq8
      PROVE  Byte(b + x) \in Seq8 /\ Count(b, Byte(b + x)) = x
  <2>1. Byte(b + x) = IF b + x < SeqMod THEN b + x ELSE b + x - SeqMod
    BY ByteIs, Sizes DEF Seq8
  <2>2. Byte(b + x) \in Seq8
    BY ByteIs DEF Seq8
  <2> QED
    BY <2>1, <2>2, ByteIs, Sizes DEF Count, Seq8
<1> QED
  BY <1>1, <1>2

\* The distance between two numbers.
LEMMA ByteDiff ==
  ASSUME NEW s \in Seq8, NEW b \in Seq8
  PROVE  Byte(s - b) = IF s < b THEN s - b + SeqMod ELSE s - b
  BY ByteIs, Sizes DEF Seq8

\* Steps forward add up.
LEMMA ByteAdd ==
  ASSUME NEW b \in Seq8, NEW x \in 0 .. W, NEW y \in 0 .. 2 * W, x + y <= 2 * W
  PROVE  Byte(Byte(b + x) + y) = Byte(b + x + y)
<1>1. Byte(b + x) = IF b + x < SeqMod THEN b + x ELSE b + x - SeqMod
  BY ByteIs, Sizes DEF Seq8
<1>2. Byte(b + x + y) =
        IF b + x + y < SeqMod THEN b + x + y ELSE b + x + y - SeqMod
  BY ByteIs, Sizes DEF Seq8
<1>3. Byte(b + x) + y \in 0 .. 2 * SeqMod - 1
  BY <1>1, Sizes DEF Seq8
<1> QED
  BY <1>1, <1>2, <1>3, ByteIs, Sizes DEF Seq8

-----------------------------------------------------------------------------
(* Slots: the numbers of a window have each a slot of their own, because   *)
(* the window size divides the number of sequence numbers.                 *)

\* Division with remainder, as much of it as is needed.
LEMMA Divide ==
  ASSUME NEW x \in Int
  PROVE  /\ x % W \in 0 .. W - 1
         /\ \E q \in Int : x = W * q + (x % W)
<1>1. x = W * (x \div W) + (x % W) /\ x \div W \in Int
  BY Sizes
<1>2. x % W \in 0 .. W - 1
  BY Sizes
<1> QED
  BY <1>1, <1>2

LEMMA Remainder ==
  ASSUME NEW q \in Int, NEW r \in 0 .. W - 1
  PROVE  (W * q + r) % W = r
  BY Sizes

LEMMA Distributes ==
  ASSUME NEW q \in Int, NEW p \in Int
  PROVE  W * (q + p) = W * q + W * p /\ W * (-q) = -(W * q)
  BY Sizes

\* A whole lap leaves a number in its slot.
LEMMA LapKeepsSlot ==
  ASSUME NEW x \in Int
  PROVE  (x + SeqMod) % W = x % W
<1>1. PICK q \in Int : x = W * q + (x % W)
  BY Divide
<1> SeqMod \in Int
  BY Sizes
<1>2. PICK p \in Int : SeqMod = W * p + (SeqMod % W)
  BY Divide
<1>3. SeqMod = W * p
  BY <1>2, UdpAssumption, Sizes
<1> DEFINE r == x % W
<1>4. r \in 0 .. W - 1
  BY Divide
<1>5. x = W * q + r
  BY <1>1
<1> HIDE DEF r
<1>6. W * q \in Int /\ W * p \in Int
  BY Sizes
<1> DEFINE wq == W * q  wp == W * p
<1>7. W * (q + p) = wq + wp
  BY Distributes
<1>9. x + SeqMod = W * (q + p) + r
  <2> HIDE DEF wq, wp
  <2>1. wq \in Int /\ wp \in Int /\ r \in Int
    BY <1>4, <1>6, Sizes DEF wq, wp
  <2>2. x = wq + r /\ SeqMod = wp
    BY <1>3, <1>5 DEF wq, wp
  <2> QED
    BY <1>7, <2>1, <2>2
<1>8. (x + SeqMod) % W = r
  BY <1>4, <1>9, Remainder
<1> QED
  BY <1>8 DEF r

\* The slot of the j-th number from b on.
At(b, j) == Slot(Byte(b + j))

LEMMA AtIs ==
  ASSUME NEW b \in Seq8, NEW j \in 0 .. 2 * W
  PROVE  At(b, j) = (b + j) % W /\ At(b, j) \in Slots
<1>1. CASE b + j < SeqMod
  <2>1. b + j \in Int /\ Byte(b + j) = b + j
    BY <1>1, ByteIs, Sizes DEF Seq8
  <2> QED
    BY <2>1, Divide DEF At, Slot, Slots
<1>2. CASE b + j >= SeqMod
  <2>1. Byte(b + j) = b + j - SeqMod
    BY <1>2, ByteIs, Sizes DEF Seq8
  <2>2. b + j - SeqMod \in Int /\ b + j - SeqMod + SeqMod = b + j
    BY Sizes DEF Seq8
  <2>3. (b + j - SeqMod) % W = (b + j) % W
    BY <2>2, LapKeepsSlot
  <2> QED
    BY <2>1, <2>2, <2>3, Divide DEF At, Slot, Slots
<1> QED
  BY <1>1, <1>2, Sizes DEF Seq8

\* Two numbers of a window do not share a slot.
LEMMA AtDiffers ==
  ASSUME NEW b \in Seq8, NEW i \in 0 .. 2 * W, NEW j \in 0 .. 2 * W,
         i - j < W, j - i < W, At(b, i) = At(b, j)
  PROVE  i = j
<1> b + i \in Int /\ b + j \in Int
  BY Sizes DEF Seq8
<1>1. PICK q \in Int : b + i = W * q + ((b + i) % W)
  BY Divide
<1>2. PICK p \in Int : b + j = W * p + ((b + j) % W)
  BY Divide
<1>3. (b + i) % W = (b + j) % W
  BY AtIs
<1> DEFINE r == (b + i) % W
<1>4. b + i = W * q + r /\ b + j = W * p + r /\ r \in 0 .. W - 1
  BY <1>1, <1>2, <1>3, Divide, Sizes DEF Seq8
<1> HIDE DEF r
<1>5. W * (q - p) = i - j
  BY <1>4, Sizes DEF Seq8
<1>6. q - p = 0
  BY <1>5, Sizes
<1> QED
  BY <1>5, <1>6, Sizes

\* Every slot belongs to a number of the window that begins k further on.
LEMMA AtOnto ==
  ASSUME NEW b \in Seq8, NEW k \in 0 .. W, NEW i \in Slots
  PROVE  \E j \in 0 .. W - 1 : At(b, k + j) = i
<1> DEFINE d == i - b - k
<1>1. d \in Int /\ i \in 0 .. W - 1 /\ d + b + k = i
  BY Sizes DEF Slots, Seq8
<1> HIDE DEF d
<1>2. PICK q \in Int : d = W * q + (d % W)
  BY <1>1, Divide
<1> DEFINE r == d % W
<1>3. r \in 0 .. W - 1 /\ d = W * q + r
  BY <1>1, <1>2, Divide
<1> HIDE DEF r
<1>4. W * q \in Int /\ W * (-q) = -(W * q)
  BY Sizes
<1>5. b + (k + r) = W * (-q) + i
  BY <1>1, <1>3, <1>4, Sizes DEF Seq8
<1>6. (b + (k + r)) % W = i
  BY <1>1, <1>5, Remainder
<1> QED
  BY <1>3, <1>6, AtIs, Sizes

\* Counting from further on.
LEMMA AtShift ==
  ASSUME NEW b \in Seq8, NEW x \in 0 .. W, NEW j \in 0 .. 2 * W, x + j <= 2 * W
  PROVE  At(Byte(b + x), j) = At(b, x + j)
<1>1. b + x + j = b + (x + j)
  BY Sizes DEF Seq8
<1> QED
  BY <1>1, ByteAdd DEF At

-----------------------------------------------------------------------------
(* The operators of the model.                                             *)

\* Every non-empty set of natural numbers has a least element.
LEMMA LeastNumber ==
  ASSUME NEW T, T \subseteq Nat, T # {}
  PROVE  \E x \in T : \A y \in T : x <= y
<1> DEFINE Less == {p \in Nat \X Nat : p[1] < p[2]}
<1>1. OpToRel(<, Nat) = Less
  BY Zenon DEF OpToRel
<1>2. IsWellFoundedOn(Less, Nat)
  BY <1>1, NatLessThanWellFounded, Zenon
<1>3. PICK x \in T : \A y \in T : ~(<<y, x>> \in Less)
  BY <1>2, WFMin
<1>4. ASSUME NEW y \in T PROVE x <= y
  <2>1. ~(<<y, x>> \in Less) /\ x \in Nat /\ y \in Nat
    BY <1>3
  <2>2. <<y, x>> \in Nat \X Nat /\ <<y, x>>[1] = y /\ <<y, x>>[2] = x
    BY <2>1
  <2>3. y < x => <<y, x>> \in Less
    BY <2>2, Zenon
  <2>4. QED
    BY <2>1, <2>3
<1>5. QED
  BY <1>4

\* There are two endpoints, each the other's peer.
LEMMA Peers ==
  ASSUME NEW n \in Node
  PROVE  /\ Peer(n) \in Node /\ Peer(n) # n /\ Peer(Peer(n)) = n
         /\ \A m \in Node : m = n \/ m = Peer(n)
<1>1. IsFiniteSet(Node \ {n}) /\ Cardinality(Node \ {n}) = 1
  BY FS_RemoveElement, UdpAssumption
<1>2. PICK x : Node \ {n} = {x}
  BY <1>1, FS_Singleton
<1>3. x \in Node /\ x # n /\ \A m \in Node : m = n \/ m = x
  BY <1>2
<1>4. Peer(n) = x
  BY <1>3 DEF Peer
<1>5. Peer(x) = n
  BY <1>3 DEF Peer
<1> QED
  BY <1>3, <1>4, <1>5

\* MostData bounds what either endpoint sends.
LEMMA MostDataIs ==
  MostData \in Nat /\ \A n \in Node : MaxData[n] \in Nat /\ MaxData[n] <= MostData
<1>1. PICK n \in Node : TRUE
  BY FS_EmptySet, UdpAssumption
<1> DEFINE m == Peer(n)  S == {MaxData[q] : q \in Node}
<1>2. m \in Node /\ \A q \in Node : q = n \/ q = m
  BY Peers
<1>3. \A q \in Node : MaxData[q] \in Nat
  BY UdpAssumption
<1>4. \E k \in S : \A q \in Node : MaxData[q] <= k
  <2>1. CASE MaxData[n] <= MaxData[m]
    BY <1>2, <1>3, <2>1
  <2>2. CASE MaxData[m] <= MaxData[n]
    BY <1>2, <1>3, <2>2
  <2> QED
    BY <1>2, <1>3, <2>1, <2>2
<1>5. MostData \in S /\ \A q \in Node : MaxData[q] <= MostData
  BY <1>4 DEF MostData
<1> QED
  BY <1>3, <1>5

\* The fill loop moves no more than there are pieces and buffers.
LEMMA FillIs ==
  ASSUME NEW n \in Node, NEW c, sFree[n] \in 0 .. W, taken[n] \in Nat,
         pushed[n] \in Nat, taken[n] <= pushed[n]
  PROVE  /\ FillCount(n, c) \in Nat /\ FillCount(n, c) <= sFree[n]
         /\ taken[n] + FillCount(n, c) <= pushed[n]
<1> DEFINE most == {j \in 0 .. W : j <= sFree[n] /\ j <= pushed[n] - taken[n]}
           stop == {j \in most : \/ j + 1 \notin most
                                 \/ 2 * (Byte(sEnd[n] + j) - sBegin[n]) > c}
           top == IF sFree[n] <= pushed[n] - taken[n]
                    THEN sFree[n] ELSE pushed[n] - taken[n]
<1>1. top \in most /\ top + 1 \notin most
  BY Sizes
<1>2. top \in stop
  BY <1>1
<1>3. \A j \in stop : j \in Nat /\ j <= sFree[n] /\ j <= pushed[n] - taken[n]
  BY Sizes
<1>4. FillCount(n, c) = CHOOSE j \in stop : \A i \in stop : j <= i
  BY DEF FillCount
<1> HIDE DEF stop, most, top
<1>5. \E j \in stop : \A i \in stop : j <= i
  BY <1>2, <1>3, LeastNumber
<1>6. FillCount(n, c) \in stop
  BY <1>4, <1>5
<1> QED
  BY <1>3, <1>6, Sizes

\* The run ends at the first empty slot.
LEMMA RunIs ==
  ASSUME NEW n \in Node, NEW buf
  PROVE  /\ RunLength(n, buf) \in 0 .. W
         /\ \A j \in 0 .. RunLength(n, buf) - 1 : buf[RecvSlot(n, j)] # NoBuffer
         /\ RunLength(n, buf) < W =>
              buf[RecvSlot(n, RunLength(n, buf))] = NoBuffer
<1> DEFINE ends == {k \in 0 .. W : k < W => buf[RecvSlot(n, k)] = NoBuffer}
<1>1. ends \subseteq Nat /\ W \in ends
  BY Sizes
<1>2. PICK k \in ends : \A j \in ends : k <= j
  BY <1>1, LeastNumber
<1>3. k \in 0 .. W
  BY <1>2
<1>4. ASSUME NEW j \in 0 .. k - 1 PROVE buf[RecvSlot(n, j)] # NoBuffer
  <2>1. j \notin ends /\ j \in 0 .. W
    BY <1>2, <1>3, <1>4, Sizes
  <2> QED
    BY <2>1
<1>5. k < W => buf[RecvSlot(n, k)] = NoBuffer
  BY <1>2
<1> QED
  BY <1>3, <1>4, <1>5 DEF RunLength

\* When all payloads from a on are pieces and none before, they are the pieces.
LEMMA PiecesFrom ==
  ASSUME NEW d \in Nat, NEW a \in 0 .. d, NEW f, DOMAIN f = 0 .. d - 1,
         {j \in DOMAIN f : f[j] # Heartbeat} = a .. d - 1
  PROVE  Pieces(f) = [i \in 1 .. d - a |-> f[a + i - 1]]
<1> DEFINE data == {j \in DOMAIN f : f[j] # Heartbeat}
           nth(i) == CHOOSE j \in data : Cardinality({h \in data : h < j}) = i - 1
<1>1. data = a .. d - 1
  OBVIOUS
<1>2. Pieces(f) = [i \in 1 .. Cardinality(data) |-> f[nth(i)]]
  BY DEF Pieces
<1> HIDE DEF data
<1>3. Cardinality(data) = d - a
  BY <1>1, FS_Interval
<1>4. ASSUME NEW i \in 1 .. d - a PROVE nth(i) = a + i - 1
  <2>1. ASSUME NEW j \in data
        PROVE  Cardinality({h \in data : h < j}) = j - a
    <3>1. {h \in data : h < j} = a .. j - 1
      BY <1>1, <2>1
    <3>2. a \in Int /\ j \in Int /\ j - 1 \in Int /\ a <= j
      BY <1>1, <2>1
    <3>3. Cardinality(a .. j - 1) = IF a > j - 1 THEN 0 ELSE j - 1 - a + 1
      BY <3>2, FS_Interval
    <3>4. Cardinality(a .. j - 1) = j - a
      BY <3>2, <3>3
    <3> QED
      BY <3>1, <3>4
  <2>2. a + i - 1 \in data
    BY <1>1
  <2>3. \A j \in data : (j - a = i - 1) => j = a + i - 1
    BY <1>1
  <2>4. \A j \in data : (Cardinality({h \in data : h < j}) = i - 1) <=> j = a + i - 1
    BY <2>1, <2>3
  <2> QED
    BY <2>2, <2>4
<1> QED
  BY <1>2, <1>3, <1>4

-----------------------------------------------------------------------------
(* One direction, counted from the sender's m_btBegin b: c numbers are      *)
(* outstanding, the receiver has the first k.  tk pieces have been moved to *)
(* the send window sb; rb is the receive window, dl what it has delivered   *)
(* and pk the packets in flight.                                            *)

\* The send window holds the last pieces, in order; only at its very begin can
\* there be a packet without a piece, because a heartbeat waits until nothing
\* is outstanding.
Outstanding(b, c, tk, sb) ==
  /\ c <= tk + 1
  /\ \A j \in 0 .. c - 1 : \/ sb[At(b, j)] = tk - c + 1 + j
                           \/ j = 0 /\ sb[At(b, j)] = Heartbeat

\* What the receiver holds out of order is outstanding, and what was sent.
Held(b, c, k, sb, rb) ==
  \A j \in 0 .. W - 1 :
    rb[At(b, k + j)] # NoBuffer =>
      k + j < c /\ rb[At(b, k + j)] = sb[At(b, k + j)]

\* A packet in flight is an outstanding one, or one not too old to be refused.
InFlight(b, c, sb, pk) ==
  \A p \in pk :
    \/ \E j \in 0 .. c - 1 : p.m_cSyn = Byte(b + j) /\ p.payload = sb[At(b, j)]
    \/ Byte(b - p.m_cSyn) \in 1 .. Lifetime

\* The pieces delivered are the first ones, as many as the k numbers carried.
Arrived(b, c, k, tk, sb, dl) ==
  /\ \A i \in 1 .. Len(dl) : dl[i] = i
  /\ Len(dl) = IF k = 0 /\ c > 0 /\ sb[At(b, 0)] = Heartbeat
                 THEN tk - c + 1 ELSE tk - c + k

\* All of it.
Flow(b, c, k, tk, sb, rb, pk, dl) ==
  /\ Outstanding(b, c, tk, sb)
  /\ Held(b, c, k, sb, rb)
  /\ InFlight(b, c, sb, pk)
  /\ Arrived(b, c, k, tk, sb, dl)

\* sb2 is sb with f pieces, or h = 1 heartbeat, behind the c outstanding numbers.
Extended(b, c, tk, f, h, sb, sb2) ==
  /\ h = 1 => f = 0 /\ c = 0
  /\ \A j \in 0 .. c - 1 : sb2[At(b, j)] = sb[At(b, j)]
  /\ \A j \in 0 .. f + h - 1 :
       sb2[At(b, c + j)] = IF h = 1 THEN Heartbeat ELSE tk + 1 + j

\* PostSend extends the send window.
LEMMA GrowStep ==
  ASSUME NEW b \in Seq8, NEW c \in 0 .. W, NEW k \in 0 .. c, NEW tk \in Nat,
         NEW f \in Nat, NEW h \in {0, 1},
         NEW c2, c2 = c + f + h, c2 <= W, NEW tk2, tk2 = tk + f,
         NEW sb, NEW sb2, NEW rb, NEW dl \in Seq(Nat), NEW pk,
         Extended(b, c, tk, f, h, sb, sb2), Flow(b, c, k, tk, sb, rb, pk, dl)
  PROVE  Flow(b, c2, k, tk2, sb2, rb, pk, dl)
<1>a. /\ h = 1 => f = 0 /\ c = 0
      /\ \A j \in 0 .. c - 1 : sb2[At(b, j)] = sb[At(b, j)]
      /\ \A j \in 0 .. f + h - 1 :
           sb2[At(b, c + j)] = IF h = 1 THEN Heartbeat ELSE tk + 1 + j
  BY DEF Extended
<1>b. /\ Outstanding(b, c, tk, sb) /\ Held(b, c, k, sb, rb)
      /\ InFlight(b, c, sb, pk) /\ Arrived(b, c, k, tk, sb, dl)
  BY DEF Flow
<1> USE <1>a, <1>b
<1>0. c2 \in 0 .. W /\ c <= c2 /\ W \in Nat
  BY Sizes
<1>1. Outstanding(b, c2, tk2, sb2)
  <2>1. c2 <= tk2 + 1
    BY Sizes DEF Outstanding
  <2>2. ASSUME NEW j \in 0 .. c2 - 1
        PROVE  \/ sb2[At(b, j)] = tk2 - c2 + 1 + j
               \/ j = 0 /\ sb2[At(b, j)] = Heartbeat
    <3>1. CASE j < c
      <4>1. h = 0 /\ j \in 0 .. c - 1
        BY <3>1
      <4>2. sb2[At(b, j)] = sb[At(b, j)]
        BY <4>1
      <4>3. sb[At(b, j)] = tk - c + 1 + j \/ (j = 0 /\ sb[At(b, j)] = Heartbeat)
        BY <4>1 DEF Outstanding
      <4>4. tk - c + 1 + j = tk2 - c2 + 1 + j
        BY <4>1
      <4> QED
        BY <4>2, <4>3, <4>4
    <3>2. CASE j >= c
      <4>1. j - c \in 0 .. f + h - 1 /\ c + (j - c) = j
        BY <3>2
      <4>2. sb2[At(b, j)] = IF h = 1 THEN Heartbeat ELSE tk + 1 + (j - c)
        BY <4>1
      <4> QED
        BY <4>1, <4>2
    <3> QED
      BY <3>1, <3>2
  <2> QED
    BY <2>1, <2>2 DEF Outstanding
<1>2. Held(b, c2, k, sb2, rb)
  <2> SUFFICES ASSUME NEW j \in 0 .. W - 1, rb[At(b, k + j)] # NoBuffer
               PROVE  k + j < c2 /\ rb[At(b, k + j)] = sb2[At(b, k + j)]
    BY DEF Held
  <2>1. k + j < c /\ rb[At(b, k + j)] = sb[At(b, k + j)]
    BY DEF Held
  <2>2. k + j \in 0 .. c - 1
    BY <2>1, Sizes
  <2> QED
    BY <1>0, <2>1, <2>2
<1>3. InFlight(b, c2, sb2, pk)
  <2> SUFFICES ASSUME NEW p \in pk, ~(Byte(b - p.m_cSyn) \in 1 .. Lifetime)
               PROVE  \E j \in 0 .. c2 - 1 :
                        p.m_cSyn = Byte(b + j) /\ p.payload = sb2[At(b, j)]
    BY DEF InFlight
  <2>1. PICK j \in 0 .. c - 1 : p.m_cSyn = Byte(b + j) /\ p.payload = sb[At(b, j)]
    BY DEF InFlight
  <2>2. j \in 0 .. c2 - 1
    BY <1>0
  <2> QED
    BY <2>1, <2>2
<1>4. Arrived(b, c2, k, tk2, sb2, dl)
  <2>1. Len(dl) = IF k = 0 /\ c2 > 0 /\ sb2[At(b, 0)] = Heartbeat
                    THEN tk2 - c2 + 1 ELSE tk2 - c2 + k
    <3>1. CASE c > 0
      <4>1. h = 0 /\ sb2[At(b, 0)] = sb[At(b, 0)]
        BY <3>1
      <4> QED
        BY <3>1, <4>1 DEF Arrived
    <3>2. CASE c = 0
      <4>1. Len(dl) = tk /\ k = 0
        BY <3>2 DEF Arrived
      <4>2. f + h > 0 => 0 \in 0 .. f + h - 1 /\ c + 0 = 0
        BY <3>2
      <4>3. f + h > 0 =>
              sb2[At(b, 0)] = IF h = 1 THEN Heartbeat ELSE tk + 1 + 0
        BY <4>2
      <4> QED
        BY <3>2, <4>1, <4>3 DEF Heartbeat
    <3> QED
      BY <3>1, <3>2
  <2>2. \A i \in 1 .. Len(dl) : dl[i] = i
    BY DEF Arrived
  <2> QED
    BY <2>1, <2>2 DEF Arrived
<1> QED
  BY <1>1, <1>2, <1>3, <1>4 DEF Flow

\* An ack frees the first x numbers, all of which the receiver has; packets
\* that are too old then have left the network.
LEMMA AckStep ==
  ASSUME NEW b \in Seq8, NEW c \in 0 .. W, NEW k \in 0 .. c, NEW tk \in Nat,
         NEW x \in 0 .. k, NEW sb, NEW rb, NEW dl \in Seq(Nat),
         NEW pk, NEW pk2 \in SUBSET pk,
         \A p \in pk2 : /\ p.m_cSyn \in Seq8
                        /\ \/ Byte(p.m_cSyn - Byte(b + x)) < W
                           \/ Byte(Byte(b + x) - p.m_cSyn) <= Lifetime,
         Flow(b, c, k, tk, sb, rb, pk, dl)
  PROVE  Flow(Byte(b + x), c - x, k - x, tk, sb, rb, pk2, dl)
<1>b. /\ Outstanding(b, c, tk, sb) /\ Held(b, c, k, sb, rb)
      /\ InFlight(b, c, sb, pk) /\ Arrived(b, c, k, tk, sb, dl)
  BY DEF Flow
<1> USE <1>b
<1> DEFINE b2 == Byte(b + x)
<1>0. x \in 0 .. W /\ W \in Nat /\ b2 \in Seq8
  BY Sizes, ByteIs DEF Seq8
<1>1. ASSUME NEW j \in 0 .. 2 * W, x + j <= 2 * W
      PROVE  At(b2, j) = At(b, x + j)
  BY <1>0, <1>1, AtShift
<1>2. Outstanding(b2, c - x, tk, sb)
  <2>1. c - x <= tk + 1
    BY DEF Outstanding
  <2>2. ASSUME NEW j \in 0 .. c - x - 1
        PROVE  \/ sb[At(b2, j)] = tk - (c - x) + 1 + j
               \/ j = 0 /\ sb[At(b2, j)] = Heartbeat
    <3>1. At(b2, j) = At(b, x + j) /\ x + j \in 0 .. c - 1
      BY <1>0, <1>1
    <3>2. \/ sb[At(b, x + j)] = tk - c + 1 + (x + j)
          \/ x + j = 0 /\ sb[At(b, x + j)] = Heartbeat
      BY <3>1 DEF Outstanding
    <3> QED
      BY <3>1, <3>2
  <2> QED
    BY <2>1, <2>2 DEF Outstanding
<1>3. Held(b2, c - x, k - x, sb, rb)
  <2> SUFFICES ASSUME NEW j \in 0 .. W - 1, rb[At(b2, k - x + j)] # NoBuffer
               PROVE  /\ k - x + j < c - x
                      /\ rb[At(b2, k - x + j)] = sb[At(b2, k - x + j)]
    BY DEF Held
  <2>1. k - x + j \in 0 .. 2 * W /\ x + (k - x + j) = k + j /\ k + j <= 2 * W
    BY <1>0
  <2>2. At(b2, k - x + j) = At(b, k + j)
    BY <1>1, <2>1
  <2>3. k + j < c /\ rb[At(b, k + j)] = sb[At(b, k + j)]
    BY <2>2 DEF Held
  <2> QED
    BY <2>2, <2>3
<1>4. InFlight(b2, c - x, sb, pk2)
  <2> SUFFICES ASSUME NEW p \in pk2
               PROVE  \/ \E j \in 0 .. c - x - 1 : /\ p.m_cSyn = Byte(b2 + j)
                                                   /\ p.payload = sb[At(b2, j)]
                      \/ Byte(b2 - p.m_cSyn) \in 1 .. Lifetime
    BY DEF InFlight
  <2> DEFINE s == p.m_cSyn
  <2>1. s \in Seq8 /\ (Byte(s - b2) < W \/ Byte(b2 - s) <= Lifetime)
    OBVIOUS
  <2>2. b2 = IF b + x < SeqMod THEN b + x ELSE b + x - SeqMod
    BY <1>0, ByteIs, Sizes DEF Seq8
  <2>3. CASE \E j \in 0 .. c - 1 : s = Byte(b + j) /\ p.payload = sb[At(b, j)]
    <3>1. PICK j \in 0 .. c - 1 : s = Byte(b + j) /\ p.payload = sb[At(b, j)]
      BY <2>3
    <3>2. s = IF b + j < SeqMod THEN b + j ELSE b + j - SeqMod
      BY <3>1, ByteIs, Sizes DEF Seq8
    <3>3. CASE j >= x
      <4>1. j - x \in 0 .. c - x - 1 /\ x + (j - x) = j /\ j - x \in 0 .. 2 * W
            /\ j <= 2 * W
        BY <1>0, <3>3
      <4>2. At(b2, j - x) = At(b, j)
        BY <4>1, <1>1
      <4>3. Byte(b2 + (j - x)) = s
        <5>1. Byte(b2 + (j - x)) = Byte(b + x + (j - x))
          BY <1>0, <4>1, ByteAdd
        <5>2. b + x + (j - x) = b + j
          BY <1>0 DEF Seq8
        <5> QED
          BY <3>1, <5>1, <5>2
      <4> QED
        BY <3>1, <4>1, <4>2, <4>3
    <3>4. CASE j < x
      <4> HIDE DEF b2, s
      <4>1. s - b2 = j - x \/ s - b2 = j - x + SeqMod
            \/ s - b2 = j - x - SeqMod
        BY <2>2, <3>2, Sizes, <1>0 DEF Seq8
      <4>2. /\ s \in 0 .. SeqMod - 1 /\ b2 \in 0 .. SeqMod - 1 /\ s \in Int
            /\ b2 \in Int
        BY <1>0, <2>1 DEF Seq8
      <4>3. s - b2 = j - x \/ s - b2 = j - x + SeqMod
        BY <4>1, <4>2, <3>4, Sizes
      <4> DEFINE ahead == Byte(s - b2)  behind == Byte(b2 - s)
      <4>7. /\ ahead = IF s < b2 THEN s - b2 + SeqMod ELSE s - b2
            /\ behind = IF b2 < s THEN b2 - s + SeqMod ELSE b2 - s
            /\ ahead < W \/ behind <= Lifetime
        BY <1>0, <2>1, ByteDiff
      <4> HIDE DEF ahead, behind
      <4>4. ahead = j - x + SeqMod
        BY <4>2, <4>3, <4>7, <3>4, <1>0, Sizes
      <4>5. behind = x - j
        BY <4>2, <4>3, <4>7, <3>4, <1>0, Sizes
      <4>6. behind <= Lifetime
        BY <4>4, <4>7, <3>4, <1>0, Sizes
      <4>8. behind \in 1 .. Lifetime
        BY <4>5, <4>6, <3>4, <1>0, Sizes
      <4> QED
        BY <4>8 DEF s, behind
    <3> QED
      BY <3>3, <3>4, <1>0
  <2>4. CASE Byte(b - s) \in 1 .. Lifetime
    <3> HIDE DEF s, b2
    <3>1. /\ s \in 0 .. SeqMod - 1 /\ b2 \in 0 .. SeqMod - 1 /\ s \in Int
          /\ b2 \in Int /\ b \in 0 .. SeqMod - 1
      BY <1>0, <2>1 DEF Seq8
    <3>2. PICK l \in 1 .. Lifetime : b - s = l \/ b - s = l - SeqMod
      <4> DEFINE l == Byte(b - s)
      <4>1. l = (IF b < s THEN b - s + SeqMod ELSE b - s) /\ l \in 1 .. Lifetime
        BY <2>1, <2>4, ByteDiff
      <4> HIDE DEF l
      <4>2. b - s = l \/ b - s = l - SeqMod
        BY <3>1, <4>1, Sizes
      <4> QED
        BY <4>1, <4>2
    <3>3. b2 - s = l + x \/ b2 - s = l + x - SeqMod \/ b2 - s = l + x - 2 * SeqMod
      BY <2>2, <3>1, <3>2, <1>0, Sizes
    <3>4. l + x \in 1 .. SeqMod - W
      BY <1>0, Sizes
    <3>5. b2 - s = l + x \/ b2 - s = l + x - SeqMod
      BY <3>1, <3>3, <3>4, <1>0, Sizes
    <3> DEFINE ahead == Byte(s - b2)  behind == Byte(b2 - s)
    <3>9. /\ ahead = IF s < b2 THEN s - b2 + SeqMod ELSE s - b2
          /\ behind = IF b2 < s THEN b2 - s + SeqMod ELSE b2 - s
          /\ ahead < W \/ behind <= Lifetime
      BY <1>0, <2>1, ByteDiff
    <3> HIDE DEF ahead, behind
    <3>6. behind = l + x
      BY <3>1, <3>4, <3>5, <3>9, <1>0, Sizes
    <3>7. ahead = SeqMod - (l + x)
      BY <3>1, <3>4, <3>5, <3>9, <1>0, Sizes
    <3>8. behind \in 1 .. Lifetime
      BY <3>4, <3>6, <3>7, <3>9, <1>0, Sizes
    <3> QED
      BY <3>8 DEF s, behind
  <2> QED
    BY <2>3, <2>4 DEF InFlight
<1>5. Arrived(b2, c - x, k - x, tk, sb, dl)
  <2>1. CASE x = 0
    <3>1. b2 = b
      BY <2>1, ByteIs, Sizes DEF Seq8
    <3> QED
      BY <2>1, <3>1 DEF Arrived
  <2>2. CASE x > 0
    <3>1. Len(dl) = tk - c + k
      BY <2>2 DEF Arrived
    <3>2. c - x > 0 => sb[At(b2, 0)] # Heartbeat
      <4> SUFFICES ASSUME c - x > 0 PROVE sb[At(b2, 0)] # Heartbeat
        OBVIOUS
      <4>1. At(b2, 0) = At(b, x) /\ x \in 0 .. c - 1
        BY <1>0, <1>1
      <4>2. sb[At(b, x)] = tk - c + 1 + x /\ c <= tk + 1
        BY <2>2, <4>1 DEF Outstanding
      <4> QED
        BY <2>2, <4>1, <4>2 DEF Heartbeat
    <3> QED
      BY <3>1, <3>2, <1>0 DEF Arrived
  <2> QED
    BY <2>1, <2>2
<1> QED
  BY <1>2, <1>3, <1>4, <1>5 DEF Flow

\* A packet in flight that the receive window accepts is an outstanding one that
\* the receiver has not got yet.
LEMMA AcceptedIsNew ==
  ASSUME NEW b \in Seq8, NEW c \in 0 .. W, NEW k \in 0 .. c, NEW sb, NEW pk,
         NEW p \in pk, p.m_cSyn \in Seq8, InFlight(b, c, sb, pk),
         Byte(p.m_cSyn - Byte(b + k)) < W
  PROVE  \E j \in 0 .. W - 1 : /\ k + j < c /\ Slot(p.m_cSyn) = At(b, k + j)
                               /\ p.payload = sb[At(b, k + j)]
<1> DEFINE s == p.m_cSyn  r == Byte(b + k)
<1>0. k \in 0 .. W /\ W \in Nat /\ r \in Seq8 /\ s \in Seq8
  BY Sizes, ByteIs DEF Seq8
<1>1. r = IF b + k < SeqMod THEN b + k ELSE b + k - SeqMod
  BY <1>0, ByteIs, Sizes DEF Seq8
<1> DEFINE ahead == Byte(s - r)
<1>2. ahead = (IF s < r THEN s - r + SeqMod ELSE s - r) /\ ahead < W
  BY <1>0, ByteDiff
<1>3. /\ s \in 0 .. SeqMod - 1 /\ r \in 0 .. SeqMod - 1 /\ s \in Int
      /\ r \in Int /\ b \in 0 .. SeqMod - 1
  BY <1>0 DEF Seq8
<1>4. ~(Byte(b - s) \in 1 .. Lifetime)
  <2> DEFINE l == Byte(b - s)
  <2>1. l = IF b < s THEN b - s + SeqMod ELSE b - s
    BY <1>0, ByteDiff
  <2> HIDE DEF l, ahead, r, s
  <2> SUFFICES ASSUME l \in 1 .. Lifetime PROVE FALSE
    BY DEF l
  <2>2. r - s = l + k \/ r - s = l + k - SeqMod \/ r - s = l + k - 2 * SeqMod
    BY <1>0, <1>1, <1>3, <2>1, Sizes
  <2>3. l + k \in 1 .. SeqMod - W
    BY <1>0, Sizes
  <2>4. ahead = SeqMod - (l + k)
    BY <1>2, <1>3, <2>2, <2>3, <1>0, Sizes
  <2> QED
    BY <1>2, <2>3, <2>4, <1>0, Sizes
<1>5. PICK i \in 0 .. c - 1 : s = Byte(b + i) /\ p.payload = sb[At(b, i)]
  BY <1>4 DEF InFlight
<1>6. i >= k
  <2>1. s = IF b + i < SeqMod THEN b + i ELSE b + i - SeqMod
    BY <1>5, ByteIs, Sizes DEF Seq8
  <2> HIDE DEF ahead, r, s
  <2> SUFFICES ASSUME i < k PROVE FALSE
    BY <1>0
  <2>2. s - r = i - k \/ s - r = i - k + SeqMod \/ s - r = i - k - SeqMod
    BY <1>0, <1>1, <1>3, <2>1, Sizes
  <2>3. ahead = i - k + SeqMod
    BY <1>0, <1>2, <1>3, <2>2, Sizes
  <2> QED
    BY <1>0, <1>2, <2>3, Sizes
<1>7. i - k \in 0 .. W - 1 /\ k + (i - k) = i /\ i < c
  BY <1>0, <1>6
<1>8. Slot(s) = At(b, i)
  BY <1>5 DEF At
<1> QED
  BY <1>5, <1>7, <1>8

\* Such a packet may be put in its slot.
LEMMA StoreStep ==
  ASSUME NEW b \in Seq8, NEW c \in 0 .. W, NEW k \in 0 .. c, NEW sb,
         NEW rb, NEW S, rb \in [Slots -> S], NEW i \in 0 .. W - 1, k + i < c,
         Held(b, c, k, sb, rb)
  PROVE  Held(b, c, k, sb, [rb EXCEPT ![At(b, k + i)] = sb[At(b, k + i)]])
<1> DEFINE buf == [rb EXCEPT ![At(b, k + i)] = sb[At(b, k + i)]]
<1> SUFFICES ASSUME NEW j \in 0 .. W - 1, buf[At(b, k + j)] # NoBuffer
             PROVE  k + j < c /\ buf[At(b, k + j)] = sb[At(b, k + j)]
  BY DEF Held
<1>1. /\ k + j \in 0 .. 2 * W /\ k + i \in 0 .. 2 * W
      /\ (k + j) - (k + i) < W /\ (k + i) - (k + j) < W
  BY Sizes
<1>2. At(b, k + j) \in Slots /\ At(b, k + i) \in Slots
  BY <1>1, AtIs
<1>3. CASE At(b, k + j) = At(b, k + i)
  <2>1. k + j = k + i
    BY <1>1, <1>3, AtDiffers
  <2> QED
    BY <1>2, <1>3, <2>1
<1>4. CASE At(b, k + j) # At(b, k + i)
  <2>1. buf[At(b, k + j)] = rb[At(b, k + j)]
    BY <1>2, <1>4
  <2> QED
    BY <2>1 DEF Held
<1> QED
  BY <1>3, <1>4

\* The first d slots, all filled, are emptied and the window moves on by d.
LEMMA EmptyStep ==
  ASSUME NEW b \in Seq8, NEW c \in 0 .. W, NEW k \in 0 .. c, NEW sb, NEW buf,
         NEW d \in 0 .. W, Held(b, c, k, sb, buf),
         \A j \in 0 .. d - 1 : buf[At(b, k + j)] # NoBuffer, NEW rb2,
         \A i \in Slots : rb2[i] = IF \E j \in 0 .. d - 1 : At(b, k + j) = i
                                    THEN NoBuffer ELSE buf[i]
  PROVE  k + d <= c /\ Held(b, c, k + d, sb, rb2)
<1>0. k \in 0 .. W /\ W \in Nat
  BY Sizes
<1>1. k + d <= c
  <2>1. CASE d = 0
    BY <2>1
  <2>2. CASE d > 0
    <3>1. d - 1 \in 0 .. W - 1 /\ d - 1 \in 0 .. d - 1
      BY <1>0, <2>2
    <3>2. k + (d - 1) < c
      BY <3>1 DEF Held
    <3> QED
      BY <3>2
  <2> QED
    BY <2>1, <2>2
<1>2. ASSUME NEW j \in 0 .. W - 1, rb2[At(b, k + d + j)] # NoBuffer
      PROVE  /\ k + d + j < c
             /\ rb2[At(b, k + d + j)] = sb[At(b, k + d + j)]
  <2> DEFINE s == At(b, k + d + j)
  <2>1. k + d + j \in 0 .. 2 * W
    BY <1>0, <1>1
  <2>2. s \in Slots
    BY <2>1, AtIs
  <2>3. ~(\E i \in 0 .. d - 1 : At(b, k + i) = s) /\ rb2[s] = buf[s]
    BY <1>2, <2>2
  <2>4. PICK i \in 0 .. W - 1 : At(b, k + i) = s
    BY <1>0, <2>2, AtOnto
  <2>5. i >= d
    BY <2>3, <2>4
  <2>6. /\ k + i \in 0 .. 2 * W /\ (k + i) - (k + d + j) < W
        /\ (k + d + j) - (k + i) < W
    BY <1>0, <2>5
  <2>7. k + i = k + d + j
    BY <2>1, <2>4, <2>6, AtDiffers
  <2>8. buf[At(b, k + i)] # NoBuffer
    BY <1>2, <2>3, <2>4
  <2>9. k + i < c /\ buf[At(b, k + i)] = sb[At(b, k + i)]
    BY <2>8 DEF Held
  <2> QED
    BY <2>3, <2>7, <2>9
<1> DEFINE k2 == k + d
<1>3. ASSUME NEW j \in 0 .. W - 1, rb2[At(b, k2 + j)] # NoBuffer
      PROVE  k2 + j < c /\ rb2[At(b, k2 + j)] = sb[At(b, k2 + j)]
  BY <1>2, <1>3
<1>4. Held(b, c, k2, sb, rb2)
  <2> HIDE DEF k2
  <2> QED
    BY <1>3 DEF Held
<1> QED
  BY <1>1, <1>4

\* Their pieces are the next of the stream.
LEMMA DeliverStep ==
  ASSUME NEW b \in Seq8, NEW c \in 0 .. W, NEW k \in 0 .. c, NEW tk \in Nat,
         NEW sb, NEW d \in 0 .. W, k + d <= c, NEW dl \in Seq(Nat), NEW f,
         DOMAIN f = 0 .. d - 1,
         \A j \in 0 .. d - 1 : f[j] = sb[At(b, k + j)],
         Outstanding(b, c, tk, sb), Arrived(b, c, k, tk, sb, dl)
  PROVE  /\ dl \o Pieces(f) \in Seq(Nat)
         /\ Arrived(b, c, k + d, tk, sb, dl \o Pieces(f))
<1>0. k \in 0 .. W /\ W \in Nat
  BY Sizes
<1> DEFINE first == k = 0 /\ c > 0 /\ sb[At(b, 0)] = Heartbeat
           a == IF first /\ d > 0 THEN 1 ELSE 0
           ps == Pieces(f)
<1>1. a \in 0 .. d /\ a \in Nat
  BY <1>0
<1>2. ASSUME NEW j \in a .. d - 1
      PROVE  j \in 0 .. d - 1 /\ f[j] = tk - c + 1 + (k + j) /\ f[j] # Heartbeat
  <2>1. j \in 0 .. d - 1 /\ k + j \in 0 .. c - 1
    BY <1>0, <1>1
  <2>2. /\ f[j] = sb[At(b, k + j)]
        /\ \/ sb[At(b, k + j)] = tk - c + 1 + (k + j)
           \/ k + j = 0 /\ sb[At(b, k + j)] = Heartbeat
    BY <2>1 DEF Outstanding
  <2>3. k + j = 0 => sb[At(b, k + j)] # Heartbeat
    <3> SUFFICES ASSUME k + j = 0 PROVE sb[At(b, 0)] # Heartbeat
      OBVIOUS
    <3>1. k = 0 /\ j = 0 /\ a = 0 /\ d > 0 /\ c > 0
      BY <1>0, <1>1, <2>1
    <3> QED
      BY <3>1
  <2>4. f[j] = tk - c + 1 + (k + j)
    BY <2>2, <2>3
  <2>5. c <= tk + 1
    BY DEF Outstanding
  <2>6. f[j] # Heartbeat
    <3>1. CASE k + j = 0
      BY <2>2, <2>3, <3>1
    <3>2. CASE k + j > 0
      BY <2>1, <2>4, <2>5, <3>2 DEF Heartbeat
    <3> QED
      BY <2>1, <3>1, <3>2
  <2> QED
    BY <2>1, <2>4, <2>6
<1>3. ASSUME NEW j \in 0 .. d - 1, j \notin a .. d - 1 PROVE f[j] = Heartbeat
  <2>1. j = 0 /\ first
    BY <1>3
  <2>2. k + j = 0
    BY <2>1
  <2> QED
    BY <2>1, <2>2
<1>4. {j \in DOMAIN f : f[j] # Heartbeat} = a .. d - 1
  <2> HIDE DEF a
  <2> QED
    BY <1>2, <1>3
<1>5. ps = [i \in 1 .. d - a |-> f[a + i - 1]]
  <2>1. d \in Nat
    BY <1>0
  <2> HIDE DEF a
  <2> QED
    BY <1>1, <1>4, <2>1, PiecesFrom
<1>6. ASSUME NEW i \in 1 .. d - a PROVE f[a + i - 1] = tk - c + k + a + i
  <2>1. a + i - 1 \in a .. d - 1
    BY <1>1
  <2>2. f[a + i - 1] = tk - c + 1 + (k + (a + i - 1))
    BY <1>2, <2>1
  <2> QED
    BY <1>1, <2>2
<1>7. Len(dl) = tk - c + k + a \/ (d = 0 /\ first)
  BY DEF Arrived
<1>8. Len(dl) \in Nat /\ \A i \in 1 .. Len(dl) : dl[i] = i
  BY DEF Arrived
<1>9. CASE d = 0
  <2>1. ps = << >>
    BY <1>1, <1>5, <1>9
  <2>2. dl \o ps = dl /\ k + d = k
    BY <2>1, <1>9
  <2> QED
    BY <2>2
<1>10. CASE d > 0
  <2>1. Len(dl) = tk - c + k + a
    BY <1>7, <1>10
  <2> HIDE DEF a, first
  <2>2. ASSUME NEW i \in 1 .. d - a PROVE f[a + i - 1] = Len(dl) + i
    BY <1>1, <1>6, <2>1
  <2>3. ps \in Seq(Nat) /\ Len(ps) = d - a /\ \A i \in 1 .. d - a : ps[i] = Len(dl) + i
    <3>1. ps = [i \in 1 .. d - a |-> Len(dl) + i]
      BY <1>5, <2>2
    <3> DEFINE m == d - a  t == Len(dl)
    <3>2. m \in Nat /\ t \in Nat
      BY <1>1, <1>8
    <3>3. ps = [i \in 1 .. m |-> t + i]
      BY <3>1
    <3> HIDE DEF ps, m, t
    <3>4. ps \in [1 .. m -> Nat]
      BY <3>2, <3>3
    <3>5. ps \in Seq(Nat) /\ Len(ps) = m /\ \A i \in 1 .. m : ps[i] = t + i
      BY <3>2, <3>3, <3>4
    <3> QED
      BY <3>5 DEF m, t
  <2> DEFINE dl2 == dl \o ps
  <2>4. dl2 \in Seq(Nat) /\ Len(dl2) = Len(dl) + (d - a)
    <3>1. ps \in Seq(Nat) /\ Len(ps) = d - a
      BY <2>3
    <3> HIDE DEF ps
    <3> QED
      BY <3>1, ConcatProperties
  <2>5. ASSUME NEW i \in 1 .. Len(dl2) PROVE dl2[i] = i
    <3> HIDE DEF ps
    <3>1. CASE i <= Len(dl)
      BY <2>3, <1>8, <3>1
    <3>2. CASE i > Len(dl)
      <4>1. i - Len(dl) \in 1 .. d - a
        BY <1>8, <2>4, <3>2, <1>1
      <4>2. dl2[i] = ps[i - Len(dl)]
        BY <2>3, <2>4, <1>8, <3>2
      <4> QED
        BY <4>1, <4>2, <2>3, <1>8
    <3> QED
      BY <3>1, <3>2, <1>8, <2>4
  <2>6. Len(dl2) = tk - c + (k + d) /\ k + d # 0
    BY <2>1, <2>4, <1>0, <1>1, <1>10
  <2> HIDE DEF dl2
  <2> DEFINE k2 == k + d
  <2>7. Arrived(b, c, k2, tk, sb, dl2)
    <3>1. Len(dl2) = tk - c + k2 /\ k2 # 0
      BY <2>6
    <3> HIDE DEF k2
    <3> QED
      BY <3>1, <2>5 DEF Arrived
  <2> QED
    BY <2>4, <2>7 DEF dl2
<1> QED
  BY <1>9, <1>10

\* An ack that the send window accepts, and that is not too old, acknowledges
\* numbers the receiver has.
LEMMA AckedIsGot ==
  ASSUME NEW b \in Seq8, NEW c \in 0 .. W, NEW k \in 0 .. c, NEW a \in Seq8,
         Byte(Byte(b + k) - 1 - a) <= Lifetime, Byte(a - b) < c
  PROVE  \E x \in 1 .. k : Byte(a + 1) = Byte(b + x) /\ Count(b, Byte(a + 1)) = x
<1> DEFINE r == Byte(b + k)  old == Byte(r - 1 - a)  j == Byte(a - b)
<1>0. k \in 0 .. W /\ W \in Nat /\ r \in Seq8
  BY Sizes, ByteIs DEF Seq8
<1>1. r = IF b + k < SeqMod THEN b + k ELSE b + k - SeqMod
  BY <1>0, ByteIs, Sizes DEF Seq8
<1>2. j = (IF a < b THEN a - b + SeqMod ELSE a - b) /\ j < c
  BY ByteDiff
<1>3. old = (IF r - 1 < a THEN r - 1 - a + SeqMod ELSE r - 1 - a) /\ old <= Lifetime
  <2>1. r - 1 - a \in -SeqMod .. SeqMod - 1 /\ r - 1 - a \in Int
    BY <1>0, Sizes DEF Seq8
  <2> DEFINE y == r - 1 - a
  <2>2. old = IF y < 0 THEN y + SeqMod ELSE y
    <3> HIDE DEF y
    <3>1. old = Byte(y)
      BY DEF y
    <3>2. y \in -SeqMod .. SeqMod - 1 /\ y \in Int
      BY <2>1 DEF y
    <3>3. CASE y < 0
      <4>1. y \in -SeqMod .. -1
        BY <3>2, <3>3, Sizes
      <4> QED
        BY <3>1, <3>3, <4>1, <3>2, ByteIs
    <3>4. CASE y >= 0
      <4>1. y \in 0 .. SeqMod - 1
        BY <3>2, <3>4, Sizes
      <4> QED
        BY <3>1, <3>4, <4>1, <3>2, ByteIs
    <3> QED
      BY <3>2, <3>3, <3>4
  <2> QED
    BY <2>2, <1>0, Sizes DEF Seq8
<1>4. /\ a \in 0 .. SeqMod - 1 /\ r \in 0 .. SeqMod - 1 /\ a \in Int
      /\ r \in Int /\ b \in 0 .. SeqMod - 1
  BY <1>0 DEF Seq8
<1>5. j \in 0 .. c - 1 /\ j + 1 <= k
  <2> HIDE DEF r, old, j
  <2>1. j \in 0 .. c - 1
    BY <1>2, <1>4, <1>0, Sizes
  <2>2. a = b + j \/ a = b + j - SeqMod
    BY <1>2, <1>4, Sizes
  <2>3. r = b + k \/ r = b + k - SeqMod
    BY <1>1, <1>4
  <2>4. ASSUME j >= k PROVE FALSE
    <3>1. \/ r - 1 - a = k - 1 - j \/ r - 1 - a = k - 1 - j - SeqMod
          \/ r - 1 - a = k - 1 - j + SeqMod
      BY <2>1, <2>2, <2>3, <1>0, <1>4, Sizes
    <3>2. old = k - 1 - j + SeqMod
      BY <3>1, <1>3, <1>4, <1>0, <2>1, <2>4, Sizes
    <3> QED
      BY <3>2, <1>3, <1>0, <2>1, Sizes
  <2> QED
    BY <2>1, <2>4, <1>0
<1>6. a = IF b + j < SeqMod THEN b + j ELSE b + j - SeqMod
  <2> HIDE DEF j
  <2> QED
    BY <1>2, <1>4, <1>5, <1>0, Sizes
<1>7. Byte(a + 1) = Byte(b + (j + 1))
  <2>1. a = Byte(b + j)
    <3>1. a \in Seq8 /\ j = Count(b, a)
      BY DEF Count
    <3> QED
      BY <3>1, CountIs
  <2> HIDE DEF j
  <2>2. j \in 0 .. W /\ 1 \in 0 .. 2 * W /\ j + 1 <= 2 * W
    BY <1>5, <1>0, Sizes
  <2>3. Byte(Byte(b + j) + 1) = Byte(b + j + 1)
    BY <2>2, ByteAdd
  <2>4. b + j + 1 = b + (j + 1)
    BY <1>4, <2>2
  <2> QED
    BY <2>1, <2>3, <2>4
<1> HIDE DEF j
<1>8. j + 1 \in Seq8 /\ j + 1 \in 1 .. k
  BY <1>5, <1>0, Sizes DEF Seq8
<1> QED
  BY <1>7, <1>8, CountIs

-----------------------------------------------------------------------------
(* Counting buffers.                                                       *)

\* The slots of a receive window that hold a packet.
Filled(rb) == {i \in Slots : rb[i] # NoBuffer}

LEMMA FilledFinite ==
  ASSUME NEW rb
  PROVE  /\ IsFiniteSet(Slots) /\ Cardinality(Slots) = W
         /\ IsFiniteSet(Filled(rb)) /\ Cardinality(Filled(rb)) \in 0 .. W
<1>1. IsFiniteSet(Slots) /\ Cardinality(Slots) = W
  <2>1. 0 \in Int /\ W - 1 \in Int /\ ~(0 > W - 1)
    BY Sizes
  <2>2. IsFiniteSet(0 .. W - 1) /\ Cardinality(0 .. W - 1) = (W - 1) - 0 + 1
    BY <2>1, FS_Interval
  <2> QED
    BY <2>2, Sizes DEF Slots
<1>2. Filled(rb) \in SUBSET Slots
  BY DEF Filled
<1>3. IsFiniteSet(Filled(rb)) /\ Cardinality(Filled(rb)) <= W
  BY <1>1, <1>2, FS_Subset
<1>4. Cardinality(Filled(rb)) \in Nat
  BY <1>3, FS_CardinalityType
<1> QED
  BY <1>1, <1>3, <1>4, Sizes

\* A window with an empty slot is not full.
LEMMA NotFull ==
  ASSUME NEW rb, NEW i \in Slots, rb[i] = NoBuffer
  PROVE  Cardinality(Filled(rb)) < W
<1>1. Filled(rb) \in SUBSET Slots /\ Filled(rb) # Slots
  BY DEF Filled
<1>2. Cardinality(Filled(rb)) # Cardinality(Slots)
  BY <1>1, FilledFinite, FS_Subset
<1> QED
  BY <1>2, FilledFinite, Sizes

\* Storing a packet in an empty slot takes one more buffer.
LEMMA FilledStore ==
  ASSUME NEW rb, NEW S, rb \in [Slots -> S], NEW s \in Slots, NEW v,
         rb[s] = NoBuffer, v # NoBuffer
  PROVE  Cardinality(Filled([rb EXCEPT ![s] = v])) = Cardinality(Filled(rb)) + 1
<1>1. Filled([rb EXCEPT ![s] = v]) = Filled(rb) \cup {s} /\ s \notin Filled(rb)
  BY DEF Filled
<1> QED
  BY <1>1, FilledFinite, FS_AddElement

\* The first d slots are d slots.
LEMMA FirstSlots ==
  ASSUME NEW r \in Seq8, NEW d \in 0 .. W
  PROVE  LET T == {At(r, j) : j \in 0 .. d - 1}
         IN  IsFiniteSet(T) /\ Cardinality(T) = d
<1> DEFINE T == {At(r, j) : j \in 0 .. d - 1}
           f == [j \in 0 .. d - 1 |-> At(r, j)]
<1>1. ASSUME NEW i \in 0 .. d - 1, NEW j \in 0 .. d - 1, f[i] = f[j] PROVE i = j
  <2>1. i \in 0 .. 2 * W /\ j \in 0 .. 2 * W /\ i - j < W /\ j - i < W
    BY Sizes
  <2>2. At(r, i) = At(r, j)
    BY <1>1
  <2> QED
    BY <2>1, <2>2, AtDiffers
<1>2. f \in Bijection(0 .. d - 1, T)
  <2>1. f \in [0 .. d - 1 -> T]
    OBVIOUS
  <2>2. f \in Injection(0 .. d - 1, T)
    BY <1>1, <2>1 DEF Injection, IsInjective
  <2>3. f \in Surjection(0 .. d - 1, T)
    BY <2>1 DEF Surjection
  <2> QED
    BY <2>2, <2>3 DEF Bijection
<1>3. IsFiniteSet(0 .. d - 1) /\ Cardinality(0 .. d - 1) = d
  <2>1. 0 \in Int /\ d - 1 \in Int
    BY Sizes
  <2>2. IsFiniteSet(0 .. d - 1)
        /\ Cardinality(0 .. d - 1) = IF 0 > d - 1 THEN 0 ELSE d - 1 - 0 + 1
    BY <2>1, FS_Interval
  <2> QED
    BY <2>2, Sizes
<1>4. ExistsBijection(0 .. d - 1, T)
  BY <1>2 DEF ExistsBijection
<1>5. IsFiniteSet(T) /\ Cardinality(T) = d
  BY <1>3, <1>4, FS_Bijection
<1> QED
  BY <1>5

\* Emptying the first d slots, all filled, frees d buffers.
LEMMA FilledEmpty ==
  ASSUME NEW buf, NEW r \in Seq8, NEW d \in 0 .. W,
         \A j \in 0 .. d - 1 : buf[At(r, j)] # NoBuffer, NEW rb2,
         \A i \in Slots : rb2[i] = IF \E j \in 0 .. d - 1 : At(r, j) = i
                                    THEN NoBuffer ELSE buf[i]
  PROVE  Cardinality(Filled(rb2)) = Cardinality(Filled(buf)) - d
<1> DEFINE T == {At(r, j) : j \in 0 .. d - 1}
<1>1. T \subseteq Filled(buf)
  <2> SUFFICES ASSUME NEW j \in 0 .. d - 1 PROVE At(r, j) \in Filled(buf)
    OBVIOUS
  <2>1. j \in 0 .. 2 * W
    BY Sizes
  <2> QED
    BY <2>1, AtIs DEF Filled
<1>2. Filled(rb2) = Filled(buf) \ T
  BY DEF Filled
<1>3. Filled(buf) \cap T = T
  BY <1>1
<1>4. Cardinality(T) = d
  BY FirstSlots
<1> HIDE DEF T
<1>5. Cardinality(Filled(buf) \ T) =
        Cardinality(Filled(buf)) - Cardinality(Filled(buf) \cap T)
  BY FilledFinite, FS_Difference
<1> QED
  BY <1>2, <1>3, <1>4, <1>5

-----------------------------------------------------------------------------
(* The invariant.                                                          *)

\* The numbers outstanding, and how many of them the peer has got.
Out(n) == Count(sBegin[n], sEnd[n])
Got(n) == Count(sBegin[n], rBegin[Peer(n)])

\* The direction from n to its peer.
Direction(n) ==
  /\ Got(n) <= Out(n) /\ Out(n) <= W
  /\ Flow(sBegin[n], Out(n), Got(n), taken[n], sBuf[n], rBuf[Peer(n)], net[n],
          delivered[Peer(n)])

\* The buffers of n.  As long as n is established the slot at m_btBegin is
\* empty, so that the window never holds all of them.
Buffers(n) ==
  /\ sFree[n] + Out(n) = W
  /\ rFree[n] + Cardinality(Filled(rBuf[n])) + leaks[n] = W
  /\ state[n] = "starved" => leaks[n] > 0
  /\ state[n] = "est" => rBuf[n][Slot(rBegin[n])] = NoBuffer

\* The rest of what n keeps: its stream, the end of its receive window, the
\* retries it has left and the age of its acks in flight.
Endpoint(n) ==
  /\ taken[n] <= pushed[n] /\ pushed[n] <= MaxData[n]
  /\ rEnd[n] = Byte(rBegin[n] + W)
  /\ state[n] = "est" => m_dAckTimeoutRetry[n] >= 1
  /\ \A p \in net[n] : Byte(rBegin[n] - 1 - p.m_cAck) <= Lifetime

UdpType ==
  /\ TypeOK
  /\ delivered \in [Node -> Seq(Nat)]
  /\ net \in [Node -> SUBSET Packet]

IInv == UdpType /\ \A n \in Node : Direction(n) /\ Buffers(n) /\ Endpoint(n)

\* What the invariant says of the numbers of one direction.
LEMMA View ==
  ASSUME IInv, NEW n \in Node
  PROVE  /\ Peer(n) \in Node /\ Peer(n) # n
         /\ sBegin[n] \in Seq8 /\ sEnd[n] \in Seq8 /\ rBegin[Peer(n)] \in Seq8
         /\ Out(n) \in 0 .. W /\ Got(n) \in 0 .. Out(n)
         /\ sEnd[n] = Byte(sBegin[n] + Out(n))
         /\ rBegin[Peer(n)] = Byte(sBegin[n] + Got(n))
         /\ taken[n] \in Nat /\ delivered[Peer(n)] \in Seq(Nat)
<1>1. Peer(n) \in Node /\ Peer(n) # n
  BY Peers
<1>2. /\ sBegin[n] \in Seq8 /\ sEnd[n] \in Seq8 /\ rBegin[Peer(n)] \in Seq8
      /\ taken[n] \in 0 .. MostData
  BY <1>1 DEF IInv, UdpType, TypeOK
<1>7. delivered[Peer(n)] \in Seq(Nat)
  BY <1>1 DEF IInv, UdpType
<1>3. /\ Out(n) \in Seq8 /\ sEnd[n] = Byte(sBegin[n] + Out(n))
      /\ Got(n) \in Seq8 /\ rBegin[Peer(n)] = Byte(sBegin[n] + Got(n))
  BY <1>2, CountIs DEF Out, Got
<1>4. Got(n) <= Out(n) /\ Out(n) <= W
  BY DEF IInv, Direction
<1>5. Out(n) \in 0 .. W /\ Got(n) \in 0 .. Out(n)
  BY <1>3, <1>4, Sizes DEF Seq8
<1>6. taken[n] \in Nat
  BY <1>2, MostDataIs
<1> QED
  BY <1>1, <1>2, <1>3, <1>5, <1>6, <1>7

\* The invariant holds when the handshake has ended.
LEMMA InitInv == Init => IInv
<1> SUFFICES ASSUME Init PROVE IInv
  OBVIOUS
<1>1. 0 \in Seq8 /\ 1 \in Seq8 /\ 2 \in Seq8 /\ Byte(2 + W) \in Seq8
  BY Sizes, ByteIs DEF Seq8
<1>2. UdpType
  <2>1. 0 \in 0 .. MostData
    BY MostDataIs
  <2>2. AckTimeoutRetry \in 0 .. AckTimeoutRetry
    BY UdpAssumption
  <2>3. W \in 0 .. W /\ W - 1 \in 0 .. W /\ 0 \in 0 .. W
    BY Sizes
  <2>4. << >> \in Seq(Nat)
    OBVIOUS
  <2>5. TypeOK
    BY <1>1, <2>1, <2>2, <2>3
       DEF Init, TypeOK, Payload, Heartbeat, Byte
  <2> QED
    BY <2>4, <2>5 DEF Init, UdpType
<1>3. ASSUME NEW n \in Node PROVE Direction(n) /\ Buffers(n) /\ Endpoint(n)
  <2>1. Peer(n) \in Node
    BY Peers
  <2>2. Byte(1 + 1) = 2 /\ 1 + 1 = 2
    BY Sizes, ByteIs
  <2>3. Count(1, 2) = 1
    BY <1>1, <2>2, CountIs
  <2>4. Out(n) = 1 /\ Got(n) = 1
    BY <2>1, <2>3 DEF Init, Out, Got
  <2>5. /\ taken[n] = 0 /\ pushed[n] = 0 /\ net[n] = {} /\ leaks[n] = 0
        /\ state[n] = "est" /\ sFree[n] = W - 1 /\ rFree[n] = W
        /\ rBuf[n] = [i \in Slots |-> NoBuffer] /\ rBegin[n] = 2
        /\ rBuf[Peer(n)] = [i \in Slots |-> NoBuffer]
        /\ sBuf[n] = [i \in Slots |-> Heartbeat] /\ sBegin[n] = 1
        /\ delivered[Peer(n)] = << >>
        /\ rEnd[n] = Byte(2 + W) /\ m_dAckTimeoutRetry[n] = AckTimeoutRetry
    BY <2>1 DEF Init, Byte
  <2>6. \A i \in Slots : sBuf[n][i] = Heartbeat /\ rBuf[n][i] = NoBuffer
                         /\ rBuf[Peer(n)][i] = NoBuffer
    BY <2>5
  <2>7. \A j \in 0 .. 2 * W : At(1, j) \in Slots
    BY <1>1, AtIs
  <2>8. Direction(n)
    <3>1. Outstanding(1, 1, 0, sBuf[n])
      BY <2>6, <2>7, Sizes DEF Outstanding
    <3>2. Held(1, 1, 1, sBuf[n], rBuf[Peer(n)])
      <4>1. \A j \in 0 .. W - 1 : 1 + j \in 0 .. 2 * W
        BY Sizes
      <4> QED
        BY <2>6, <2>7, <4>1 DEF Held
    <3>3. InFlight(1, 1, sBuf[n], {})
      BY DEF InFlight
    <3>4. Arrived(1, 1, 1, 0, sBuf[n], << >>)
      BY DEF Arrived
    <3> QED
      BY <2>4, <2>5, <3>1, <3>2, <3>3, <3>4, Sizes DEF Direction, Flow
  <2>9. Buffers(n)
    <3>1. Filled(rBuf[n]) = {}
      BY <2>6 DEF Filled
    <3>2. Cardinality(Filled(rBuf[n])) = 0
      BY <3>1, FS_EmptySet
    <3>3. Slot(rBegin[n]) \in Slots
      <4>1. At(2, 0) \in Slots /\ Byte(2 + 0) = 2
        BY <1>1, AtIs, ByteIs, Sizes DEF Seq8
      <4> QED
        BY <2>5, <4>1 DEF At
    <3> QED
      BY <2>4, <2>5, <2>6, <3>2, <3>3, Sizes DEF Buffers
  <2>10. Endpoint(n)
    BY <2>5, MostDataIs, UdpAssumption DEF Endpoint
  <2> QED
    BY <2>8, <2>9, <2>10
<1> QED
  BY <1>2, <1>3 DEF IInv

\* A direction whose windows a step leaves alone, whatever the network loses.
LEMMA DirectionKept ==
  ASSUME NEW q \in Node, Direction(q), net'[q] \subseteq net[q],
         UNCHANGED <<sBegin[q], sEnd[q], sBuf[q], taken[q], rBegin[Peer(q)],
                     rBuf[Peer(q)], delivered[Peer(q)]>>
  PROVE  Direction(q)'
<1>1. Out(q)' = Out(q) /\ Got(q)' = Got(q)
  BY DEF Out, Got
<1>2. Flow(sBegin[q], Out(q), Got(q), taken[q], sBuf[q], rBuf[Peer(q)], net[q]',
           delivered[Peer(q)])
  BY DEF Direction, Flow, InFlight
<1> QED
  BY <1>1, <1>2 DEF Direction

-----------------------------------------------------------------------------
(* PostSend.                                                               *)

\* What a PostSend that goes through leaves of n's send window: f more pieces,
\* or h = 1 heartbeat, in sb2.
Sent(n, f, h, sb2) ==
  /\ f \in Nat /\ h \in {0, 1} /\ Out(n) + f + h <= W
  /\ taken[n] + f <= pushed[n]
  /\ taken' = [taken EXCEPT ![n] = taken[n] + f]
  /\ sEnd' = [sEnd EXCEPT ![n] = Byte(sBegin[n] + (Out(n) + f + h))]
  /\ sFree' = [sFree EXCEPT ![n] = sFree[n] - (f + h)]
  /\ sb2 \in [Slots -> Payload]
  /\ sBuf' = [sBuf EXCEPT ![n] = sb2]
  /\ Extended(sBegin[n], Out(n), taken[n], f, h, sBuf[n], sb2)

\* The packets it hands to send().
Fresh(n, sb2, packets) ==
  \A p \in packets :
    \/ \E s \in Window(sBegin[n], sEnd'[n]) : p = PacketOf(n, s, sb2[Slot(s)])
    \/ p = PacketOf(n, Byte(sBegin[n] - 1), Heartbeat)

\* Packets of n in flight after a step were so before or are of packets.
LEMMA TransmitAdds ==
  ASSUME NEW n \in Node, NEW packets, Transmit(n, packets),
         net \in [Node -> SUBSET Packet]
  PROVE  /\ \A q \in Node : q # n => net'[q] = net[q]
         /\ \A p \in net'[n] : p \in net[n] \/ p \in packets
         /\ packets \subseteq Packet => net' \in [Node -> SUBSET Packet]
<1>1. CASE UNCHANGED net
  BY <1>1
<1>2. ASSUME NEW old \in {net[n], {}},
             net' = [net EXCEPT ![n] = old \cup packets]
      PROVE  /\ \A q \in Node : q # n => net'[q] = net[q]
             /\ \A p \in net'[n] : p \in net[n] \/ p \in packets
             /\ packets \subseteq Packet => net' \in [Node -> SUBSET Packet]
  <2>1. net'[n] = old \cup packets
    BY <1>2
  <2>2. packets \subseteq Packet => old \cup packets \in SUBSET Packet
    OBVIOUS
  <2> QED
    BY <1>2, <2>1, <2>2
<1> QED
  BY <1>1, <1>2 DEF Transmit

LEMMA SendView ==
  ASSUME IInv, NEW n \in Node, NEW c, NEW beat \in BOOLEAN, NEW due,
         SendPackets(n, c, beat, due)
  PROVE  \E f, h, sb2, packets :
           /\ Sent(n, f, h, sb2)
           /\ Fresh(n, sb2, packets)
           /\ Transmit(n, packets) \/ UNCHANGED net
           /\ m_bSendAck' \in [Node -> BOOLEAN]
<1> DEFINE b == sBegin[n]  m == Out(n)
<1>0. /\ b \in Seq8 /\ m \in 0 .. W /\ sEnd[n] = Byte(b + m) /\ sEnd[n] \in Seq8
      /\ taken[n] \in Nat /\ W \in Nat
  BY View, Sizes
<1>1. /\ pushed[n] \in 0 .. MostData /\ sFree[n] \in 0 .. W
      /\ sBuf[n] \in [Slots -> Payload] /\ m_bSendAck \in [Node -> BOOLEAN]
      /\ taken \in [Node -> 0 .. MostData] /\ sEnd \in [Node -> Seq8]
      /\ sFree \in [Node -> 0 .. W] /\ sBuf \in [Node -> [Slots -> Payload]]
      /\ pushed[n] \in Nat
  BY MostDataIs DEF IInv, UdpType, TypeOK
<1>2. sFree[n] + m = W /\ taken[n] <= pushed[n]
  BY DEF IInv, Buffers, Endpoint
<1>4. PICK f \in {FillCount(n, c)} : \E h \in {IF f = 0 /\ beat THEN 1 ELSE 0} :
        \E end \in {Byte(sEnd[n] + f + h)} :
          (beat => HeartbeatDue(n)) /\ Fill(n, f, h, end) /\ SendDue(n, end, due)
  BY DEF SendPackets
<1>17. PICK h \in {IF f = 0 /\ beat THEN 1 ELSE 0} :
         \E end \in {Byte(sEnd[n] + f + h)} :
           (beat => HeartbeatDue(n)) /\ Fill(n, f, h, end) /\ SendDue(n, end, due)
  BY <1>4
<1> DEFINE end == Byte(sEnd[n] + f + h)
<1>18. (beat => HeartbeatDue(n)) /\ Fill(n, f, h, end) /\ SendDue(n, end, due)
  BY <1>17
<1>3. f \in Nat /\ f <= sFree[n] /\ taken[n] + f <= pushed[n]
  BY <1>0, <1>1, <1>2, <1>4, FillIs
<1> DEFINE New(i) == {j \in 0 .. f + h - 1 : Slot(Byte(sEnd[n] + j)) = i}
           sb2 == [i \in Slots |->
                     IF New(i) = {} THEN sBuf[n][i]
                     ELSE IF h = 1 THEN Heartbeat
                     ELSE taken[n] + 1 + CHOOSE j \in New(i) : TRUE]
           out == {s \in Window(b, end) : Slot(s) \in due}
           ack == PacketOf(n, Byte(b - 1), Heartbeat)
<1>19. /\ taken' = [taken EXCEPT ![n] = @ + f]
       /\ sEnd' = [sEnd EXCEPT ![n] = end]
       /\ sBuf' = [sBuf EXCEPT ![n] = sb2]
       /\ sFree' = [sFree EXCEPT ![n] = @ - (f + h)]
  BY <1>18 DEF Fill
<1>5. /\ h \in {0, 1} /\ m + f + h <= W
      /\ h = 1 => f = 0 /\ m = 0
  <2>3. h \in {0, 1} /\ (h = 1 => f = 0 /\ beat)
    BY <1>17
  <2>1. CASE h = 0
    BY <2>1, <1>0, <1>2, <1>3, <1>1
  <2>2. CASE h = 1
    <3>1. f = 0 /\ b = sEnd[n] /\ sFree[n] > 0
      BY <1>18, <2>2, <2>3 DEF HeartbeatDue
    <3>2. m = 0
      <4>1. 0 \in Seq8 /\ Byte(b + 0) = b
        BY <1>0, ByteIs, Sizes DEF Seq8
      <4>2. Count(b, b) = 0
        BY <1>0, <4>1, CountIs
      <4> QED
        BY <3>1, <4>2 DEF Out
    <3> QED
      BY <2>2, <3>1, <3>2, <1>0, Sizes
  <2> QED
    BY <2>1, <2>2, <2>3
<1>6. ASSUME NEW j \in 0 .. W, m + j <= W
      PROVE  Slot(Byte(sEnd[n] + j)) = At(b, m + j)
  <2>1. j \in 0 .. 2 * W /\ m + j <= 2 * W
    BY <1>0, <1>6
  <2> QED
    BY <1>0, <2>1, AtShift DEF At
<1>7. end = Byte(b + (m + f + h))
  <2>1. f + h \in 0 .. 2 * W /\ m + (f + h) <= 2 * W
    BY <1>0, <1>3, <1>5
  <2>2. Byte(Byte(b + m) + (f + h)) = Byte(b + m + (f + h))
    BY <1>0, <2>1, ByteAdd
  <2>3. sEnd[n] + f + h = sEnd[n] + (f + h) /\ b + m + (f + h) = b + (m + f + h)
    BY <1>0, <1>3, <1>5 DEF Seq8
  <2> QED
    BY <1>0, <1>4, <2>2, <2>3
<1>8. sb2 \in [Slots -> Payload]
  <2> SUFFICES ASSUME NEW i \in Slots, New(i) # {}, h # 1
               PROVE  taken[n] + 1 + (CHOOSE j \in New(i) : TRUE) \in Payload
    BY <1>1, MostDataIs DEF Payload, Heartbeat
  <2> DEFINE j == CHOOSE j \in New(i) : TRUE
  <2>1. j \in New(i)
    OBVIOUS
  <2>2. j \in 0 .. f - 1
    BY <2>1, <1>5, <1>3
  <2> HIDE DEF j
  <2>3. taken[n] + 1 + j \in 0 .. MostData
    BY <2>2, <1>0, <1>1, <1>3, MostDataIs
  <2> QED
    BY <2>3 DEF Payload, j
<1>9. ASSUME NEW j \in 0 .. m - 1
      PROVE  sb2[At(b, j)] = sBuf[n][At(b, j)]
  <2>1. At(b, j) \in Slots /\ j \in 0 .. 2 * W
    BY <1>0, AtIs
  <2>2. New(At(b, j)) = {}
    <3> SUFFICES ASSUME NEW i \in 0 .. f + h - 1,
                        Slot(Byte(sEnd[n] + i)) = At(b, j)
                 PROVE  FALSE
      OBVIOUS
    <3>1. i \in 0 .. W /\ m + i <= W /\ m + i < W
      BY <1>0, <1>3, <1>5
    <3>2. At(b, m + i) = At(b, j)
      BY <1>6, <3>1
    <3>3. m + i \in 0 .. 2 * W /\ (m + i) - j < W /\ j - (m + i) < W
      BY <1>0, <3>1
    <3>4. m + i = j
      BY <1>0, <2>1, <3>2, <3>3, AtDiffers
    <3> QED
      BY <3>4, <3>1, <1>0
  <2> QED
    BY <2>1, <2>2
<1>10. ASSUME NEW j \in 0 .. f + h - 1
       PROVE  sb2[At(b, m + j)] = IF h = 1 THEN Heartbeat ELSE taken[n] + 1 + j
  <2>1. j \in 0 .. W /\ m + j < W /\ m + j \in 0 .. 2 * W
    BY <1>0, <1>3, <1>5
  <2>2. At(b, m + j) \in Slots
    BY <1>0, <2>1, AtIs
  <2>3. New(At(b, m + j)) = {j}
    <3>1. j \in New(At(b, m + j))
      BY <1>6, <2>1, <1>0
    <3>2. ASSUME NEW i \in New(At(b, m + j)) PROVE i = j
      <4>1. i \in 0 .. W /\ m + i < W /\ m + i \in 0 .. 2 * W
        BY <1>0, <1>3, <1>5
      <4>2. At(b, m + i) = At(b, m + j)
        BY <1>6, <4>1, <1>0
      <4>3. (m + i) - (m + j) < W /\ (m + j) - (m + i) < W
        BY <4>1, <2>1, <1>0
      <4>4. m + i = m + j
        BY <1>0, <2>1, <4>1, <4>2, <4>3, AtDiffers
      <4> QED
        BY <4>1, <4>4, <2>1, <1>0
    <3> QED
      BY <3>1, <3>2
  <2> HIDE DEF New
  <2> QED
    BY <2>2, <2>3
<1> HIDE DEF sb2, m, b, end
<1>11. Sent(n, f, h, sb2)
  <2>1. /\ taken' = [taken EXCEPT ![n] = taken[n] + f]
        /\ sFree' = [sFree EXCEPT ![n] = sFree[n] - (f + h)]
        /\ sEnd' = [sEnd EXCEPT ![n] = Byte(b + (m + f + h))]
        /\ sBuf' = [sBuf EXCEPT ![n] = sb2]
    BY <1>19, <1>7
  <2> QED
    BY <1>3, <1>5, <1>8, <1>9, <1>10, <2>1 DEF Sent, Extended, m, b
<1>12. sBuf'[n] = sb2 /\ sEnd'[n] = end
  BY <1>1, <1>19
<1>13. \E packets : Fresh(n, sb2, packets)
                      /\ (Transmit(n, packets) \/ UNCHANGED net)
  <2> DEFINE P == {PacketOf(n, s, sBuf'[n][Slot(s)]) : s \in out}
  <2>1. Transmit(n, P) \/ Transmit(n, {ack}) \/ UNCHANGED net
    BY <1>18 DEF SendDue, b
  <2>2. Fresh(n, sb2, P)
    BY <1>12 DEF Fresh, b
  <2>3. Fresh(n, sb2, {ack})
    BY DEF Fresh, b
  <2> HIDE DEF P, ack
  <2> QED
    BY <2>1, <2>2, <2>3
<1>14. m_bSendAck' \in [Node -> BOOLEAN]
  BY <1>1, <1>18 DEF SendDue
<1> QED
  BY <1>11, <1>13, <1>14

\* A packet of the send window, or a bare ack, is a packet; it is in flight as
\* the invariant says, and its ack is new.
LEMMA FreshIs ==
  ASSUME NEW b \in Seq8, NEW c2 \in 0 .. W, NEW sb2 \in [Slots -> Payload],
         NEW n \in Node, b = sBegin[n], rBegin[n] \in Seq8,
         sEnd'[n] = Byte(b + c2), NEW packets, Fresh(n, sb2, packets)
  PROVE  /\ packets \subseteq Packet
         /\ InFlight(b, c2, sb2, packets)
         /\ \A p \in packets : Byte(rBegin[n] - 1 - p.m_cAck) <= Lifetime
<1>0. b - 1 \in Int /\ rBegin[n] - 1 \in Int /\ W \in Nat
  BY Sizes DEF Seq8
<1> DEFINE a == Byte(rBegin[n] - 1)  last == Byte(b - 1)
<1>1. a \in Seq8 /\ last \in Seq8
  BY <1>0, ByteIs
<1>2. a = IF rBegin[n] = 0 THEN SeqMod - 1 ELSE rBegin[n] - 1
  BY ByteIs, Sizes DEF Seq8
<1>3. last = IF b = 0 THEN SeqMod - 1 ELSE b - 1
  BY ByteIs, Sizes DEF Seq8
<1>4. Byte(rBegin[n] - 1 - a) <= Lifetime
  <2> DEFINE y == rBegin[n] - 1 - a
  <2>1. y = 0 \/ y = -SeqMod
    BY <1>2, Sizes DEF Seq8
  <2> HIDE DEF y
  <2>2. Byte(y) = 0
    BY <2>1, ByteIs, Sizes
  <2> QED
    BY <2>2, Sizes DEF y
<1>5. Byte(b - last) = 1
  <2> DEFINE y == b - last
  <2>1. y = 1 \/ y = 1 - SeqMod
    BY <1>3, Sizes DEF Seq8
  <2> HIDE DEF y
  <2>2. Byte(y) = 1
    BY <2>1, ByteIs, Sizes
  <2> QED
    BY <2>2 DEF y
<1> HIDE DEF a, last
<1>6. ASSUME NEW p \in packets
      PROVE  /\ p \in Packet /\ p.m_cAck = a
             /\ \/ \E j \in 0 .. c2 - 1 :
                     p.m_cSyn = Byte(b + j) /\ p.payload = sb2[At(b, j)]
                \/ Byte(b - p.m_cSyn) \in 1 .. Lifetime
  <2>1. CASE \E s \in Window(b, sEnd'[n]) : p = PacketOf(n, s, sb2[Slot(s)])
    <3>1. PICK s \in Window(b, sEnd'[n]) : p = PacketOf(n, s, sb2[Slot(s)])
      BY <2>1
    <3>2. s \in Seq8 /\ Count(b, s) < Count(b, Byte(b + c2))
      BY <3>1 DEF Window, IsValidIndex, Count
    <3>3. c2 \in Seq8
      BY Sizes DEF Seq8
    <3>4. Count(b, Byte(b + c2)) = c2
      BY <3>3, CountIs
    <3> DEFINE j == Count(b, s)
    <3>5. j \in Seq8 /\ s = Byte(b + j) /\ j < c2
      BY <3>2, <3>4, CountIs
    <3> HIDE DEF j
    <3>6. j \in 0 .. c2 - 1 /\ j \in 0 .. 2 * W
      BY <3>5, <1>0 DEF Seq8
    <3>7. Slot(s) = At(b, j) /\ At(b, j) \in Slots
      BY <3>5, <3>6, AtIs DEF At
    <3>8. sb2[Slot(s)] \in Payload
      BY <3>7
    <3>9. p = [m_cSyn |-> s, m_cAck |-> a, payload |-> sb2[Slot(s)]]
      BY <3>1 DEF PacketOf, a
    <3>10. p \in Packet /\ p.m_cAck = a /\ p.m_cSyn = s /\ p.payload = sb2[Slot(s)]
      BY <1>1, <3>2, <3>8, <3>9 DEF Packet
    <3> QED
      BY <3>5, <3>6, <3>7, <3>10
  <2>2. CASE p = PacketOf(n, last, Heartbeat)
    <3>1. p = [m_cSyn |-> last, m_cAck |-> a, payload |-> Heartbeat]
      BY <2>2 DEF PacketOf, a
    <3>2. Heartbeat \in Payload
      BY MostDataIs DEF Payload, Heartbeat
    <3>3. p \in Packet /\ p.m_cAck = a /\ p.m_cSyn = last
      BY <1>1, <3>1, <3>2 DEF Packet
    <3> QED
      BY <3>3, <1>5, Sizes
  <2> QED
    BY <2>1, <2>2 DEF Fresh, last
<1> QED
  BY <1>4, <1>6 DEF InFlight

\* What changes in a PostSend, of the right kind.
SendType ==
  /\ taken \in [Node -> 0 .. MostData] /\ sEnd \in [Node -> Seq8]
  /\ sBuf \in [Node -> [Slots -> Payload]] /\ sFree \in [Node -> 0 .. W]
  /\ m_bSendAck \in [Node -> BOOLEAN] /\ net \in [Node -> SUBSET Packet]

\* What a PostSend could disturb of an endpoint.
SendSide(q) ==
  /\ Direction(q)
  /\ sFree[q] + Out(q) = W
  /\ taken[q] <= pushed[q]
  /\ \A p \in net[q] : Byte(rBegin[q] - 1 - p.m_cAck) <= Lifetime

LEMMA SendInv ==
  ASSUME IInv, NEW n \in Node, NEW c, NEW beat \in BOOLEAN, NEW due,
         SendPackets(n, c, beat, due), UNCHANGED <<pushed, sBegin, recvVars>>
  PROVE  SendType' /\ \A q \in Node : SendSide(q)'
<1> DEFINE b == sBegin[n]  m == Out(n)  k == Got(n)
<1>0. /\ b \in Seq8 /\ m \in 0 .. W /\ k \in 0 .. m /\ taken[n] \in Nat
      /\ delivered[Peer(n)] \in Seq(Nat) /\ Peer(n) \in Node /\ Peer(n) # n
      /\ W \in Nat
  BY View, Sizes
<1>1. /\ taken \in [Node -> 0 .. MostData] /\ sEnd \in [Node -> Seq8]
      /\ sBuf \in [Node -> [Slots -> Payload]] /\ sFree \in [Node -> 0 .. W]
      /\ pushed[n] \in 0 .. MostData /\ rBegin[n] \in Seq8
      /\ sFree[n] \in 0 .. W
  BY DEF IInv, UdpType, TypeOK
<1>2. net \in [Node -> SUBSET Packet]
  BY DEF IInv, UdpType
<1>3. Direction(n) /\ sFree[n] + m = W
  BY DEF IInv, Buffers
<1>4. PICK f, h, sb2, packets :
        /\ Sent(n, f, h, sb2)
        /\ Fresh(n, sb2, packets)
        /\ Transmit(n, packets) \/ UNCHANGED net
        /\ m_bSendAck' \in [Node -> BOOLEAN]
  BY SendView
<1> DEFINE c2 == m + f + h
<1>5. /\ f \in Nat /\ h \in {0, 1} /\ c2 \in 0 .. W /\ m + f + h <= W
      /\ taken[n] + f <= pushed[n] /\ sb2 \in [Slots -> Payload]
      /\ taken' = [taken EXCEPT ![n] = taken[n] + f]
      /\ sEnd' = [sEnd EXCEPT ![n] = Byte(b + c2)]
      /\ sFree' = [sFree EXCEPT ![n] = sFree[n] - (f + h)]
      /\ sBuf' = [sBuf EXCEPT ![n] = sb2]
  BY <1>0, <1>4 DEF Sent
<1>6. Byte(b + c2) \in Seq8 /\ Count(b, Byte(b + c2)) = c2
  <2>1. c2 \in Seq8
    BY <1>5, Sizes DEF Seq8
  <2> QED
    BY <1>0, <2>1, CountIs
<1> HIDE DEF c2
<1>7. /\ taken'[n] = taken[n] + f /\ sEnd'[n] = Byte(b + c2)
      /\ sFree'[n] = sFree[n] - (f + h) /\ sBuf'[n] = sb2
      /\ \A q \in Node : q # n => /\ taken'[q] = taken[q] /\ sEnd'[q] = sEnd[q]
                                  /\ sFree'[q] = sFree[q] /\ sBuf'[q] = sBuf[q]
  BY <1>1, <1>5
<1>8. Out(n)' = c2 /\ Got(n)' = k
  BY <1>6, <1>7 DEF Out, Got, recvVars
<1>9. /\ packets \subseteq Packet
      /\ InFlight(b, c2, sb2, packets)
      /\ \A p \in packets : Byte(rBegin[n] - 1 - p.m_cAck) <= Lifetime
  BY <1>0, <1>1, <1>4, <1>5, <1>7, FreshIs
<1>10. /\ \A q \in Node : q # n => net'[q] = net[q]
       /\ \A p \in net'[n] : p \in net[n] \/ p \in packets
       /\ net' \in [Node -> SUBSET Packet]
  BY <1>2, <1>4, <1>9, TransmitAdds
<1>11. SendType'
  <2>1. taken[n] + f \in 0 .. MostData
    BY <1>0, <1>1, <1>5, MostDataIs
  <2>2. sFree[n] - (f + h) \in 0 .. W
    BY <1>0, <1>1, <1>3, <1>5
  <2>3. /\ taken' \in [Node -> 0 .. MostData] /\ sEnd' \in [Node -> Seq8]
        /\ sBuf' \in [Node -> [Slots -> Payload]] /\ sFree' \in [Node -> 0 .. W]
    BY <1>1, <1>5, <1>6, <2>1, <2>2
  <2> QED
    BY <1>4, <1>10, <2>3 DEF SendType
<1>12. SendSide(n)'
  <2>1. /\ Flow(b, m, k, taken[n], sBuf[n], rBuf[Peer(n)], net[n],
                delivered[Peer(n)])
        /\ Extended(b, m, taken[n], f, h, sBuf[n], sb2)
    BY <1>3, <1>4 DEF Direction, Sent
  <2>2. Flow(b, c2, k, taken[n] + f, sb2, rBuf[Peer(n)], net[n],
             delivered[Peer(n)])
    <3>1. c2 = m + f + h /\ c2 <= W
      BY <1>5 DEF c2
    <3> HIDE DEF b, m, k
    <3> QED
      BY <1>0, <1>5, <2>1, <3>1, GrowStep
  <2>3. Flow(b, c2, k, taken[n] + f, sb2, rBuf[Peer(n)], net'[n],
             delivered[Peer(n)])
    BY <1>9, <1>10, <2>2 DEF Flow, InFlight
  <2>5. k <= c2 /\ c2 <= W
    BY <1>0, <1>5 DEF c2
  <2>6. Direction(n)'
    <3>1. /\ sBegin'[n] = b /\ rBuf'[Peer(n)] = rBuf[Peer(n)]
          /\ delivered'[Peer(n)] = delivered[Peer(n)]
      BY DEF recvVars
    <3> HIDE DEF b, m, k
    <3> QED
      BY <1>7, <1>8, <2>3, <2>5, <3>1 DEF Direction
  <2>7. sFree'[n] + Out(n)' = W
    BY <1>0, <1>1, <1>3, <1>5, <1>7, <1>8 DEF c2
  <2>8. taken'[n] <= pushed'[n]
    BY <1>5, <1>7
  <2>9. \A p \in net'[n] : Byte(rBegin'[n] - 1 - p.m_cAck) <= Lifetime
    BY <1>9, <1>10 DEF recvVars, IInv, Endpoint
  <2> QED
    BY <2>6, <2>7, <2>8, <2>9 DEF SendSide
<1>13. ASSUME NEW q \in Node, q # n PROVE SendSide(q)'
  <2>1. Direction(q)'
    BY <1>7, <1>10, <1>13, DirectionKept DEF IInv, recvVars
  <2>2. Out(q)' = Out(q)
    BY <1>7, <1>13 DEF Out
  <2> QED
    BY <1>7, <1>10, <1>13, <2>1, <2>2 DEF SendSide, IInv, Buffers, Endpoint, recvVars
<1> QED
  BY <1>11, <1>12, <1>13

-----------------------------------------------------------------------------
(* OnRecv.                                                                 *)

RecvPayload == Payload \cup {NoBuffer}

\* What the ack of a packet in flight does: x numbers, which the peer has, leave
\* the send window.
LEMMA AckView ==
  ASSUME IInv, NEW n \in Node, NEW p \in net[Peer(n)], ProcessAck(n, p)
  PROVE  \E x \in 0 .. Got(n) :
           /\ sBegin' = [sBegin EXCEPT ![n] = Byte(sBegin[n] + x)]
           /\ sFree' = [sFree EXCEPT ![n] = sFree[n] + x]
           /\ m_dAckTimeoutRetry' \in [Node -> 0 .. AckTimeoutRetry]
           /\ \A q \in Node : m_dAckTimeoutRetry[q] >= 1 =>
                                m_dAckTimeoutRetry'[q] >= 1
           /\ UNCHANGED <<sEnd, sBuf>>
<1> DEFINE b == sBegin[n]  c == Out(n)  k == Got(n)  a == p.m_cAck
           r == rBegin[Peer(n)]
           valid == IsValidIndex(a, b, sEnd[n])
           begin == IF valid THEN Byte(a + 1) ELSE b
<1>0. /\ b \in Seq8 /\ c \in 0 .. W /\ k \in 0 .. c /\ r = Byte(b + k)
      /\ Peer(n) \in Node
  BY View
<1>1. a \in Seq8 /\ Byte(r - 1 - a) <= Lifetime
  <2>1. net[Peer(n)] \in SUBSET Packet
    BY <1>0 DEF IInv, UdpType
  <2>2. Byte(r - 1 - a) <= Lifetime
    BY <1>0 DEF IInv, Endpoint
  <2> QED
    BY <2>1, <2>2 DEF Packet
<1>2. /\ m_dAckTimeoutRetry \in [Node -> 0 .. AckTimeoutRetry]
      /\ AckTimeoutRetry \in Nat /\ AckTimeoutRetry >= 1
  BY UdpAssumption DEF IInv, UdpType, TypeOK
<1>3. /\ sBegin' = [sBegin EXCEPT ![n] = begin]
      /\ sFree' = [sFree EXCEPT ![n] = sFree[n] + Count(b, begin)]
      /\ m_dAckTimeoutRetry' = IF valid
           THEN [m_dAckTimeoutRetry EXCEPT ![n] = AckTimeoutRetry]
           ELSE m_dAckTimeoutRetry
      /\ UNCHANGED <<sEnd, sBuf>>
  BY DEF ProcessAck
<1>4. \E x \in 0 .. k : begin = Byte(b + x) /\ Count(b, begin) = x
  <2>1. CASE valid
    <3>1. Byte(a - b) < c
      BY <2>1 DEF IsValidIndex, Out, Count
    <3>2. \E x \in 1 .. k : Byte(a + 1) = Byte(b + x) /\ Count(b, Byte(a + 1)) = x
      <4> HIDE DEF a, b, c, k
      <4> QED
        BY <1>0, <1>1, <3>1, AckedIsGot
    <3> HIDE DEF valid
    <3> QED
      BY <2>1, <3>2, <1>0
  <2>2. CASE ~valid
    <3>1. 0 \in Seq8 /\ Byte(b + 0) = b
      BY <1>0, ByteIs, Sizes DEF Seq8
    <3>2. Count(b, b) = 0
      BY <1>0, <3>1, CountIs
    <3> HIDE DEF valid
    <3> QED
      BY <2>2, <3>1, <3>2, <1>0
  <2> QED
    BY <2>1, <2>2
<1>5. /\ m_dAckTimeoutRetry' \in [Node -> 0 .. AckTimeoutRetry]
      /\ \A q \in Node : m_dAckTimeoutRetry[q] >= 1 => m_dAckTimeoutRetry'[q] >= 1
  <2> HIDE DEF valid
  <2> QED
    BY <1>2, <1>3
<1> HIDE DEF begin
<1> QED
  BY <1>3, <1>4, <1>5

\* What a packet leaves of n's receive window: d more numbers are received, rb2
\* holds what is out of order and dl2 has been delivered.
Received(n, d, rb2, dl2) ==
  LET q == Peer(n)
      r2 == Byte(sBegin[q] + (Got(q) + d))
  IN  /\ d \in 0 .. W /\ Got(q) + d <= Out(q)
      /\ rBegin' = [rBegin EXCEPT ![n] = r2]
      /\ rEnd' = [rEnd EXCEPT ![n] = Byte(r2 + W)]
      /\ rb2 \in [Slots -> RecvPayload] /\ rBuf' = [rBuf EXCEPT ![n] = rb2]
      /\ dl2 \in Seq(Nat) /\ delivered' = [delivered EXCEPT ![n] = dl2]
      /\ rFree' \in [Node -> 0 .. W]
      /\ rFree'[n] + Cardinality(Filled(rb2)) =
           rFree[n] + Cardinality(Filled(rBuf[n]))
      /\ \A o \in Node : o # n => rFree'[o] = rFree[o]
      /\ m_bSendAck' \in [Node -> BOOLEAN]
      /\ Held(sBegin[q], Out(q), Got(q) + d, sBuf[q], rb2)
      /\ Arrived(sBegin[q], Out(q), Got(q) + d, taken[q], sBuf[q], dl2)

\* A copy of the first d packets of buf, which holds what the receive window did
\* and, when store says so, one packet more.
LEMMA TakeView ==
  ASSUME IInv, NEW n \in Node, NEW store \in BOOLEAN,
         NEW buf \in [Slots -> RecvPayload], NEW d \in 0 .. W,
         rFree[n] > 0,
         Cardinality(Filled(buf)) =
           Cardinality(Filled(rBuf[n])) + (IF store THEN 1 ELSE 0),
         Held(sBegin[Peer(n)], Out(Peer(n)), Got(Peer(n)), sBuf[Peer(n)], buf),
         \A j \in 0 .. d - 1 : buf[RecvSlot(n, j)] # NoBuffer,
         Take(n, store, buf, d)
  PROVE  \E rb2, dl2 :
           /\ Received(n, d, rb2, dl2)
           /\ \A i \in Slots : rb2[i] = IF \E j \in 0 .. d - 1 : RecvSlot(n, j) = i
                                        THEN NoBuffer ELSE buf[i]
<1> DEFINE q == Peer(n)  b == sBegin[q]  c == Out(q)  k == Got(q)
           sb == sBuf[q]  tk == taken[q]  r == rBegin[n]  dl == delivered[n]
           rb2 == [i \in Slots |-> IF \E j \in 0 .. d - 1 : RecvSlot(n, j) = i
                                     THEN NoBuffer ELSE buf[i]]
           f == [j \in 0 .. d - 1 |-> buf[RecvSlot(n, j)]]
           dl2 == dl \o Pieces(f)
<1>0. /\ q \in Node /\ Peer(q) = n /\ b \in Seq8 /\ c \in 0 .. W /\ k \in 0 .. c
      /\ r = Byte(b + k) /\ r \in Seq8 /\ tk \in Nat /\ dl \in Seq(Nat)
      /\ W \in Nat /\ d \in 0 .. W
  BY View, Peers, Sizes
<1>1. /\ rBegin \in [Node -> Seq8] /\ rEnd \in [Node -> Seq8]
      /\ rFree \in [Node -> 0 .. W] /\ leaks[n] \in 0 .. W
      /\ m_bSendAck \in [Node -> BOOLEAN] /\ rFree[n] \in 0 .. W
  BY DEF IInv, UdpType, TypeOK
<1>2. /\ rFree[n] + Cardinality(Filled(rBuf[n])) + leaks[n] = W
      /\ rEnd[n] = Byte(r + W)
  BY DEF IInv, Buffers, Endpoint
<1>3. Outstanding(b, c, tk, sb) /\ Arrived(b, c, k, tk, sb, dl)
  BY <1>0 DEF IInv, Direction, Flow
<1>4. /\ rBegin' = [rBegin EXCEPT ![n] = Byte(r + d)]
      /\ rEnd' = [rEnd EXCEPT ![n] = Byte(rEnd[n] + d)]
      /\ rBuf' = [rBuf EXCEPT ![n] = rb2]
      /\ rFree' = [rFree EXCEPT ![n] = rFree[n] - (IF store THEN 1 ELSE 0) + d]
      /\ delivered' = [delivered EXCEPT ![n] = dl2]
      /\ m_bSendAck' = [m_bSendAck EXCEPT ![n] = m_bSendAck[n] \/ d > 0]
  BY DEF Take
<1>5. ASSUME NEW j \in 0 .. W - 1
      PROVE  RecvSlot(n, j) = At(b, k + j) /\ RecvSlot(n, j) = At(r, j)
  <2>1. k \in 0 .. W /\ j \in 0 .. 2 * W /\ k + j <= 2 * W
    BY <1>0
  <2> QED
    BY <1>0, <2>1, AtShift DEF RecvSlot, At
<1>6. /\ \A j \in 0 .. d - 1 : buf[At(b, k + j)] # NoBuffer
                               /\ buf[At(r, j)] # NoBuffer
      /\ \A i \in Slots : rb2[i] = IF \E j \in 0 .. d - 1 : At(b, k + j) = i
                                     THEN NoBuffer ELSE buf[i]
      /\ \A i \in Slots : rb2[i] = IF \E j \in 0 .. d - 1 : At(r, j) = i
                                     THEN NoBuffer ELSE buf[i]
  <2>1. \A j \in 0 .. d - 1 : j \in 0 .. W - 1
    BY <1>0
  <2> QED
    BY <1>5, <2>1
<1>7. k + d <= c /\ Held(b, c, k + d, sb, rb2)
  <2> HIDE DEF b, c, k, sb, r, rb2
  <2>1. Held(b, c, k, sb, buf)
    BY DEF b, c, k, sb
  <2> QED
    BY <1>0, <1>6, <2>1, EmptyStep
<1>8. Cardinality(Filled(rb2)) = Cardinality(Filled(buf)) - d
  <2>1. \A j \in 0 .. d - 1 : buf[At(r, j)] # NoBuffer
    BY <1>6
  <2>2. \A i \in Slots : rb2[i] = IF \E j \in 0 .. d - 1 : At(r, j) = i
                                   THEN NoBuffer ELSE buf[i]
    BY <1>6
  <2>3. r \in Seq8 /\ d \in 0 .. W
    BY <1>0
  <2> HIDE DEF b, c, k, sb, r, rb2
  <2> QED
    BY <2>1, <2>2, <2>3, FilledEmpty
<1>9. dl2 \in Seq(Nat) /\ Arrived(b, c, k + d, tk, sb, dl2)
  <2>1. \A j \in 0 .. d - 1 : f[j] = sb[At(b, k + j)]
    <3> SUFFICES ASSUME NEW j \in 0 .. d - 1 PROVE f[j] = sb[At(b, k + j)]
      OBVIOUS
    <3>1. j \in 0 .. W - 1
      BY <1>0
    <3>2. f[j] = buf[At(b, k + j)] /\ buf[At(b, k + j)] # NoBuffer
      BY <1>5, <1>6, <3>1
    <3>3. buf[At(b, k + j)] = sb[At(b, k + j)]
      BY <3>1, <3>2 DEF Held
    <3> QED
      BY <3>2, <3>3
  <2>2. DOMAIN f = 0 .. d - 1
    OBVIOUS
  <2> HIDE DEF b, c, k, sb, tk, dl, f
  <2> QED
    BY <1>0, <1>3, <1>7, <2>1, <2>2, DeliverStep
<1>10. /\ Byte(r + d) = Byte(b + (k + d))
       /\ Byte(rEnd[n] + d) = Byte(Byte(b + (k + d)) + W)
  <2> HIDE DEF b, c, k, r
  <2>1. /\ k \in 0 .. W /\ d \in 0 .. 2 * W /\ k + d <= 2 * W /\ W \in 0 .. W
        /\ W + d <= 2 * W /\ W \in 0 .. 2 * W /\ d + W <= 2 * W
    BY <1>0
  <2>5. b + k + d = b + (k + d)
    BY <1>0, <2>1 DEF Seq8
  <2>6. Byte(Byte(b + k) + d) = Byte(b + k + d)
    BY <1>0, <2>1, ByteAdd
  <2>2. Byte(r + d) = Byte(b + (k + d))
    BY <1>0, <2>5, <2>6
  <2>3. Byte(rEnd[n] + d) = Byte(r + W + d)
    BY <1>0, <1>2, <2>1, ByteAdd
  <2>4. Byte(Byte(r + d) + W) = Byte(r + d + W) /\ r + d + W = r + W + d
    BY <1>0, <2>1, ByteAdd DEF Seq8
  <2> QED
    BY <2>2, <2>3, <2>4
<1>11. /\ rFree' \in [Node -> 0 .. W]
       /\ rFree'[n] + Cardinality(Filled(rb2)) =
            rFree[n] + Cardinality(Filled(rBuf[n]))
       /\ \A o \in Node : o # n => rFree'[o] = rFree[o]
  <2> DEFINE one == IF store THEN 1 ELSE 0
             new == rFree[n] - one + d
             filled == Cardinality(Filled(rBuf[n]))
             left == Cardinality(Filled(rb2))
  <2>1. one \in {0, 1} /\ filled \in 0 .. W /\ left \in 0 .. W
    BY FilledFinite
  <2>5. Cardinality(Filled(buf)) = filled + one
    OBVIOUS
  <2>7. left = Cardinality(Filled(buf)) - d
    BY <1>8
  <2>6. rFree[n] + filled + leaks[n] = W
    BY <1>2
  <2>8. rFree[n] \in 1 .. W /\ leaks[n] \in Nat /\ d \in 0 .. W /\ W \in Nat
    BY <1>0, <1>1
  <2> HIDE DEF one, filled, left, rb2
  <2>2. left = filled + one - d
    BY <2>1, <2>5, <2>7, <2>8
  <2>9. new + left = rFree[n] + filled
    BY <2>1, <2>2, <2>8
  <2>3. new + left = rFree[n] + filled /\ new \in 0 .. W
    BY <2>1, <2>2, <2>6, <2>8, <2>9
  <2>4. rFree' = [rFree EXCEPT ![n] = new]
    BY <1>4 DEF one
  <2> QED
    BY <1>1, <2>3, <2>4 DEF filled, left
<1>12. m_bSendAck' \in [Node -> BOOLEAN]
  BY <1>1, <1>4
<1>13. rb2 \in [Slots -> RecvPayload]
  BY DEF RecvPayload
<1>14. Received(n, d, rb2, dl2)
  <2> HIDE DEF rb2, dl2
  <2>1. /\ rBegin' = [rBegin EXCEPT ![n] = Byte(b + (k + d))]
        /\ rEnd' = [rEnd EXCEPT ![n] = Byte(Byte(b + (k + d)) + W)]
    BY <1>4, <1>10
  <2> QED
    BY <1>0, <1>4, <1>7, <1>9, <1>11, <1>12, <1>13, <2>1 DEF Received
<1>15. \A i \in Slots : rb2[i] = IF \E j \in 0 .. d - 1 : RecvSlot(n, j) = i
                                 THEN NoBuffer ELSE buf[i]
  OBVIOUS
<1> HIDE DEF rb2, dl2
<1> QED
  BY <1>14, <1>15

\* What the packet itself does: as TakeView, and as long as n stays established
\* the run that was copied ended at an empty slot.
LEMMA SynView ==
  ASSUME IInv, NEW n \in Node, state[n] = "est", rFree[n] > 0,
         NEW p \in net[Peer(n)], ProcessSyn(n, p)
  PROVE  \E d, rb2, dl2 :
           /\ Received(n, d, rb2, dl2)
           /\ \/ state' = state /\ rb2[Slot(rBegin'[n])] = NoBuffer
              \/ state' = [state EXCEPT ![n] = "closed"]
<1> DEFINE q == Peer(n)  b == sBegin[q]  c == Out(q)  k == Got(q)
           sb == sBuf[q]  r == rBegin[n]  s == p.m_cSyn
           fits == IsValidIndex(s, r, rEnd[n]) /\ rBuf[n][Slot(s)] = NoBuffer
<1>0. /\ q \in Node /\ Peer(q) = n /\ b \in Seq8 /\ c \in 0 .. W /\ k \in 0 .. c
      /\ r = Byte(b + k) /\ r \in Seq8 /\ W \in Nat
  BY View, Peers, Sizes
<1>1. rBuf[n] \in [Slots -> RecvPayload]
  BY DEF IInv, UdpType, TypeOK, RecvPayload
<1>2. rEnd[n] = Byte(r + W) /\ rBuf[n][Slot(r)] = NoBuffer
  BY DEF IInv, Buffers, Endpoint
<1>3. p \in Packet /\ s \in Seq8 /\ p.payload \in Payload
  <2>1. net[q] \in SUBSET Packet
    BY <1>0 DEF IInv, UdpType
  <2> QED
    BY <2>1 DEF Packet
<1>4. Held(b, c, k, sb, rBuf[n]) /\ InFlight(b, c, sb, net[q])
  BY <1>0 DEF IInv, Direction, Flow
<1>5. PICK store \in {fits} :
        \E buf \in {IF store THEN [rBuf[n] EXCEPT ![Slot(s)] = p.payload]
                             ELSE rBuf[n]} :
        \E run \in {IF store THEN RunLength(n, buf) ELSE 0} :
          \/ Take(n, store, buf, run) /\ UNCHANGED state
          \/ /\ \E d \in 0 .. run - 1 : Take(n, store, buf, d)
             /\ Close(n, "closed")
  BY DEF ProcessSyn
<1> DEFINE buf == IF store THEN [rBuf[n] EXCEPT ![Slot(s)] = p.payload]
                           ELSE rBuf[n]
           run == IF store THEN RunLength(n, buf) ELSE 0
<1>6. /\ store \in BOOLEAN /\ store = fits
      /\ \/ Take(n, store, buf, run) /\ UNCHANGED state
         \/ (\E d \in 0 .. run - 1 : Take(n, store, buf, d)) /\ Close(n, "closed")
  BY <1>5
<1>7. /\ buf \in [Slots -> RecvPayload]
      /\ Cardinality(Filled(buf)) =
           Cardinality(Filled(rBuf[n])) + (IF store THEN 1 ELSE 0)
      /\ Held(b, c, k, sb, buf)
  <2>1. CASE ~store
    <3>1. Cardinality(Filled(rBuf[n])) \in 0 .. W
      BY FilledFinite
    <3> QED
      BY <2>1, <3>1, <1>0, <1>1, <1>4
  <2>2. CASE store
    <3>1. Byte(s - Byte(b + k)) < W /\ rBuf[n][Slot(s)] = NoBuffer
      <4>1. IsValidIndex(s, r, rEnd[n]) /\ rBuf[n][Slot(s)] = NoBuffer
        BY <1>6, <2>2
      <4>2. W \in Seq8
        BY Sizes DEF Seq8
      <4>3. Count(r, Byte(r + W)) = W
        BY <1>0, <4>2, CountIs
      <4>4. Byte(s - r) < W
        BY <4>1, <4>3, <1>2 DEF IsValidIndex, Count
      <4> QED
        BY <4>1, <4>4, <1>0
    <3>2. PICK j \in 0 .. W - 1 : /\ k + j < c /\ Slot(s) = At(b, k + j)
                                  /\ p.payload = sb[At(b, k + j)]
      <4> HIDE DEF b, c, k, sb
      <4> QED
        BY <1>0, <1>3, <1>4, <3>1, AcceptedIsNew
    <3>3. buf = [rBuf[n] EXCEPT ![At(b, k + j)] = sb[At(b, k + j)]]
      BY <2>2, <3>2
    <3>4. Held(b, c, k, sb, buf)
      <4> DEFINE rb == rBuf[n]
      <4>1. Held(b, c, k, sb, rb) /\ rb \in [Slots -> RecvPayload]
            /\ buf = [rb EXCEPT ![At(b, k + j)] = sb[At(b, k + j)]]
        BY <1>1, <1>4, <3>3
      <4> HIDE DEF b, c, k, sb, buf, rb
      <4>2. Held(b, c, k, sb, [rb EXCEPT ![At(b, k + j)] = sb[At(b, k + j)]])
        BY <1>0, <3>2, <4>1, StoreStep
      <4> QED
        BY <4>1, <4>2
    <3>5. Slot(s) \in Slots
      <4>1. k + j \in 0 .. 2 * W
        BY <1>0
      <4> QED
        BY <1>0, <3>2, <4>1, AtIs
    <3>6. p.payload # NoBuffer /\ p.payload \in RecvPayload
      BY <1>3, MostDataIs DEF Payload, NoBuffer, RecvPayload
    <3>7. buf \in [Slots -> RecvPayload]
      BY <2>2, <1>1, <3>6
    <3>8. Cardinality(Filled([rBuf[n] EXCEPT ![Slot(s)] = p.payload])) =
            Cardinality(Filled(rBuf[n])) + 1
      BY <1>1, <3>1, <3>5, <3>6, FilledStore
    <3> QED
      BY <2>2, <3>4, <3>7, <3>8
  <2> QED
    BY <1>6, <2>1, <2>2
<1> HIDE DEF buf, fits
<1>8. /\ run \in 0 .. W /\ \A j \in 0 .. run - 1 : buf[RecvSlot(n, j)] # NoBuffer
      /\ store /\ run < W => buf[RecvSlot(n, run)] = NoBuffer
  BY RunIs, <1>0
<1>9. CASE Take(n, store, buf, run) /\ UNCHANGED state
  <2>2. PICK rb2, dl2 :
          /\ Received(n, run, rb2, dl2)
          /\ \A i \in Slots : rb2[i] = IF \E j \in 0 .. run - 1 : RecvSlot(n, j) = i
                                       THEN NoBuffer ELSE buf[i]
    <3> HIDE DEF run
    <3> QED
      BY <1>6, <1>7, <1>8, <1>9, TakeView
  <2>3. rBegin'[n] = Byte(r + run)
    <3>1. rBegin \in [Node -> Seq8]
      BY DEF IInv, UdpType, TypeOK
    <3> QED
      BY <1>9, <3>1 DEF Take
  <2>4. Slot(rBegin'[n]) = RecvSlot(n, run) /\ RecvSlot(n, run) \in Slots
    <3>1. run \in 0 .. 2 * W
      BY <1>8, <1>0
    <3>2. At(r, run) \in Slots
      BY <1>0, <3>1, AtIs
    <3> QED
      BY <2>3, <3>2 DEF RecvSlot, At
  <2>5. rb2[RecvSlot(n, run)] = NoBuffer
    <3>1. CASE ~store
      <4>1. run = 0 /\ buf = rBuf[n] /\ RecvSlot(n, 0) = Slot(r)
        <5>1. Byte(r + 0) = r
          BY <1>0, ByteIs, Sizes DEF Seq8
        <5> QED
          BY <3>1, <5>1 DEF buf, RecvSlot
      <4> QED
        BY <2>2, <1>2, <2>4, <4>1
    <3>2. CASE store /\ run < W
      BY <2>2, <1>8, <2>4, <3>2
    <3>3. CASE run = W
      <4>1. PICK j \in 0 .. W - 1 : At(r, 0 + j) = RecvSlot(n, run)
        <5>1. 0 \in 0 .. W
          BY <1>0
        <5> HIDE DEF run, r
        <5> QED
          BY <1>0, <2>4, <5>1, AtOnto
      <4>2. RecvSlot(n, j) = RecvSlot(n, run) /\ j \in 0 .. run - 1
        BY <3>3, <4>1 DEF RecvSlot, At
      <4> QED
        BY <2>2, <2>4, <4>2
    <3> QED
      BY <1>6, <1>8, <1>0, <3>1, <3>2, <3>3
  <2> QED
    BY <1>9, <2>2, <2>4, <2>5
<1>10. CASE (\E d \in 0 .. run - 1 : Take(n, store, buf, d)) /\ Close(n, "closed")
  <2>1. PICK d \in 0 .. run - 1 : Take(n, store, buf, d)
    BY <1>10
  <2>2. d \in 0 .. W /\ \A j \in 0 .. d - 1 : buf[RecvSlot(n, j)] # NoBuffer
    BY <1>8, <1>0
  <2>3. \E rb2, dl2 : Received(n, d, rb2, dl2)
    BY <1>6, <1>7, <2>1, <2>2, TakeView
  <2> QED
    BY <1>10, <2>3 DEF Close
<1> QED
  BY <1>6, <1>9, <1>10

\* Counting to y from x further on.
LEMMA CountShift ==
  ASSUME NEW b \in Seq8, NEW y \in 0 .. W, NEW x \in 0 .. y
  PROVE  Byte(b + x) \in Seq8 /\ Count(Byte(b + x), Byte(b + y)) = y - x
<1>1. /\ x \in 0 .. W /\ y - x \in 0 .. 2 * W /\ x + (y - x) <= 2 * W
      /\ b + x + (y - x) = b + y /\ b + x \in Int
      /\ y - x \in Seq8
  BY Sizes DEF Seq8
<1>2. Byte(b + x) \in Seq8
  BY <1>1, ByteIs
<1>3. Byte(Byte(b + x) + (y - x)) = Byte(b + y)
  BY <1>1, ByteAdd
<1> QED
  BY <1>1, <1>2, <1>3, CountIs

\* An endpoint that is out of receive buffers has leaked one.
LEMMA StarvedByLeak ==
  ASSUME IInv, NEW n \in Node, state[n] = "est", rFree[n] = 0
  PROVE  leaks[n] > 0
<1>1. /\ rFree[n] + Cardinality(Filled(rBuf[n])) + leaks[n] = W
      /\ rBuf[n][Slot(rBegin[n])] = NoBuffer
  BY DEF IInv, Buffers
<1>2. rBegin[n] \in Seq8 /\ leaks[n] \in 0 .. W
  BY DEF IInv, UdpType, TypeOK
<1>3. Slot(rBegin[n]) \in Slots
  <2>1. 0 \in 0 .. 2 * W /\ Byte(rBegin[n] + 0) = rBegin[n]
    BY <1>2, ByteIs, Sizes DEF Seq8
  <2> QED
    BY <1>2, <2>1, AtIs DEF At
<1>4. Cardinality(Filled(rBuf[n])) < W /\ Cardinality(Filled(rBuf[n])) \in 0 .. W
  BY <1>1, <1>3, NotFull, FilledFinite
<1> QED
  BY <1>1, <1>2, <1>4, Sizes

\* Closing, with or without a late ack counted.
LEMMA CloseInv ==
  ASSUME IInv, NEW n \in Node, NEW why \in {"closed", "starved"},
         why = "starved" => leaks[n] > 0, Close(n, why),
         m_dAckTimeoutRetry' \in [Node -> 0 .. AckTimeoutRetry],
         \A q \in Node : q # n => m_dAckTimeoutRetry'[q] = m_dAckTimeoutRetry[q],
         UNCHANGED <<pushed, taken, sendVars, recvVars, m_bSendAck, net>>
  PROVE  IInv'
<1>1. /\ state' \in [Node -> {"est", "closed", "starved"}]
      /\ state'[n] = why /\ \A q \in Node : q # n => state'[q] = state[q]
  <2>1. state \in [Node -> {"est", "closed", "starved"}]
    BY DEF IInv, UdpType, TypeOK
  <2> QED
    BY <2>1 DEF Close
<1>2. UdpType'
  BY <1>1 DEF IInv, UdpType, TypeOK, sendVars, recvVars
<1>3. ASSUME NEW q \in Node PROVE Direction(q)'
  <2>1. Direction(q)
    BY DEF IInv
  <2> QED
    BY <2>1, DirectionKept DEF sendVars, recvVars
<1>4. ASSUME NEW q \in Node PROVE Buffers(q)' /\ Endpoint(q)'
  <2>1. Out(q)' = Out(q) /\ Filled(rBuf[q])' = Filled(rBuf[q])
    BY DEF Out, Filled, sendVars, recvVars
  <2>2. Buffers(q) /\ Endpoint(q)
    BY DEF IInv
  <2>3. Buffers(q)'
    BY <1>1, <2>1, <2>2 DEF Buffers, sendVars, recvVars
  <2>4. Endpoint(q)'
    BY <1>1, <2>2 DEF Endpoint, sendVars, recvVars
  <2> QED
    BY <2>3, <2>4
<1> QED
  BY <1>2, <1>3, <1>4 DEF IInv

\* A packet that arrives: its ack moves the send window of n, its number the
\* receive window.
LEMMA OnRecvInv ==
  ASSUME IInv, NEW n \in Node, NEW p \in net[Peer(n)], state[n] = "est",
         rFree[n] > 0, ProcessAck(n, p), ProcessSyn(n, p),
         NEW rest \in SUBSET net[Peer(n)],
         net' = [net EXCEPT ![Peer(n)] = rest,
                            ![n] = Alive(n, sBegin'[n], rBegin'[n])],
         UNCHANGED <<pushed, taken, leaks>>
  PROVE  IInv'
<1> DEFINE q == Peer(n)  b == sBegin[n]  c == Out(n)  k == Got(n)
           bq == sBegin[q]  cq == Out(q)  kq == Got(q)
<1>0. /\ q \in Node /\ q # n /\ Peer(q) = n /\ W \in Nat
      /\ \A o \in Node : o = n \/ o = q
      /\ b \in Seq8 /\ c \in 0 .. W /\ k \in 0 .. c /\ sEnd[n] = Byte(b + c)
      /\ rBegin[q] = Byte(b + k) /\ taken[n] \in Nat /\ delivered[q] \in Seq(Nat)
      /\ bq \in Seq8 /\ cq \in 0 .. W /\ kq \in 0 .. cq
  BY View, Peers, Sizes
<1>1. PICK x \in 0 .. k :
        /\ sBegin' = [sBegin EXCEPT ![n] = Byte(b + x)]
        /\ sFree' = [sFree EXCEPT ![n] = sFree[n] + x]
        /\ m_dAckTimeoutRetry' \in [Node -> 0 .. AckTimeoutRetry]
        /\ \A o \in Node : m_dAckTimeoutRetry[o] >= 1 =>
                             m_dAckTimeoutRetry'[o] >= 1
        /\ UNCHANGED <<sEnd, sBuf>>
  BY AckView
<1>2. PICK d, rb2, dl2 :
        /\ Received(n, d, rb2, dl2)
        /\ \/ state' = state /\ rb2[Slot(rBegin'[n])] = NoBuffer
           \/ state' = [state EXCEPT ![n] = "closed"]
  BY SynView
<1> DEFINE r2 == Byte(bq + (kq + d))
<1>3. /\ d \in 0 .. W /\ kq + d <= cq
      /\ rBegin' = [rBegin EXCEPT ![n] = r2]
      /\ rEnd' = [rEnd EXCEPT ![n] = Byte(r2 + W)]
      /\ rb2 \in [Slots -> RecvPayload] /\ rBuf' = [rBuf EXCEPT ![n] = rb2]
      /\ dl2 \in Seq(Nat) /\ delivered' = [delivered EXCEPT ![n] = dl2]
      /\ rFree' \in [Node -> 0 .. W]
      /\ rFree'[n] + Cardinality(Filled(rb2)) =
           rFree[n] + Cardinality(Filled(rBuf[n]))
      /\ \A o \in Node : o # n => rFree'[o] = rFree[o]
      /\ m_bSendAck' \in [Node -> BOOLEAN]
      /\ Held(bq, cq, kq + d, sBuf[q], rb2)
      /\ Arrived(bq, cq, kq + d, taken[q], sBuf[q], dl2)
  BY <1>2 DEF Received
<1> HIDE DEF r2
<1>4. /\ state \in [Node -> {"est", "closed", "starved"}]
      /\ sBegin \in [Node -> Seq8] /\ sFree \in [Node -> 0 .. W]
      /\ rBegin \in [Node -> Seq8] /\ rEnd \in [Node -> Seq8]
      /\ rBuf \in [Node -> [Slots -> RecvPayload]] /\ leaks \in [Node -> 0 .. W]
  BY DEF IInv, UdpType, TypeOK, RecvPayload
<1>5. /\ net \in [Node -> SUBSET Packet] /\ delivered \in [Node -> Seq(Nat)]
  BY DEF IInv, UdpType
<1>6. /\ x \in 0 .. c /\ Byte(b + x) \in Seq8
      /\ Count(Byte(b + x), Byte(b + c)) = c - x
      /\ Count(Byte(b + x), Byte(b + k)) = k - x
  <2>1. k \in 0 .. W /\ x \in 0 .. c /\ x \in 0 .. k
    BY <1>0
  <2> HIDE DEF b, c, k
  <2> QED
    BY <1>0, <2>1, CountShift
<1>7. r2 \in Seq8 /\ Count(bq, r2) = kq + d /\ Byte(r2 + W) \in Seq8
  <2>1. kq + d \in Seq8
    BY <1>0, <1>3, Sizes DEF Seq8
  <2>2. r2 \in Seq8 /\ Count(bq, r2) = kq + d
    BY <1>0, <2>1, CountIs DEF r2
  <2>3. r2 + W \in Int
    BY <1>0, <2>2 DEF Seq8
  <2> QED
    BY <2>2, <2>3, ByteIs
\* What n and q have afterwards.
<1>8. /\ sBegin'[n] = Byte(b + x) /\ sBegin'[q] = bq /\ rBegin'[n] = r2
      /\ rBegin'[q] = rBegin[q] /\ rBuf'[n] = rb2 /\ rBuf'[q] = rBuf[q]
      /\ rEnd'[n] = Byte(r2 + W) /\ rEnd'[q] = rEnd[q]
      /\ delivered'[n] = dl2 /\ delivered'[q] = delivered[q]
      /\ sFree'[n] = sFree[n] + x /\ sFree'[q] = sFree[q]
      /\ sEnd' = sEnd /\ sBuf' = sBuf /\ taken' = taken /\ leaks' = leaks
      /\ pushed' = pushed
  BY <1>0, <1>1, <1>3, <1>4, <1>5
<1>9. /\ net'[n] = Alive(n, Byte(b + x), r2) /\ net'[q] = rest
      /\ net'[n] \subseteq net[n] /\ net'[q] \subseteq net[q]
      /\ net' \in [Node -> SUBSET Packet]
  <2>1. net'[n] = Alive(n, Byte(b + x), r2) /\ net'[q] = rest
    BY <1>0, <1>5, <1>8
  <2>2. net'[n] \subseteq net[n]
    BY <2>1 DEF Alive
  <2> QED
    BY <1>0, <1>5, <2>1, <2>2
<1>10. Out(n)' = c - x /\ Got(n)' = k - x /\ Out(q)' = cq /\ Got(q)' = kq + d
  <2>1. Out(n)' = c - x /\ Got(n)' = k - x
    BY <1>0, <1>6, <1>8 DEF Out, Got
  <2>2. Out(q)' = cq /\ Got(q)' = kq + d
    BY <1>0, <1>7, <1>8 DEF Out, Got
  <2> QED
    BY <2>1, <2>2
<1>11. Direction(n)'
  <2>1. Flow(b, c, k, taken[n], sBuf[n], rBuf[q], net[n], delivered[q])
    BY DEF IInv, Direction
  <2>2. \A m \in net'[n] : /\ m.m_cSyn \in Seq8
                           /\ \/ Byte(m.m_cSyn - Byte(b + x)) < W
                              \/ Byte(Byte(b + x) - m.m_cSyn) <= Lifetime
    BY <1>5, <1>9 DEF Alive, Packet
  <2>3. net'[n] \in SUBSET net[n]
    BY <1>9
  <2>4. Flow(Byte(b + x), c - x, k - x, taken[n], sBuf[n], rBuf[q], net'[n],
             delivered[q])
    <3> HIDE DEF b, c, k
    <3> QED
      BY <1>0, <1>1, <2>1, <2>2, <2>3, AckStep
  <2>5. k - x <= c - x /\ c - x <= W
    BY <1>0, <1>6
  <2> HIDE DEF b, c, k
  <2> QED
    BY <1>8, <1>10, <2>4, <2>5 DEF Direction
<1>12. Direction(q)'
  <2>1. Flow(bq, cq, kq, taken[q], sBuf[q], rBuf[n], net[q], delivered[n])
    BY <1>0 DEF IInv, Direction
  <2>2. Flow(bq, cq, kq + d, taken[q], sBuf[q], rb2, net'[q], dl2)
    BY <1>3, <1>9, <2>1 DEF Flow, InFlight
  <2>3. kq + d <= cq /\ cq <= W
    BY <1>0, <1>3
  <2> HIDE DEF bq, cq, kq
  <2> QED
    BY <1>0, <1>8, <1>10, <2>2, <2>3 DEF Direction
<1>13. /\ state' \in [Node -> {"est", "closed", "starved"}] /\ state'[q] = state[q]
       /\ state'[n] \in {"est", "closed"}
       /\ state'[n] = "est" => rb2[Slot(rBegin'[n])] = NoBuffer
  BY <1>0, <1>2, <1>4
<1>14. Buffers(n)' /\ Buffers(q)'
  <2>1. /\ sFree[n] + c = W
        /\ rFree[n] + Cardinality(Filled(rBuf[n])) + leaks[n] = W
        /\ Buffers(q)
    BY <1>0 DEF IInv, Buffers
  <2>2. Filled(rBuf[n])' = Filled(rb2) /\ Filled(rBuf[q])' = Filled(rBuf[q])
    BY <1>8 DEF Filled
  <2>3. sFree'[n] + Out(n)' = W
    BY <1>0, <1>1, <1>4, <1>8, <1>10, <2>1
  <2>4. rFree'[n] + Cardinality(Filled(rBuf[n]))' + leaks'[n] = W
    BY <1>3, <1>8, <2>1, <2>2
  <2>5. Buffers(n)'
    BY <1>8, <1>13, <2>3, <2>4 DEF Buffers
  <2>6. Buffers(q)'
    BY <1>0, <1>3, <1>8, <1>10, <1>13, <2>1, <2>2 DEF Buffers
  <2> QED
    BY <2>5, <2>6
<1>15. Endpoint(n)' /\ Endpoint(q)'
  <2>1. Endpoint(n) /\ Endpoint(q)
    BY <1>0 DEF IInv
  <2>2. \A m \in net'[n] : Byte(rBegin'[n] - 1 - m.m_cAck) <= Lifetime
    BY <1>8, <1>9 DEF Alive
  <2>3. Endpoint(n)'
    BY <1>1, <1>8, <2>1, <2>2 DEF Endpoint
  <2>4. Endpoint(q)'
    BY <1>0, <1>1, <1>8, <1>9, <1>13, <2>1 DEF Endpoint
  <2> QED
    BY <2>3, <2>4
<1>16. UdpType'
  <2>1. sFree[n] + x \in 0 .. W
    <3>1. sFree[n] + c = W
      BY DEF IInv, Buffers
    <3> QED
      BY <1>0, <1>4, <1>6, <3>1
  <2>2. /\ sBegin' \in [Node -> Seq8] /\ sFree' \in [Node -> 0 .. W]
        /\ rBegin' \in [Node -> Seq8] /\ rEnd' \in [Node -> Seq8]
        /\ rBuf' \in [Node -> [Slots -> RecvPayload]]
        /\ delivered' \in [Node -> Seq(Nat)]
    BY <1>1, <1>3, <1>4, <1>5, <1>6, <1>7, <2>1
  <2>3. /\ pushed' \in [Node -> 0 .. MostData] /\ taken' \in [Node -> 0 .. MostData]
        /\ sEnd' \in [Node -> Seq8] /\ sBuf' \in [Node -> [Slots -> Payload]]
        /\ leaks' \in [Node -> 0 .. W]
    BY <1>8 DEF IInv, UdpType, TypeOK
  <2>4. \A o \in Node : net'[o] \subseteq Packet
    BY <1>9
  <2>5. TypeOK'
    BY <1>1, <1>3, <1>13, <2>2, <2>3, <2>4 DEF TypeOK, RecvPayload
  <2> QED
    BY <1>9, <2>2, <2>5 DEF UdpType
<1> HIDE DEF q
<1> QED
  BY <1>0, <1>11, <1>12, <1>14, <1>15, <1>16 DEF IInv


-----------------------------------------------------------------------------
(* Every step preserves the invariant.                                     *)

\* A PostSend that goes through, with or without a late ack counted.
LEMMA SendKeeps ==
  ASSUME IInv, NEW n \in Node, SendSome(n),
         m_dAckTimeoutRetry' \in [Node -> 0 .. AckTimeoutRetry],
         \A q \in Node : m_dAckTimeoutRetry'[q] = m_dAckTimeoutRetry[q]
                         \/ m_dAckTimeoutRetry'[q] >= 1,
         UNCHANGED <<state, pushed, sBegin, recvVars>>
  PROVE  IInv'
<1>1. PICK c \in 2 .. 2 * W, beat \in BOOLEAN, due \in SUBSET Slots :
        SendPackets(n, c, beat, due)
  BY DEF SendSome
<1>2. SendType' /\ \A q \in Node : SendSide(q)'
  BY <1>1, SendInv
<1>3. UdpType'
  <2>1. TypeOK'
    BY <1>2 DEF IInv, UdpType, TypeOK, SendType, recvVars
  <2> QED
    BY <1>2, <2>1 DEF IInv, UdpType, SendType, recvVars
<1>4. ASSUME NEW q \in Node PROVE Direction(q)' /\ Buffers(q)' /\ Endpoint(q)'
  <2>1. SendSide(q)'
    BY <1>2
  <2>2. Filled(rBuf[q])' = Filled(rBuf[q])
    BY DEF Filled, recvVars
  <2>3. Buffers(q) /\ Endpoint(q)
    BY DEF IInv
  <2>4. Buffers(q)'
    BY <2>1, <2>2, <2>3 DEF SendSide, Buffers, recvVars
  <2>5. Endpoint(q)'
    BY <2>1, <2>3 DEF SendSide, Endpoint, recvVars
  <2> QED
    BY <2>1, <2>4, <2>5 DEF SendSide
<1> QED
  BY <1>3, <1>4 DEF IInv

\* A step that takes nothing from a window and adds nothing to the network: of
\* the application (pushed), of a receive call that finds no packet (rFree,
\* leaks), or of the network (net).
LEMMA QuietKeeps ==
  ASSUME IInv, UdpType',
         UNCHANGED <<state, taken, sendVars, rBegin, rEnd, rBuf, delivered,
                     m_dAckTimeoutRetry>>,
         \A q \in Node : /\ pushed[q] <= pushed'[q] /\ pushed'[q] <= MaxData[q]
                         /\ rFree'[q] + leaks'[q] = rFree[q] + leaks[q]
                         /\ leaks[q] <= leaks'[q]
                         /\ net'[q] \subseteq net[q]
  PROVE  IInv'
<1> SUFFICES ASSUME NEW q \in Node PROVE Direction(q)' /\ Buffers(q)' /\ Endpoint(q)'
  BY DEF IInv
<1>1. Direction(q) /\ Buffers(q) /\ Endpoint(q)
  BY DEF IInv
<1>2. Direction(q)'
  BY <1>1, DirectionKept DEF sendVars
<1>3. Buffers(q)'
  <2>1. Out(q)' = Out(q) /\ Filled(rBuf[q])' = Filled(rBuf[q])
    BY DEF Out, Filled, sendVars
  <2>2. Cardinality(Filled(rBuf[q])) \in Nat
    BY FilledFinite
  <2>3. /\ rFree[q] \in Nat /\ leaks[q] \in Nat /\ rFree'[q] \in Nat
        /\ leaks'[q] \in Nat
    BY DEF IInv, UdpType, TypeOK
  <2> QED
    BY <1>1, <2>1, <2>2, <2>3, Sizes DEF Buffers, sendVars
<1>4. Endpoint(q)'
  <2>1. taken[q] \in 0 .. MostData /\ pushed[q] \in 0 .. MostData
        /\ pushed'[q] \in 0 .. MostData
    BY DEF IInv, UdpType, TypeOK
  <2>2. taken[q] <= pushed'[q]
    BY <1>1, <2>1, MostDataIs DEF Endpoint
  <2> QED
    BY <1>1, <2>2 DEF Endpoint
<1> QED
  BY <1>2, <1>3, <1>4

LEMMA NextInv == IInv /\ [Next]_vars => IInv'
<1> SUFFICES ASSUME IInv, [Next]_vars PROVE IInv'
  OBVIOUS
<1>1. /\ TypeOK /\ net \in [Node -> SUBSET Packet] /\ delivered \in [Node -> Seq(Nat)]
  BY DEF IInv, UdpType
<1>2. CASE UNCHANGED vars
  <2>1. UdpType'
    BY <1>2 DEF IInv, UdpType, TypeOK, vars, sendVars, recvVars
  <2>2. \A q \in Node : pushed[q] \in Nat /\ pushed[q] <= MaxData[q]
                        /\ rFree[q] \in Nat /\ leaks[q] \in Nat
    BY <1>1, MostDataIs DEF IInv, TypeOK, Endpoint
  <2> QED
    BY <1>2, <2>1, <2>2, QuietKeeps DEF vars, recvVars
<1>3. ASSUME NEW n \in Node, Send(n) PROVE IInv'
  <2>1. pushed[n] + 1 \in 0 .. MostData /\ pushed[n] + 1 <= MaxData[n]
        /\ pushed[n] \in Nat
    BY <1>1, <1>3, MostDataIs DEF Send, TypeOK
  <2>2. pushed' \in [Node -> 0 .. MostData]
    BY <1>1, <1>3, <2>1 DEF Send, TypeOK
  <2>3. UdpType'
    BY <1>1, <1>3, <2>2 DEF Send, UdpType, TypeOK, sendVars, recvVars
  <2>4. \A q \in Node : /\ pushed[q] <= pushed'[q] /\ pushed'[q] <= MaxData[q]
                        /\ rFree[q] \in Nat /\ leaks[q] \in Nat
    <3> SUFFICES ASSUME NEW q \in Node
                 PROVE  /\ pushed[q] <= pushed'[q] /\ pushed'[q] <= MaxData[q]
                        /\ rFree[q] \in Nat /\ leaks[q] \in Nat
      OBVIOUS
    <3>1. pushed[q] \in Nat /\ rFree[q] \in Nat /\ leaks[q] \in Nat
      BY <1>1, MostDataIs DEF TypeOK
    <3>2. pushed[q] <= MaxData[q]
      BY DEF IInv, Endpoint
    <3>3. pushed' = [pushed EXCEPT ![n] = pushed[n] + 1]
      BY <1>3 DEF Send
    <3>4. q = n => pushed'[q] = pushed[n] + 1
      BY <1>1, <3>3 DEF TypeOK
    <3>5. q # n => pushed'[q] = pushed[q]
      BY <1>1, <3>3 DEF TypeOK
    <3> QED
      BY <2>1, <3>1, <3>2, <3>4, <3>5
  <2> QED
    BY <1>3, <2>3, <2>4, QuietKeeps DEF Send, recvVars
<1>4. ASSUME NEW n \in Node, PostSendInTime(n) PROVE IInv'
  <2>1. m_dAckTimeoutRetry' \in [Node -> 0 .. AckTimeoutRetry]
    BY <1>1, <1>4 DEF PostSendInTime, TypeOK
  <2> QED
    BY <1>4, <2>1, SendKeeps DEF PostSendInTime
<1>5. ASSUME NEW n \in Node, PostSendLate(n) PROVE IInv'
  <2>1. /\ m_dAckTimeoutRetry[n] \in 0 .. AckTimeoutRetry /\ AckTimeoutRetry \in Nat
        /\ m_dAckTimeoutRetry[n] >= 1
    BY <1>1, <1>5, UdpAssumption DEF IInv, Endpoint, TypeOK, PostSendLate
  <2>2. m_dAckTimeoutRetry[n] - 1 \in 0 .. AckTimeoutRetry
    BY <2>1
  <2>3. /\ m_dAckTimeoutRetry' \in [Node -> 0 .. AckTimeoutRetry]
        /\ m_dAckTimeoutRetry'[n] = m_dAckTimeoutRetry[n] - 1
        /\ \A q \in Node : q # n => m_dAckTimeoutRetry'[q] = m_dAckTimeoutRetry[q]
    BY <1>1, <1>5, <2>2 DEF PostSendLate, TypeOK
  <2>4. CASE m_dAckTimeoutRetry[n] - 1 <= 0
    BY <1>5, <2>3, <2>4, CloseInv DEF PostSendLate, sendVars
  <2>5. CASE ~(m_dAckTimeoutRetry[n] - 1 <= 0)
    <3>1. m_dAckTimeoutRetry'[n] >= 1
      BY <2>1, <2>3, <2>5
    <3>2. UNCHANGED <<state, pushed, sBegin, recvVars>>
      BY <1>5, <2>5 DEF PostSendLate
    <3>3. CASE SendSome(n)
      BY <2>3, <3>1, <3>2, <3>3, SendKeeps
    <3>4. CASE UNCHANGED <<taken, sEnd, sBuf, sFree, m_bSendAck, net>>
      <4>1. UdpType'
        BY <1>1, <2>3, <3>2, <3>4 DEF UdpType, TypeOK, recvVars
      <4>2. ASSUME NEW q \in Node PROVE Direction(q)' /\ Buffers(q)' /\ Endpoint(q)'
        <5>1. Direction(q) /\ Buffers(q) /\ Endpoint(q)
          BY DEF IInv
        <5>2. Direction(q)'
          BY <3>2, <3>4, <5>1, DirectionKept DEF recvVars
        <5>3. Out(q)' = Out(q) /\ Filled(rBuf[q])' = Filled(rBuf[q])
          BY <3>2, <3>4 DEF Out, Filled, recvVars
        <5>4. Buffers(q)'
          BY <3>2, <3>4, <5>1, <5>3 DEF Buffers, recvVars
        <5>5. Endpoint(q)'
          BY <2>3, <3>1, <3>2, <3>4, <5>1 DEF Endpoint, recvVars
        <5> QED
          BY <5>2, <5>4, <5>5
      <4> QED
        BY <4>1, <4>2 DEF IInv
    <3> QED
      BY <1>5, <2>5, <3>3, <3>4 DEF PostSendLate
  <2> QED
    BY <2>4, <2>5
<1>6. ASSUME NEW n \in Node, PostSendFails(n) PROVE IInv'
  <2>1. m_dAckTimeoutRetry' \in [Node -> 0 .. AckTimeoutRetry]
    BY <1>1, <1>6 DEF PostSendFails, TypeOK
  <2> QED
    BY <1>6, <2>1, CloseInv DEF PostSendFails
<1>7. ASSUME NEW n \in Node, NEW p \in net[Peer(n)], OnRecv(n, p) PROVE IInv'
  <2>1. CASE rFree[n] = 0
    <3>1. Close(n, "starved") /\ leaks[n] > 0
      BY <1>7, <2>1, StarvedByLeak DEF OnRecv
    <3>2. m_dAckTimeoutRetry' \in [Node -> 0 .. AckTimeoutRetry]
      BY <1>1, <1>7, <2>1 DEF OnRecv, TypeOK
    <3> QED
      BY <1>7, <2>1, <3>1, <3>2, CloseInv DEF OnRecv
  <2>2. CASE rFree[n] # 0
    <3>1. rFree[n] > 0
      BY <1>1, <2>2, Sizes DEF TypeOK
    <3>2. PICK rest \in {net[Peer(n)], net[Peer(n)] \ {p}} :
            net' = [net EXCEPT ![Peer(n)] = rest,
                               ![n] = Alive(n, sBegin'[n], rBegin'[n])]
      BY <1>7, <2>2 DEF OnRecv
    <3>3. rest \in SUBSET net[Peer(n)]
      OBVIOUS
    <3>4. /\ state[n] = "est" /\ ProcessAck(n, p) /\ ProcessSyn(n, p)
          /\ UNCHANGED <<pushed, taken, leaks>>
      BY <1>7, <2>2 DEF OnRecv
    <3> QED
      BY <3>1, <3>2, <3>3, <3>4, OnRecvInv
  <2> QED
    BY <2>1, <2>2
<1>8. ASSUME NEW n \in Node, OnRecvAgain(n) PROVE IInv'
  <2>1. CASE rFree[n] = 0
    <3>1. Close(n, "starved") /\ leaks[n] > 0
      BY <1>8, <2>1, StarvedByLeak DEF OnRecvAgain
    <3>2. m_dAckTimeoutRetry' \in [Node -> 0 .. AckTimeoutRetry]
      BY <1>1, <1>8 DEF OnRecvAgain, TypeOK
    <3> QED
      BY <1>8, <2>1, <3>1, <3>2, CloseInv DEF OnRecvAgain, recvVars
  <2>2. CASE rFree[n] # 0
    <3>1. /\ rFree' = [rFree EXCEPT ![n] = rFree[n] - 1]
          /\ leaks' = [leaks EXCEPT ![n] = leaks[n] + 1]
          /\ UNCHANGED state
      BY <1>8, <2>2 DEF OnRecvAgain
    <3>2. /\ rFree[n] \in 0 .. W /\ leaks[n] \in 0 .. W
          /\ Cardinality(Filled(rBuf[n])) \in 0 .. W
          /\ rFree[n] + Cardinality(Filled(rBuf[n])) + leaks[n] = W
      BY <1>1, FilledFinite DEF IInv, Buffers, TypeOK
    <3>3. rFree[n] - 1 \in 0 .. W /\ leaks[n] + 1 \in 0 .. W
      BY <2>2, <3>2, Sizes
    <3>4. rFree' \in [Node -> 0 .. W] /\ leaks' \in [Node -> 0 .. W]
      BY <1>1, <3>1, <3>3 DEF TypeOK
    <3>5. UdpType'
      BY <1>1, <1>8, <3>1, <3>4 DEF OnRecvAgain, UdpType, TypeOK, sendVars
    <3>6. ASSUME NEW q \in Node
          PROVE  rFree'[q] + leaks'[q] = rFree[q] + leaks[q] /\ leaks[q] <= leaks'[q]
      <4>1. rFree[q] \in Nat /\ leaks[q] \in Nat
        BY <1>1 DEF TypeOK
      <4>2. CASE q = n
        BY <1>1, <3>1, <4>1, <4>2 DEF TypeOK
      <4>3. CASE q # n
        BY <1>1, <3>1, <4>1, <4>3 DEF TypeOK
      <4> QED
        BY <4>2, <4>3
    <3>7. \A q \in Node : pushed[q] \in Nat /\ pushed[q] <= MaxData[q]
      BY <1>1, MostDataIs DEF IInv, TypeOK, Endpoint
    <3> QED
      BY <1>8, <3>1, <3>5, <3>6, <3>7, QuietKeeps DEF OnRecvAgain
  <2> QED
    BY <2>1, <2>2
<1>9. ASSUME NEW n \in Node, OnRecvFails(n) PROVE IInv'
  <2>1. m_dAckTimeoutRetry' \in [Node -> 0 .. AckTimeoutRetry]
    BY <1>1, <1>9 DEF OnRecvFails, TypeOK
  <2> QED
    BY <1>9, <2>1, CloseInv DEF OnRecvFails
<1>10. ASSUME NEW n \in Node, Lose(n) PROVE IInv'
  <2>1. PICK p \in net[n] : net' = [net EXCEPT ![n] = net[n] \ {p}]
    BY <1>10 DEF Lose
  <2>2. net' \in [Node -> SUBSET Packet] /\ \A q \in Node : net'[q] \subseteq net[q]
    BY <1>1, <2>1
  <2>3. UdpType'
    BY <1>1, <1>10, <2>2 DEF Lose, UdpType, TypeOK, sendVars, recvVars
  <2>4. \A q \in Node : /\ pushed[q] \in Nat /\ pushed[q] <= MaxData[q]
                        /\ rFree[q] \in Nat /\ leaks[q] \in Nat
    BY <1>1, MostDataIs DEF IInv, TypeOK, Endpoint
  <2> QED
    BY <1>10, <2>2, <2>3, <2>4, QuietKeeps DEF Lose, recvVars
<1> QED
  BY <1>2, <1>3, <1>4, <1>5, <1>6, <1>7, <1>8, <1>9, <1>10 DEF Next

LEMMA Invariance == Spec => []IInv
<1> QED
  BY InitInv, NextInv, PTL DEF Spec

-----------------------------------------------------------------------------
(* The theorems.                                                           *)

\* Every variable of the two endpoints (m_oSendWindow, m_oRecvWindow and the
\* rest) keeps its kind: numbers stay bytes, counts of buffers stay within the
\* window, and only well-formed packets are in flight.
THEOREM TypeCorrect == Spec => []TypeOK
<1>1. IInv => TypeOK
  BY DEF IInv, UdpType
<1> QED
  BY <1>1, Invariance, PTL

\* Whatever the order of PostSend, OnRecv and losses, the free lists of both
\* windows account for every buffer, and OnRecv runs out of receive buffers only
\* when calls that found no packet have leaked one.
THEOREM BuffersCorrect == Spec => []BuffersConserved
<1>1. IInv => BuffersConserved
  <2> SUFFICES ASSUME IInv, NEW n \in Node
               PROVE  /\ sFree[n] + Count(sBegin[n], sEnd[n]) = W
                      /\ rFree[n] + Cardinality({i \in Slots : rBuf[n][i] # NoBuffer})
                           + leaks[n] = W
                      /\ state[n] = "starved" \/ (state[n] = "est" /\ rFree[n] = 0)
                           => leaks[n] > 0
    BY DEF BuffersConserved
  <2>1. Buffers(n)
    BY DEF IInv
  <2> QED
    BY <2>1, StarvedByLeak DEF Buffers, Out, Filled
<1> QED
  BY <1>1, Invariance, PTL

\* m_btBegin of the sender never passes m_btBegin of the receiver, nor that the
\* sender's m_btEnd: OnRecv frees a buffer of the send window only when the peer
\* has its packet, although an ack is one byte that wraps.
THEOREM WindowsAgreeCorrect == Spec => []WindowsAgree
<1>1. IInv => WindowsAgree
  BY DEF IInv, Direction, WindowsAgree, Out, Got
<1> QED
  BY <1>1, Invariance, PTL

\* What OnRecv copies to the receive buffer is the stream PostSend has taken from
\* the send buffer of the other side, in order, without a gap or a repetition.
THEOREM InOrderOnceCorrect == Spec => []InOrderOnce
<1>1. IInv => InOrderOnce
  <2> SUFFICES ASSUME IInv, NEW n \in Node
               PROVE  /\ Len(delivered[n]) <= taken[Peer(n)]
                      /\ \A i \in 1 .. Len(delivered[n]) : delivered[n][i] = i
    BY DEF InOrderOnce
  <2> DEFINE q == Peer(n)
  <2>1. q \in Node /\ Peer(q) = n
    BY Peers
  <2>2. Out(q) \in 0 .. W /\ Got(q) \in 0 .. Out(q) /\ taken[q] \in Nat
    BY <2>1, View
  <2>3. Arrived(sBegin[q], Out(q), Got(q), taken[q], sBuf[q], delivered[n])
    BY <2>1 DEF IInv, Direction, Flow
  <2> HIDE DEF q
  <2>4. Len(delivered[n]) <= taken[q]
    BY <2>2, <2>3, Sizes DEF Arrived
  <2> QED
    BY <2>3, <2>4 DEF Arrived, q
<1> QED
  BY <1>1, Invariance, PTL
=============================================================================
