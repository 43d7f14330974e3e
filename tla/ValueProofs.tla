---------------------------- MODULE ValueProofs -----------------------------
(***************************************************************************)
(* Proofs about the lengths of events and about the fallback clock, for    *)
(* all lengths and all times.                                              *)
(***************************************************************************)
EXTENDS EventFrame, TimeSource, TLAPS

\* The heads have some size.
HeadSizes == SendHead \in Nat /\ RecvHead \in Nat

-----------------------------------------------------------------------------
\* A sum that fits in 16 bits is kept, and any other one gets shorter.
LEMMA Cut ==
  ASSUME NEW x \in Nat
  PROVE  /\ x % Width \in 0..Width-1
         /\ x < Width => x % Width = x
         /\ x >= Width => x % Width < x
<1>1. Width \in Nat /\ Width > 0
  BY DEF Width
<1>2. x < Width => x % Width = x
  BY DEF Width
<1>3. x >= Width => x % Width < x
  BY DEF Width
<1> HIDE DEF Width
<1>4. x % Width \in 0..Width-1
  BY <1>1
<1> QED BY <1>2, <1>3, <1>4, Zenon

\* A length by itself fits.
LEMMA LengthKept == \A n \in Length : n \in Nat /\ n % Width = n
<1>1. MaxDatagram \in Nat /\ Width \in Nat /\ MaxDatagram < Width
  BY DEF MaxDatagram, Width
<1>2. \A n \in Length : n \in Nat /\ n < Width
  <2> SUFFICES ASSUME NEW n \in Length PROVE n \in Nat /\ n < Width
    OBVIOUS
  <2>1. n \in Nat /\ n <= MaxDatagram
    BY <1>1 DEF Length
  <2> HIDE DEF MaxDatagram, Width
  <2> QED BY <1>1, <2>1
<1> QED BY <1>2, Cut

\* The proxy gets a datagram of an application whole exactly if the event is
\* shorter than 2^16 bytes.  A longer one is sent all the same, with lengths
\* that reach beyond its end.
THEOREM RequestIsWhole ==
  ASSUME HeadSizes, NEW ud \in Length, NEW len \in Length
  PROVE  Whole(createUdpSendEvent(ud, len), SendHead) <=> SendHead + ud + len < Width
<1> DEFINE x == SendHead + ud + len
           f == createUdpSendEvent(ud, len)
<1>1. x = SendHead + ud + len /\ x \in Nat /\ SendHead \in Nat /\ ud \in Nat /\ len \in Nat
  <2>1. ud \in Nat /\ len \in Nat
    BY LengthKept
  <2> QED BY <2>1 DEF HeadSizes
<1>2. f.totallen = x % Width /\ f.udlen = ud /\ f.datalen = len
  BY LengthKept DEF createUdpSendEvent
<1>3. Width \in Nat
  BY DEF Width
<1> HIDE DEF x, f
<1>4. x <= x % Width <=> x < Width
  BY <1>1, <1>3, Cut
<1>5. Whole(f, SendHead) <=> x <= x % Width
  BY <1>1, <1>2 DEF Whole
<1> QED BY <1>1, <1>4, <1>5 DEF f

\* A whole event is sent if it fits in a datagram, and dropped otherwise: the
\* one lost range is between the datagram's limit and 2^16.
THEOREM WholeIsSent ==
  ASSUME HeadSizes, NEW ud \in Length, NEW len \in Length,
         Whole(createUdpSendEvent(ud, len), SendHead)
  PROVE  Sent(createUdpSendEvent(ud, len)) <=> SendHead + ud + len <= MaxDatagram
<1>1. SendHead + ud + len < Width /\ SendHead + ud + len \in Nat
  <2>1. ud \in Nat /\ len \in Nat
    BY LengthKept
  <2>2. SendHead + ud + len \in Nat
    BY <2>1 DEF HeadSizes
  <2> QED BY <2>2, RequestIsWhole
<1>2. createUdpSendEvent(ud, len).totallen = SendHead + ud + len
  BY <1>1, Cut DEF createUdpSendEvent
<1> QED BY <1>2 DEF Sent

\* The memory of the proxy's event holds an answer exactly if head, user data
\* and answer are shorter than 2^16 bytes together.
THEOREM AnswerFits ==
  ASSUME HeadSizes, NEW ud \in Length, NEW len \in Length
  PROVE  RecvHead + ud + len <= onUdpRecv(ud, len).memory <=> RecvHead + ud + len < Width
<1> DEFINE x == RecvHead + ud + len
<1>1. x \in Nat /\ Width \in Nat
  <2>1. ud \in Nat /\ len \in Nat
    BY LengthKept
  <2> QED BY <2>1 DEF HeadSizes, Width
<1>2. onUdpRecv(ud, len).memory = x % Width
  BY DEF onUdpRecv
<1> HIDE DEF x
<1>3. x <= x % Width <=> x < Width
  BY <1>1, Cut
<1> QED BY <1>2, <1>3 DEF x

-----------------------------------------------------------------------------
\* Until timeGetTime has wrapped, the fallback clock is exact: tick's delay of
\* a few milliseconds is made up for, also where a block ends in between.
THEOREM ExactBeforeWrap ==
  ASSUME NEW tick \in Nat, NEW time \in Nat, Distance(tick, time) < 2048
  PROVE  TimeGetTime64(tick, time) = time
<1> DEFINE q == tick \div 4096
           r == tick % 4096
           u == time \div 4096
           v == time % 4096
<1>1. /\ tick = 4096 * q + r /\ r \in 0..4095 /\ q \in Nat
      /\ time = 4096 * u + v /\ v \in 0..4095 /\ u \in Nat
  OBVIOUS
<1> HIDE DEF q, r, u, v
<1>2. u = q \/ u = q + 1 \/ u = q - 1
  BY <1>1 DEF Distance
<1>3. Joined(tick, time) = 4096 * q + v
  <2>1. Joined(tick, time) = (tick - r) + v
    BY DEF Joined, Block, r, v
  <2> QED BY <1>1, <2>1
<1> QED BY <1>1, <1>2, <1>3 DEF TimeGetTime64, Distance, Block

\* Once it has wrapped, nothing is corrected any more: the result is tick's
\* block with the exact low part, which is a block off while the true time is
\* in the next block already.
THEOREM BlockOffAfterWrap ==
  ASSUME NEW m \in Nat, m > 2, Wrap = 4096 * m,
         NEW tick \in Nat, NEW now \in Nat, tick >= Wrap,
         tick <= now, now - tick < 2048, tick \div Block # now \div Block
  PROVE  TimeGetTime64(tick, now % Wrap) = now - Block
<1> DEFINE q == tick \div 4096
           r == tick % 4096
           u == now \div 4096
           v == now % 4096
           k == now \div Wrap
           w == now % Wrap
<1>1. /\ tick = 4096 * q + r /\ r \in 0..4095 /\ q \in Nat
      /\ now = 4096 * u + v /\ v \in 0..4095 /\ u \in Nat
  <2>1. tick = 4096 * q + r /\ r \in 0..4095 /\ q \in Nat
    OBVIOUS
  <2>2. now = 4096 * u + v /\ v \in 0..4095 /\ u \in Nat
    OBVIOUS
  <2> QED BY <2>1, <2>2
<1>2. Wrap \in Nat /\ Wrap > 8192
  OBVIOUS
<1>3. now = Wrap * k + w /\ w \in 0..Wrap-1 /\ k \in Nat
  BY <1>2
<1>4. u = q + 1
  BY <1>1 DEF Block
<1>5. k >= 1
  <2> HIDE DEF k, w
  <2>1. CASE k = 0
    BY <1>2, <1>3, <2>1
  <2> QED BY <1>3, <2>1
<1> HIDE DEF k
<1>6. w <= now - Wrap
  <2>1. Wrap * k >= Wrap
    BY <1>2, <1>3, <1>5
  <2> HIDE DEF w
  <2> QED BY <1>2, <1>3, <2>1
<1>7. w % 4096 = v
  <2> DEFINE h == m * k
  <2>1. now = 4096 * h + w /\ h \in Nat
    BY <1>3
  <2> HIDE DEF w, h
  <2>2. w \in Nat
    BY <1>2, <1>3
  <2>3. (4096 * h + w) % 4096 = w % 4096
    BY <2>1, <2>2
  <2> QED BY <2>1, <2>3
<1> HIDE DEF q, r, u, v, w
<1>8. Joined(tick, w) = 4096 * q + v
  <2>1. Joined(tick, w) = (tick - r) + v
    BY <1>7 DEF Joined, Block, r
  <2> QED BY <1>1, <2>1
<1>9. Distance(Joined(tick, w), tick) <= Distance(tick, w)
  BY <1>1, <1>2, <1>3, <1>6, <1>8 DEF Distance
<1>10. TimeGetTime64(tick, w) = 4096 * q + v
  BY <1>8, <1>9 DEF TimeGetTime64
<1>11. 4096 * q + v = now - 4096
  BY <1>1, <1>4
<1> QED BY <1>10, <1>11 DEF Block, w

=============================================================================
