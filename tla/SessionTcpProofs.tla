-------------------------- MODULE SessionTcpProofs --------------------------
(***************************************************************************)
(* Proofs about SessionTcp, for any buffer size, any width of the size     *)
(* that exceeds it, and any number of bytes.  Sends to the application are *)
(* whole (UpOnly): after a partial one the code loses bytes, as the run    *)
(* session_short_write shows.  Partial sends to the server are allowed.    *)
(*                                                                         *)
(* The argument is made for one direction at a time: a handler changes the *)
(* buffer and the operations of its own direction only, and what it leaves *)
(* of them is consistent again (Flow).                                     *)
(***************************************************************************)
EXTENDS SessionTcp, SequenceTheorems, TLAPS

UpOnly == ShortWrites \subseteq {"up"}

Ranges == [pos : 0..Cap, size : 0..Cap]

Types ==
  /\ peer \in [Side -> {"open", "fin", "reset"}]
  /\ sent \in [Dir -> 0..MaxBytes] /\ taken \in [Dir -> 0..MaxBytes]
  /\ reads \in [Dir -> 0..1] /\ writes \in [Dir -> Seq(Ranges)]
  /\ buf \in [Dir -> [0..Cap-1 -> 0..MaxBytes]]
  /\ pos \in [Dir -> 0..Cap] /\ size \in [Dir -> 0..Cap]
  /\ out \in [Dir -> Seq(Nat)] /\ closed \in [Side -> BOOLEAN]

\* The bytes numbered 1 to n.
FirstBytes(n) == [i \in 1..n |-> i]

\* One direction: its only operation, its buffer, and what it has handed on.
Flow(d) ==
  /\ writes[d] = <<>> \/ /\ writes[d] = <<[pos |-> pos[d], size |-> size[d]]>>
                         /\ reads[d] = 0 /\ size[d] > 0
  /\ reads[d] = 1 => pos[d] = 0 /\ size[d] = 0
  /\ pos[d] + size[d] <= Cap
  /\ out[d] = FirstBytes(taken[d] - size[d])
  /\ size[d] <= taken[d] /\ taken[d] <= sent[d]
  /\ \A i \in 0..size[d]-1 : buf[d][pos[d] + i] = (taken[d] - size[d]) + i + 1

Flows == \A d \in Dir : Flow(d)

\* If one side alone is closed, its peer has reset the connection, or has ended
\* it and all that it sent is handed on.
Drained == \A d \in Dir :
  closed[Source(d)] /\ ~closed[Sink(d)] =>
    \/ peer[Source(d)] = "reset"
    \/ /\ peer[Source(d)] = "fin" /\ taken[d] = sent[d] /\ size[d] = 0
       /\ reads[d] = 0 /\ writes[d] = <<>>

IInv == Types /\ Flows /\ Drained

\* The state of direction d alone.
Same(d) ==
  /\ sent'[d] = sent[d] /\ taken'[d] = taken[d] /\ reads'[d] = reads[d]
  /\ writes'[d] = writes[d] /\ buf'[d] = buf[d] /\ pos'[d] = pos[d]
  /\ size'[d] = size[d] /\ out'[d] = out[d]

-----------------------------------------------------------------------------
(* Facts about the constants, about remainders and about sequences.        *)

\* The two ends of a direction.
LEMMA Ends ==
  /\ \A d \in Dir : Source(d) \in Side /\ Sink(d) \in Side /\ Source(d) # Sink(d)
  /\ \A d, e \in Dir : d # e => Source(d) = Sink(e) /\ Sink(d) = Source(e)
  /\ \A s \in Side : \E d \in Dir : s = Source(d)
  BY DEF Source, Sink, Dir, Side

\* A size below SizeMod is kept, also when SizeMod is added to it first.
LEMMA Kept ==
  ASSUME NEW m \in Nat, m < SizeMod
  PROVE  m % SizeMod = m /\ (m + SizeMod) % SizeMod = m
<1>1. SizeMod \in Nat /\ SizeMod > 0
  BY SizeAssumption
<1> QED BY <1>1

\* Bytes that continue the first ones make the first ones longer.
LEMMA Continued ==
  ASSUME NEW a \in Nat, NEW n \in Nat, NEW f \in [1..n -> Nat],
         \A i \in 1..n : f[i] = a + i
  PROVE  /\ FirstBytes(a) \in Seq(Nat) /\ Len(FirstBytes(a)) = a
         /\ FirstBytes(a) \o f = FirstBytes(a + n)
<1>1. \A m \in Nat : FirstBytes(m) \in Seq(Nat) /\ Len(FirstBytes(m)) = m
  BY DEF FirstBytes
<1>2. f \in Seq(Nat) /\ Len(f) = n
  OBVIOUS
<1>3. /\ FirstBytes(a) \o f \in Seq(Nat) /\ Len(FirstBytes(a) \o f) = a + n
      /\ \A i \in 1..a + n : (FirstBytes(a) \o f)[i] =
                            IF i <= a THEN FirstBytes(a)[i] ELSE f[i - a]
  <2>1. FirstBytes(a) \in Seq(Nat) /\ Len(FirstBytes(a)) = a
    BY <1>1
  <2> DEFINE g == FirstBytes(a)
  <2>2. g \in Seq(Nat) /\ Len(g) = a
    BY <2>1
  <2> HIDE DEF g
  <2>3. /\ g \o f \in Seq(Nat) /\ Len(g \o f) = Len(g) + Len(f)
        /\ \A i \in 1..Len(g) + Len(f) :
             (g \o f)[i] = IF i <= Len(g) THEN g[i] ELSE f[i - Len(g)]
    BY <1>2, <2>2, ConcatProperties
  <2>4. /\ g \o f \in Seq(Nat) /\ Len(g \o f) = a + n
        /\ \A i \in 1..a + n : (g \o f)[i] = IF i <= a THEN g[i] ELSE f[i - a]
    BY <1>2, <2>2, <2>3
  <2> QED BY <2>4 DEF g
<1>4. \A i \in 1..a + n : (FirstBytes(a) \o f)[i] = i
  <2> TAKE i \in 1..a + n
  <2>1. CASE i <= a
    BY <1>3, <2>1 DEF FirstBytes
  <2>2. CASE i > a
    <3>1. i - a \in 1..n
      BY <2>2
    <3>2. f[i - a] = a + (i - a)
      BY <3>1
    <3>3. (FirstBytes(a) \o f)[i] = f[i - a]
      BY <1>3, <2>2
    <3>4. a + (i - a) = i
      BY <3>1
    <3> QED BY ONLY <3>2, <3>3, <3>4
  <2>3. i <= a \/ i > a
    OBVIOUS
  <2> QED BY ONLY <2>1, <2>2, <2>3
<1>5. \A i \in 1..a + n : FirstBytes(a + n)[i] = i
  BY DEF FirstBytes
<1>6. FirstBytes(a) \o f = FirstBytes(a + n)
  <2>1. FirstBytes(a + n) \in Seq(Nat) /\ Len(FirstBytes(a + n)) = a + n
    BY <1>1
  <2> HIDE DEF FirstBytes
  <2> QED BY <1>3, <1>4, <1>5, <2>1, SeqEqual
<1> QED BY <1>1, <1>6

\* What the operations of d leave alone stays consistent.
LEMMA FlowKept == ASSUME NEW d \in Dir, Flow(d), Same(d) PROVE Flow(d)'
  BY DEF Flow, Same

\* The invariant holds initially.
LEMMA Initially == Init => IInv
<1> SUFFICES ASSUME Init PROVE IInv
  OBVIOUS
<1>1. /\ 0 \in 0..Cap /\ 0 \in 0..MaxBytes /\ <<>> \in Seq(Ranges) /\ <<>> \in Seq(Nat)
      /\ [i \in 0..Cap-1 |-> 0] \in [0..Cap-1 -> 0..MaxBytes] /\ 1 \in 0..1
  BY SizeAssumption
<1>2. Types
  BY <1>1 DEF Init, Types
<1>3. FirstBytes(0) = <<>>
  BY DEF FirstBytes
<1>4. Flows
  BY <1>3, SizeAssumption DEF Init, Flows, Flow
<1>5. Drained
  BY Ends DEF Init, Drained
<1> QED BY <1>2, <1>4, <1>5 DEF IInv

-----------------------------------------------------------------------------
(* The handlers.                                                           *)

\* A read that completes fills the empty buffer from its beginning, and the
\* write that it starts is the direction's only operation.
LEMMA ReadDoneStep ==
  ASSUME IInv, NEW d \in Dir, NEW n \in 1..Cap, ReadDone(d, n)
  PROVE  Types' /\ Flows' /\ out' = out /\ closed' = closed
<1> USE DEF IInv, ReadDone, ReadCompletes, Ended
<1>1. /\ reads[d] = 1 /\ pos[d] = 0 /\ size[d] = 0 /\ writes[d] = <<>>
      /\ n \in Nat /\ n > 0 /\ n <= Cap /\ n \in 0..Cap /\ n <= sent[d] - taken[d]
      /\ taken[d] \in Nat /\ sent[d] \in 0..MaxBytes /\ Cap \in Nat /\ MaxBytes \in Nat
      /\ out[d] = FirstBytes(taken[d])
  <2>1. reads[d] = 1 /\ taken[d] \in 0..MaxBytes /\ sent[d] \in 0..MaxBytes
    BY SizeAssumption DEF Types
  <2>2. pos[d] = 0 /\ size[d] = 0 /\ writes[d] = <<>>
    <3>1. Flow(d)
      BY DEF Flows
    <3> QED BY <2>1, <3>1 DEF Flow
  <2>3. out[d] = FirstBytes(taken[d] - 0)
    BY <2>2 DEF Flows, Flow
  <2>4. taken[d] - 0 = taken[d]
    BY <2>1, SizeAssumption
  <2>5. n <= sent[d] - taken[d] /\ n \in Nat /\ n > 0 /\ n <= Cap
    BY SizeAssumption
  <2> QED BY <2>1, <2>2, <2>3, <2>4, <2>5, SizeAssumption
<1>2. (0 + n) % SizeMod = n
  BY <1>1, SizeAssumption, Kept
<1>3. size' = [size EXCEPT ![d] = n]
  BY <1>1, <1>2
<1>4. size'[d] = n
  BY <1>3 DEF Types
<1> DEFINE w == [pos |-> 0, size |-> n]
<1>5. w \in Ranges
  BY <1>1 DEF Ranges
<1>6. writes' = [writes EXCEPT ![d] = <<w>>]
  <2>1. writes' = [writes EXCEPT ![d] = Append(writes[d], [pos |-> pos[d], size |-> size'[d]])]
    OBVIOUS
  <2>2. Append(<<>>, w) = <<w>>
    OBVIOUS
  <2> QED BY <1>1, <1>4, <2>1, <2>2
<1>7. <<w>> \in Seq(Ranges)
  BY <1>5
<1> DEFINE b == Received(buf[d], taken[d], n)
<1>8. b \in [0..Cap-1 -> 0..MaxBytes] /\ \A i \in 0..n-1 : b[i] = taken[d] + i + 1
  <2>1. \A i \in 0..Cap-1 : i < n => taken[d] + i + 1 \in 0..MaxBytes
    BY <1>1
  <2>2. buf[d] \in [0..Cap-1 -> 0..MaxBytes]
    BY DEF Types
  <2> QED BY <1>1, <2>1, <2>2 DEF Received
<1>9. buf' = [buf EXCEPT ![d] = b] /\ pos' = pos /\ out' = out /\ closed' = closed
      /\ sent' = sent /\ peer' = peer
  OBVIOUS
<1>10. taken' = [taken EXCEPT ![d] = taken[d] + n] /\ taken[d] + n \in 0..MaxBytes
       /\ taken[d] + n <= sent[d]
  BY <1>1
<1>11. reads' = [reads EXCEPT ![d] = 0]
  BY <1>1
<1> HIDE DEF w, b, ReadDone, ReadCompletes
<1>12. Types'
  <2>1. peer' \in [Side -> {"open", "fin", "reset"}] /\ closed' \in [Side -> BOOLEAN]
        /\ out' \in [Dir -> Seq(Nat)] /\ sent' \in [Dir -> 0..MaxBytes]
    BY <1>9 DEF Types
  <2>2. reads' \in [Dir -> 0..1] /\ writes' \in [Dir -> Seq(Ranges)]
    BY <1>6, <1>7, <1>11 DEF Types
  <2>3. taken' \in [Dir -> 0..MaxBytes] /\ pos' \in [Dir -> 0..Cap] /\ size' \in [Dir -> 0..Cap]
    BY <1>1, <1>3, <1>9, <1>10 DEF Types
  <2>4. buf' \in [Dir -> [0..Cap-1 -> 0..MaxBytes]]
    BY <1>8, <1>9 DEF Types
  <2> QED BY <2>1, <2>2, <2>3, <2>4 DEF Types
<1>13. Flow(d)'
  <2>1. /\ reads'[d] = 0 /\ writes'[d] = <<w>> /\ pos'[d] = 0 /\ size'[d] = n
        /\ buf'[d] = b /\ taken'[d] = taken[d] + n /\ out'[d] = out[d] /\ sent'[d] = sent[d]
    BY <1>1, <1>4, <1>6, <1>9, <1>10, <1>11 DEF Types
  <2>2. (taken[d] + n) - n = taken[d] /\ n <= taken[d] + n /\ 0 + n <= Cap
    BY <1>1
  <2>3. \A i \in 0..n-1 : b[0 + i] = taken[d] + i + 1
    BY <1>1, <1>8
  <2> QED BY <1>1, <1>10, <2>1, <2>2, <2>3 DEF Flow, w
<1>14. \A e \in Dir : e # d => Same(e)
  BY <1>3, <1>6, <1>9, <1>10, <1>11 DEF Types, Same
<1> QED BY <1>9, <1>12, <1>13, <1>14, FlowKept DEF Flows

\* What a write that completes with n bytes is: the direction's only operation,
\* on all that the buffer holds.
LEMMA WriteDoneOf ==
  ASSUME IInv, UpOnly, NEW d \in Dir, NEW n \in 0..Cap, WriteDone(d, n)
  PROVE  /\ writes[d] = <<[pos |-> pos[d], size |-> size[d]]>> /\ reads[d] = 0
         /\ pos[d] \in Nat /\ size[d] \in Nat /\ taken[d] \in Nat /\ sent[d] \in Nat
         /\ n \in Nat /\ n > 0 /\ n <= size[d] /\ size[d] <= taken[d] /\ taken[d] <= sent[d]
         /\ pos[d] + size[d] <= Cap /\ Cap \in Nat /\ MaxBytes \in Nat
         /\ n # size[d] => d = "up"
         /\ ~closed[Sink(d)]
         /\ out' = [out EXCEPT ![d] = FirstBytes((taken[d] - size[d]) + n)]
<1> USE DEF IInv
<1>1. Flow(d)
  BY DEF Flows
<1>2. /\ pos[d] \in Nat /\ size[d] \in Nat /\ taken[d] \in Nat /\ sent[d] \in Nat
      /\ n \in Nat /\ Cap \in Nat /\ MaxBytes \in Nat /\ taken[d] \in 0..MaxBytes
  BY SizeAssumption DEF Types
<1>3. writes[d] # <<>> /\ ~closed[Sink(d)]
  BY DEF WriteDone, WriteCompletes
<1>4. /\ writes[d] = <<[pos |-> pos[d], size |-> size[d]]>> /\ reads[d] = 0 /\ size[d] > 0
      /\ pos[d] + size[d] <= Cap /\ out[d] = FirstBytes(taken[d] - size[d])
      /\ size[d] <= taken[d] /\ taken[d] <= sent[d]
      /\ \A i \in 0..size[d]-1 : buf[d][pos[d] + i] = (taken[d] - size[d]) + i + 1
  BY <1>1, <1>3 DEF Flow
<1>5. Head(writes[d]).pos = pos[d] /\ Head(writes[d]).size = size[d]
  BY <1>4
<1>6. /\ n = size[d] \/ (d \in ShortWrites /\ n \in 1..size[d])
      /\ out' = [out EXCEPT ![d] = out[d] \o [i \in 1..n |-> buf[d][pos[d] + i - 1]]]
  BY <1>5 DEF WriteDone, WriteCompletes
<1>7. n > 0 /\ n <= size[d] /\ (n # size[d] => d = "up")
  <2>1. d \in ShortWrites => d = "up"
    BY DEF UpOnly
  <2>2. n = size[d] \/ (d \in ShortWrites /\ n \in 1..size[d])
    BY <1>6
  <2>3. CASE n = size[d]
    BY ONLY <1>2, <1>4, <2>3
  <2>4. CASE d \in ShortWrites /\ n \in 1..size[d]
    <3>1. d = "up"
      BY <2>1, <2>4
    <3>2. n > 0 /\ n <= size[d]
      BY ONLY <1>2, <2>4
    <3> QED BY ONLY <3>1, <3>2
  <2> QED BY ONLY <2>2, <2>3, <2>4
<1> DEFINE a == taken[d] - size[d]
           f == [i \in 1..n |-> buf[d][pos[d] + i - 1]]
<1>8. a \in Nat
  BY <1>2, <1>4
<1>9. \A i \in 1..n : f[i] = a + i
  <2> TAKE i \in 1..n
  <2>1. i - 1 \in 0..size[d]-1 /\ pos[d] + (i - 1) = pos[d] + i - 1 /\ a + (i - 1) + 1 = a + i
    BY <1>2, <1>7, <1>8
  <2> QED BY <1>4, <2>1
<1>10. f \in [1..n -> Nat]
  BY <1>2, <1>8, <1>9
<1>11. FirstBytes(a) \o f = FirstBytes(a + n)
  <2> HIDE DEF a, f
  <2> QED BY <1>2, <1>8, <1>9, <1>10, Continued
<1> QED BY <1>2, <1>3, <1>4, <1>6, <1>7, <1>11

\* A write that completes hands on the next bytes.  With all of them written
\* the buffer is empty and the direction reads again, else the rest is written.
LEMMA WriteDoneStep ==
  ASSUME IInv, UpOnly, NEW d \in Dir, NEW n \in 0..Cap, WriteDone(d, n)
  PROVE  Types' /\ Flows' /\ closed' = closed /\ peer' = peer /\ sent' = sent
         /\ taken' = taken /\ \A e \in Dir : e # d => Same(e)
<1> USE DEF IInv
<1>1. /\ writes[d] = <<[pos |-> pos[d], size |-> size[d]]>> /\ reads[d] = 0
      /\ pos[d] \in Nat /\ size[d] \in Nat /\ taken[d] \in Nat /\ sent[d] \in Nat
      /\ n \in Nat /\ n > 0 /\ n <= size[d] /\ size[d] <= taken[d] /\ taken[d] <= sent[d]
      /\ pos[d] + size[d] <= Cap /\ Cap \in Nat /\ MaxBytes \in Nat
      /\ n # size[d] => d = "up"
      /\ out' = [out EXCEPT ![d] = FirstBytes((taken[d] - size[d]) + n)]
  BY WriteDoneOf
<1>2. closed' = closed /\ peer' = peer /\ sent' = sent /\ taken' = taken /\ buf' = buf
  BY DEF WriteDone, WriteCompletes
<1>3. FirstBytes((taken[d] - size[d]) + n) \in Seq(Nat)
  <2>1. (taken[d] - size[d]) + n \in Nat
    BY <1>1
  <2> QED BY <2>1 DEF FirstBytes
<1>4. Flow(d)
  BY DEF Flows
<1>5. Tail(writes[d]) = <<>>
  BY <1>1
<1> DEFINE k == size[d] - n
<1>6. CASE n = size[d]
  <2>1. /\ pos' = [pos EXCEPT ![d] = 0] /\ size' = [size EXCEPT ![d] = 0]
        /\ writes' = [writes EXCEPT ![d] = <<>>] /\ reads' = [reads EXCEPT ![d] = 1]
    BY <1>1, <1>5, <1>6 DEF WriteDone, WriteCompletes, Started
  <2>2. Types'
    <3>1. <<>> \in Seq(Ranges) /\ 0 \in 0..Cap /\ 1 \in 0..1
      BY <1>1
    <3> QED BY <1>1, <1>2, <1>3, <2>1, <3>1 DEF Types
  <2>3. Flow(d)'
    <3>1. /\ reads'[d] = 1 /\ writes'[d] = <<>> /\ pos'[d] = 0 /\ size'[d] = 0
          /\ taken'[d] = taken[d] /\ sent'[d] = sent[d]
          /\ out'[d] = FirstBytes((taken[d] - size[d]) + n)
      BY <1>1, <1>2, <2>1 DEF Types
    <3>2. (taken[d] - size[d]) + n = taken[d] - 0 /\ 0 + 0 <= Cap /\ 0 <= taken[d]
      BY <1>1, <1>6
    <3> QED BY <1>1, <3>1, <3>2 DEF Flow
  <2>4. \A e \in Dir : e # d => Same(e)
    BY <1>1, <1>2, <2>1 DEF Types, Same
  <2> QED BY <1>2, <2>2, <2>3, <2>4, FlowKept DEF Flows
<1>7. CASE n # size[d]
  <2>1. k \in Nat /\ k > 0 /\ k <= Cap /\ k < SizeMod /\ size[d] + SizeMod - n = k + SizeMod
    BY <1>1, <1>7, SizeAssumption
  <2>2. (size[d] + SizeMod - n) % SizeMod = k
    <3> HIDE DEF k
    <3> QED BY <2>1, Kept
  <2>3. /\ pos' = [pos EXCEPT ![d] = pos[d] + n] /\ size' = [size EXCEPT ![d] = k]
    BY <1>1, <1>7, <2>2 DEF WriteDone, WriteCompletes
  <2>4. pos[d] + n \in 0..Cap /\ k \in 0..Cap /\ (pos[d] + n) + k <= Cap
    BY <1>1, <2>1
  <2> DEFINE w == [pos |-> pos[d] + n, size |-> k]
  <2>5. pos'[d] = pos[d] + n /\ size'[d] = k
    BY <2>3 DEF Types
  <2>6. writes' = [writes EXCEPT ![d] = <<w>>] /\ reads' = reads
    <3> HIDE DEF k
    <3>1. reads' = reads /\ writes' = [[writes EXCEPT ![d] = Tail(writes[d])] EXCEPT ![d] =
              Append([writes EXCEPT ![d] = Tail(writes[d])][d], [pos |-> pos'[d], size |-> size'[d]])]
      BY <1>1, <1>7 DEF WriteDone, WriteCompletes
    <3>2. [writes EXCEPT ![d] = Tail(writes[d])][d] = <<>>
      BY <1>5 DEF Types
    <3>3. Append(<<>>, w) = <<w>>
      OBVIOUS
    <3> QED BY <2>5, <3>1, <3>2, <3>3 DEF Types
  <2>7. w \in Ranges /\ <<w>> \in Seq(Ranges)
    BY <2>4 DEF Ranges
  <2> HIDE DEF w
  <2>8. Types'
    BY <1>1, <1>2, <1>3, <2>3, <2>4, <2>6, <2>7 DEF Types
  <2>9. Flow(d)'
    <3>1. /\ reads'[d] = 0 /\ writes'[d] = <<w>> /\ buf'[d] = buf[d]
          /\ taken'[d] = taken[d] /\ sent'[d] = sent[d]
          /\ out'[d] = FirstBytes((taken[d] - size[d]) + n)
      BY <1>1, <1>2, <2>6 DEF Types
    <3>2. (taken[d] - size[d]) + n = taken[d] - k /\ k <= taken[d]
      BY <1>1
    <3>3. \A i \in 0..k-1 : buf[d][(pos[d] + n) + i] = (taken[d] - k) + i + 1
      <4> TAKE i \in 0..k-1
      <4>1. /\ n + i \in 0..size[d]-1 /\ pos[d] + (n + i) = (pos[d] + n) + i
            /\ (taken[d] - size[d]) + (n + i) + 1 = (taken[d] - k) + i + 1
        BY <1>1, <2>1
      <4>2. buf[d][pos[d] + (n + i)] = (taken[d] - size[d]) + (n + i) + 1
        BY <1>4, <4>1 DEF Flow
      <4> QED BY <4>1, <4>2
    <3>4. w = [pos |-> pos'[d], size |-> size'[d]]
      BY <2>5 DEF w
    <3> HIDE DEF k
    <3> QED BY <1>1, <2>1, <2>4, <2>5, <3>1, <3>2, <3>3, <3>4 DEF Flow
  <2>10. \A e \in Dir : e # d => Same(e)
    BY <1>1, <1>2, <2>3, <2>6 DEF Types, Same
  <2> QED BY <1>2, <2>8, <2>9, <2>10, FlowKept DEF Flows
<1> QED BY <1>6, <1>7

\* A read that fails closes the side that it read from.  It was not the last
\* operation of its side unless all that the side sent is handed on.
LEMMA ReadFailsStep ==
  ASSUME IInv, NEW d \in Dir, ReadFails(d)
  PROVE  IInv' /\ out' = out /\ sent' = sent /\ \A s \in Side : closed[s] => closed'[s]
<1> USE DEF IInv
<1>1. /\ reads[d] = 1 /\ writes[d] = <<>> /\ size[d] = 0 /\ pos[d] = 0
      /\ reads' = [reads EXCEPT ![d] = 0]
  <2>1. reads[d] \in 0..1 /\ reads[d] > 0 /\ reads' = [reads EXCEPT ![d] = reads[d] - 1]
    BY DEF Types, ReadFails, ReadFailed, Ended
  <2>2. reads[d] = 1
    BY <2>1
  <2>3. Flow(d)
    BY DEF Flows
  <2>4. writes[d] = <<>> /\ size[d] = 0 /\ pos[d] = 0
    BY <2>2, <2>3 DEF Flow
  <2>5. reads' = [reads EXCEPT ![d] = 0]
    BY <2>1, <2>2
  <2> QED BY <2>2, <2>4, <2>5
<1>2. /\ closed[Source(d)] \/ peer[Source(d)] = "reset"
         \/ (peer[Source(d)] = "fin" /\ taken[d] = sent[d])
      /\ peer' = peer /\ sent' = sent /\ taken' = taken /\ writes' = writes
      /\ buf' = buf /\ pos' = pos /\ size' = size /\ out' = out
  BY DEF ReadFails, ReadFailed, buffers
<1>3. /\ closed' \in [Side -> BOOLEAN]
      /\ \A s \in Side : closed[s] => closed'[s]
      /\ closed'[Source(d)]
      /\ closed'[Sink(d)] \/ \A s \in Side : closed'[s] = (closed[s] \/ s = Source(d))
  <2>1. closed' = [s \in Side |-> closed[s] \/ s \in {Source(d)} \/ Over']
    BY DEF ReadFails, ReadFailed, Close
  <2>2. Over' \in BOOLEAN
    BY DEF Over
  <2> QED BY <2>1, <2>2, Ends DEF Types
<1>4. Types'
  BY <1>1, <1>2, <1>3 DEF Types
<1>5. Flows'
  <2>1. \A e \in Dir : e # d => Same(e)
    BY <1>1, <1>2 DEF Types, Same
  <2>2. Flow(d)'
    BY <1>1, <1>2 DEF Types, Flows, Flow
  <2> QED BY <2>1, <2>2, FlowKept DEF Flows
<1>6. Drained'
  <2> SUFFICES ASSUME NEW e \in Dir, closed'[Source(e)], ~closed'[Sink(e)]
               PROVE  \/ peer'[Source(e)] = "reset"
                      \/ /\ peer'[Source(e)] = "fin" /\ taken'[e] = sent'[e] /\ size'[e] = 0
                         /\ reads'[e] = 0 /\ writes'[e] = <<>>
    BY DEF Drained
  <2>1. e = d
    BY <1>3, Ends
  <2>2. closed[Source(d)] => peer[Source(d)] = "reset"
    BY <1>1, <1>3, <2>1, Ends DEF Drained
  <2>3. reads'[d] = 0
    BY <1>1 DEF Types
  <2> QED BY <1>1, <1>2, <2>1, <2>2, <2>3
<1> QED BY <1>2, <1>3, <1>4, <1>5, <1>6

\* A write that fails closes the side that it wrote to, whose peer has reset
\* the connection if it was open.
LEMMA WriteFailsStep ==
  ASSUME IInv, NEW d \in Dir, WriteFails(d)
  PROVE  IInv' /\ out' = out /\ sent' = sent /\ \A s \in Side : closed[s] => closed'[s]
<1> USE DEF IInv
<1>1. /\ writes[d] = <<[pos |-> pos[d], size |-> size[d]]>> /\ reads[d] = 0
      /\ writes' = [writes EXCEPT ![d] = <<>>]
  <2>1. writes[d] # <<>> /\ writes' = [writes EXCEPT ![d] = Tail(writes[d])]
    BY DEF WriteFails
  <2>2. writes[d] = <<[pos |-> pos[d], size |-> size[d]]>> /\ reads[d] = 0
    BY <2>1 DEF Flows, Flow
  <2>3. Tail(writes[d]) = <<>>
    BY <2>2
  <2> QED BY <2>1, <2>2, <2>3
<1>2. /\ closed[Sink(d)] \/ peer[Sink(d)] = "reset"
      /\ peer' = peer /\ sent' = sent /\ taken' = taken /\ reads' = reads
      /\ buf' = buf /\ pos' = pos /\ size' = size /\ out' = out
  BY DEF WriteFails, buffers
<1>3. /\ closed' \in [Side -> BOOLEAN]
      /\ \A s \in Side : closed[s] => closed'[s]
      /\ closed'[Sink(d)]
      /\ closed'[Source(d)] => closed'[Sink(d)]
  <2>1. closed' = [s \in Side |-> closed[s] \/ s \in {Sink(d)} \/ Over']
    BY DEF WriteFails, Close
  <2>2. Over' \in BOOLEAN
    BY DEF Over
  <2> QED BY <2>1, <2>2, Ends DEF Types
<1>4. Types'
  <2>1. <<>> \in Seq(Ranges)
    OBVIOUS
  <2> QED BY <1>1, <1>2, <1>3, <2>1 DEF Types
<1>5. Flows'
  <2>1. \A e \in Dir : e # d => Same(e)
    BY <1>1, <1>2 DEF Types, Same
  <2>2. Flow(d)'
    <3>1. Flow(d) /\ writes'[d] = <<>>
      BY <1>1 DEF Flows, Types
    <3> QED BY <1>1, <1>2, <3>1 DEF Flow
  <2> QED BY <2>1, <2>2, FlowKept DEF Flows
<1>6. Drained'
  <2> SUFFICES ASSUME NEW e \in Dir, closed'[Source(e)], ~closed'[Sink(e)]
               PROVE  \/ peer'[Source(e)] = "reset"
                      \/ /\ peer'[Source(e)] = "fin" /\ taken'[e] = sent'[e] /\ size'[e] = 0
                         /\ reads'[e] = 0 /\ writes'[e] = <<>>
    BY DEF Drained
  <2>1. e # d /\ Source(e) = Sink(d) /\ Sink(e) = Source(d) /\ ~closed[Sink(e)]
    BY <1>3, Ends
  <2>2. writes'[e] = writes[e]
    BY <1>1, <2>1 DEF Types
  <2>3. CASE closed[Source(e)]
    BY <1>2, <2>1, <2>2, <2>3 DEF Drained
  <2>4. CASE ~closed[Source(e)]
    BY <1>2, <2>1, <2>4
  <2> QED BY <2>3, <2>4
<1> QED BY <1>2, <1>3, <1>4, <1>5, <1>6

\* A handler that closes nothing keeps Drained: it runs on open sockets, and a
\* side that is drained has nothing outstanding.
LEMMA DrainedKept ==
  ASSUME Drained, NEW d \in Dir, closed' = closed, peer' = peer,
         ~closed[Source(d)] \/ writes[d] # <<>>,
         \A e \in Dir : e # d => Same(e)
  PROVE  Drained'
<1> SUFFICES ASSUME NEW e \in Dir, closed'[Source(e)], ~closed'[Sink(e)]
             PROVE  \/ peer'[Source(e)] = "reset"
                    \/ /\ peer'[Source(e)] = "fin" /\ taken'[e] = sent'[e] /\ size'[e] = 0
                       /\ reads'[e] = 0 /\ writes'[e] = <<>>
  BY DEF Drained
<1>1. CASE e = d
  BY <1>1 DEF Drained
<1>2. CASE e # d
  BY <1>2 DEF Drained, Same
<1> QED BY <1>1, <1>2

\* What a peer does.
LEMMA PeerSendsStep ==
  ASSUME IInv, NEW d \in Dir, PeerSends(d)
  PROVE  IInv' /\ ~closed[Source(d)] /\ sent' = [sent EXCEPT ![d] = @ + 1]
         /\ out' = out /\ closed' = closed
<1> USE DEF IInv
<1>1. /\ ~closed[Source(d)] /\ sent[d] < MaxBytes /\ sent' = [sent EXCEPT ![d] = sent[d] + 1]
      /\ peer' = peer /\ taken' = taken /\ reads' = reads /\ writes' = writes
      /\ buf' = buf /\ pos' = pos /\ size' = size /\ out' = out /\ closed' = closed
  BY DEF PeerSends, buffers
<1>2. sent[d] \in 0..MaxBytes /\ sent[d] + 1 \in 0..MaxBytes /\ sent'[d] = sent[d] + 1
      /\ taken[d] \in 0..MaxBytes
  BY <1>1, SizeAssumption DEF Types
<1>3. Types'
  BY <1>1, <1>2 DEF Types
<1>4. \A e \in Dir : e # d => Same(e)
  BY <1>1 DEF Types, Same
<1>5. Flow(d)'
  <2>1. Flow(d) /\ (taken[d] <= sent[d] => taken[d] <= sent[d] + 1)
    BY <1>2, SizeAssumption DEF Flows
  <2> QED BY <1>1, <1>2, <2>1 DEF Flow
<1>6. Flows'
  BY <1>4, <1>5, FlowKept DEF Flows
<1> QED BY <1>1, <1>3, <1>4, <1>6, DrainedKept

\* A peer that ends its connection.
LEMMA PeerEndsStep ==
  ASSUME IInv, NEW s \in Side, NEW how \in {"fin", "reset"}, PeerEnds(s, how)
  PROVE  IInv' /\ sent' = sent /\ out' = out /\ closed' = closed
<1> USE DEF IInv
<1>1. /\ peer[s] # how /\ peer[s] # "reset" /\ peer' = [peer EXCEPT ![s] = how]
      /\ sent' = sent /\ taken' = taken /\ reads' = reads /\ writes' = writes
      /\ buf' = buf /\ pos' = pos /\ size' = size /\ out' = out /\ closed' = closed
  BY DEF PeerEnds, buffers
<1>2. Types'
  BY <1>1 DEF Types
<1>3. Flows'
  BY <1>1, FlowKept DEF Flows, Same
<1>4. Drained'
  BY <1>1, Ends DEF Drained, Types
<1> QED BY <1>1, <1>2, <1>3, <1>4

\* Every step keeps the invariant.
LEMMA InductiveStep == UpOnly /\ IInv /\ [Next]_vars => IInv'
<1> SUFFICES ASSUME UpOnly, IInv, [Next]_vars PROVE IInv'
  OBVIOUS
<1>1. ASSUME NEW d \in Dir, PeerSends(d) PROVE IInv'
  BY <1>1, PeerSendsStep
<1>2. ASSUME NEW s \in Side, NEW how \in {"fin", "reset"}, PeerEnds(s, how) PROVE IInv'
  BY <1>2, PeerEndsStep
<1>3. ASSUME NEW d \in Dir, NEW n \in 1..Cap, ReadDone(d, n) PROVE IInv'
  <2>1. ~closed[Source(d)] /\ peer' = peer
    BY <1>3 DEF ReadDone, ReadCompletes
  <2>2. \A e \in Dir : e # d => Same(e)
    BY <1>3 DEF ReadDone, ReadCompletes, Ended, IInv, Types, Same
  <2>3. Types' /\ Flows' /\ closed' = closed
    BY <1>3, ReadDoneStep
  <2>4. Drained'
    BY <2>1, <2>2, <2>3, DrainedKept DEF IInv
  <2> QED BY <2>3, <2>4 DEF IInv
<1>4. ASSUME NEW d \in Dir, ReadFails(d) PROVE IInv'
  BY <1>4, ReadFailsStep
<1>5. ASSUME NEW d \in Dir, NEW n \in 0..Cap, WriteDone(d, n) PROVE IInv'
  <2>1. writes[d] # <<>>
    BY <1>5 DEF WriteDone, WriteCompletes
  <2>2. Types' /\ Flows' /\ closed' = closed /\ peer' = peer /\ \A e \in Dir : e # d => Same(e)
    BY <1>5, WriteDoneStep
  <2>3. Drained'
    BY <2>1, <2>2, DrainedKept DEF IInv
  <2> QED BY <2>2, <2>3 DEF IInv
<1>6. ASSUME NEW d \in Dir, WriteFails(d) PROVE IInv'
  BY <1>6, WriteFailsStep
<1>7. CASE UNCHANGED vars
  BY <1>7 DEF vars, buffers, IInv, Types, Flows, Flow, Drained
<1> QED BY <1>1, <1>2, <1>3, <1>4, <1>5, <1>6, <1>7 DEF Next, Peers, Handler

\* The invariant holds in every state.
THEOREM Always == UpOnly => (Spec => []IInv)
<1> SUFFICES ASSUME UpOnly PROVE Spec => []IInv
  OBVIOUS
<1>1. Init => IInv
  BY Initially
<1>2. IInv /\ [Next]_vars => IInv'
  BY InductiveStep
<1> QED BY <1>1, <1>2, PTL DEF Spec

-----------------------------------------------------------------------------
(* The theorems.                                                           *)

\* Every variable keeps its type; no operation is started on a range that runs
\* past the buffer.
THEOREM RelayTypeCorrect == UpOnly => (Spec => []TypeOK)
<1>1. IInv => TypeOK
  BY DEF IInv, Types, Flows, Flow, TypeOK, Ranges
<1> QED BY <1>1, Always, PTL

\* A direction has at most one operation outstanding, and none of its reads
\* overwrites bytes that are not written yet.
THEOREM OneAtATime == UpOnly => (Spec => []OneOperation)
<1>1. ASSUME IInv PROVE OneOperation
  <2> SUFFICES ASSUME NEW d \in Dir
               PROVE  /\ reads[d] + Len(writes[d]) <= 1
                      /\ reads[d] = 1 => pos[d] = 0 /\ size[d] = 0
                      /\ writes[d] # <<>> =>
                           Head(writes[d]) = [pos |-> pos[d], size |-> size[d]]
    BY DEF OneOperation
  <2>1. Flow(d) /\ reads[d] \in 0..1
    BY <1>1 DEF IInv, Flows, Types
  <2>2. CASE writes[d] = <<>>
    BY <2>1, <2>2 DEF Flow
  <2>3. CASE writes[d] # <<>>
    <3> DEFINE w == [pos |-> pos[d], size |-> size[d]]
    <3>1. writes[d] = <<w>> /\ reads[d] = 0
      BY <2>1, <2>3 DEF Flow
    <3> HIDE DEF w
    <3>2. Len(writes[d]) = 1 /\ Head(writes[d]) = w
      BY <3>1
    <3> QED BY <3>1, <3>2 DEF w
  <2> QED BY <2>2, <2>3
<1> QED BY <1>1, Always, PTL

\* What was read and not handed on is what lies in the buffer, in order.
THEOREM BufferIsRest == UpOnly => (Spec => []BufferHoldsRest)
<1>1. ASSUME IInv PROVE BufferHoldsRest
  <2> SUFFICES ASSUME NEW d \in Dir
               PROVE  /\ taken[d] = Len(out[d]) + size[d]
                      /\ \A i \in 0..size[d]-1 : buf[d][pos[d] + i] = Len(out[d]) + i + 1
    BY DEF BufferHoldsRest
  <2>1. Flow(d) /\ size[d] \in Nat /\ taken[d] \in Nat
    BY <1>1, SizeAssumption DEF IInv, Flows, Types
  <2>2. taken[d] - size[d] \in Nat
    BY <2>1 DEF Flow
  <2>3. Len(out[d]) = taken[d] - size[d]
    <3>1. Len(FirstBytes(taken[d] - size[d])) = taken[d] - size[d]
      BY <2>2 DEF FirstBytes
    <3> QED BY <2>1, <3>1 DEF Flow
  <2>4. taken[d] = Len(out[d]) + size[d]
    BY <2>1, <2>3
  <2>5. \A i \in 0..size[d]-1 : buf[d][pos[d] + i] = Len(out[d]) + i + 1
    BY <2>1, <2>3 DEF Flow
  <2> QED BY <2>4, <2>5
<1> QED BY <1>1, Always, PTL

\* A side whose stream has ended is closed only when the other side has been
\* handed all of it, or is closed itself.
THEOREM ClosedWhenDrained == UpOnly => (Spec => []DrainedBeforeClose)
<1>1. ASSUME IInv PROVE DrainedBeforeClose
  <2> SUFFICES ASSUME NEW d \in Dir, peer[Source(d)] = "fin", closed[Source(d)],
                      ~closed[Sink(d)]
               PROVE  Len(out[d]) = sent[d] /\ writes[d] = <<>>
    BY DEF DrainedBeforeClose
  <2>1. taken[d] = sent[d] /\ size[d] = 0 /\ writes[d] = <<>>
    BY <1>1 DEF IInv, Drained
  <2>2. out[d] = FirstBytes(taken[d] - 0) /\ taken[d] \in Nat
    BY <1>1, <2>1, SizeAssumption DEF IInv, Flows, Flow, Types
  <2>3. Len(FirstBytes(taken[d])) = taken[d]
    BY <2>2 DEF FirstBytes
  <2>4. taken[d] - 0 = taken[d]
    BY <2>2
  <2> QED BY <2>1, <2>2, <2>3, <2>4
<1> QED BY <1>1, Always, PTL

\* The session implements the safety part of a pair of byte pipes: each byte
\* once, in order, nothing after the sink is closed, and no side reopens.
THEOREM RelayIsPipe == UpOnly => (Spec => Pipe!SafeSpec)
<1> SUFFICES ASSUME UpOnly PROVE Spec => Pipe!SafeSpec
  OBVIOUS
<1>1. Init => Pipe!Init
  <2> SUFFICES ASSUME Init PROVE Pipe!Init
    OBVIOUS
  <2>1. \A d \in Dir : closed[Source(d)] = FALSE /\ closed[Sink(d)] = FALSE
    BY Ends DEF Init
  <2> QED BY <2>1 DEF Init, Pipe!Init
<1>2. IInv /\ [Next]_vars => [Pipe!Next]_(Pipe!vars)
  <2> SUFFICES ASSUME IInv, [Next]_vars PROVE Pipe!Next \/ UNCHANGED Pipe!vars
    OBVIOUS
  <2>1. ASSUME NEW d \in Dir, PeerSends(d) PROVE Pipe!Next
    <3>1. Pipe!Send(d)
      BY <2>1, PeerSendsStep DEF Pipe!Send, Pipe!gone
    <3> QED BY <3>1 DEF Pipe!Next
  <2>2. ASSUME sent' = sent, out' = out, closed' = closed PROVE UNCHANGED Pipe!vars
    BY <2>2 DEF Pipe!vars, Pipe!gone
  <2>3. ASSUME sent' = sent, out' = out, \A s \in Side : closed[s] => closed'[s]
        PROVE  Pipe!Next
    <3>1. Pipe!Closing
      BY <2>3, Ends DEF Pipe!Closing
    <3> QED BY <3>1 DEF Pipe!Next
  <2>4. ASSUME NEW d \in Dir, NEW n \in 1..Cap, ReadDone(d, n) PROVE UNCHANGED Pipe!vars
    <3>1. sent' = sent /\ out' = out /\ closed' = closed
      BY <2>4 DEF ReadDone, ReadCompletes
    <3> QED BY <2>2, <3>1
  <2>5. ASSUME NEW d \in Dir, NEW n \in 0..Cap, WriteDone(d, n) PROVE Pipe!Next
    <3> DEFINE a == taken[d] - size[d]
    <3>1. /\ size[d] \in Nat /\ taken[d] \in Nat /\ sent[d] \in Nat
          /\ n \in Nat /\ n > 0 /\ n <= size[d] /\ size[d] <= taken[d] /\ taken[d] <= sent[d]
          /\ ~closed[Sink(d)] /\ out' = [out EXCEPT ![d] = FirstBytes(a + n)]
      BY <2>5, WriteDoneOf
    <3>2. sent' = sent /\ closed' = closed
      BY <2>5, WriteDoneStep
    <3>3. a \in Nat /\ a + n \in a + 1..sent[d]
      BY <3>1
    <3>4. out[d] = FirstBytes(a)
      BY DEF IInv, Flows, Flow
    <3>5. Len(FirstBytes(a)) = a
      <4> HIDE DEF a
      <4> QED BY <3>3 DEF FirstBytes
    <3>6. FirstBytes(a + n) = Pipe!Bytes(a + n)
      BY DEF FirstBytes, Pipe!Bytes
    <3> HIDE DEF a
    <3>7. Pipe!Deliver(d)
      <4>1. a + n \in Len(out[d]) + 1..sent[d]
        BY <3>3, <3>4, <3>5
      <4>2. out' = [out EXCEPT ![d] = Pipe!Bytes(a + n)]
        BY <3>1, <3>6
      <4> QED BY <3>1, <3>2, <4>1, <4>2 DEF Pipe!Deliver, Pipe!gone
    <3> QED BY <3>7 DEF Pipe!Next
  <2>6. ASSUME NEW s \in Side, NEW how \in {"fin", "reset"}, PeerEnds(s, how)
        PROVE  UNCHANGED Pipe!vars
    BY <2>2, <2>6, PeerEndsStep
  <2>7. ASSUME NEW d \in Dir, ReadFails(d) PROVE Pipe!Next
    BY <2>3, <2>7, ReadFailsStep
  <2>8. ASSUME NEW d \in Dir, WriteFails(d) PROVE Pipe!Next
    BY <2>3, <2>8, WriteFailsStep
  <2>9. CASE UNCHANGED vars
    BY <2>2, <2>9 DEF vars
  <2> QED BY <2>1, <2>4, <2>5, <2>6, <2>7, <2>8, <2>9 DEF Next, Peers, Handler
<1>3. Spec => []IInv
  BY Always
<1> QED BY <1>1, <1>2, <1>3, PTL DEF Spec, Pipe!SafeSpec

-----------------------------------------------------------------------------
(* Nothing is forgotten, and nothing goes on for ever.                     *)

\* A handler of a direction leaves the other direction alone.
LEMMA HandlerLocal ==
  ASSUME IInv, UpOnly, NEW d \in Dir, Handler(d)
  PROVE  \A e \in Dir : e # d => Same(e)
<1>1. CASE \E n \in 1..Cap : ReadDone(d, n)
  BY <1>1 DEF ReadDone, ReadCompletes, Ended, IInv, Types, Same
<1>2. CASE ReadFails(d)
  BY <1>2 DEF ReadFails, ReadFailed, Ended, buffers, IInv, Types, Same
<1>3. CASE \E n \in 0..Cap : WriteDone(d, n)
  BY <1>3, WriteDoneStep
<1>4. CASE WriteFails(d)
  BY <1>4 DEF WriteFails, buffers, IInv, Types, Same
<1> QED BY <1>1, <1>2, <1>3, <1>4 DEF Handler

\* After a partial write the rest is written.
LEMMA WriteGoesOn ==
  ASSUME IInv, UpOnly, NEW d \in Dir, NEW n \in 0..Cap, WriteDone(d, n), n # size[d]
  PROVE  writes'[d] # <<>> /\ Len(writes'[d]) = 1
<1>1. d = "up" /\ writes[d] = <<[pos |-> pos[d], size |-> size[d]]>>
  BY WriteDoneOf
<1>2. writes \in [Dir -> Seq(Ranges)]
  BY DEF IInv, Types
<1> DEFINE w == [pos |-> pos'["up"], size |-> size'["up"]]
           rest == [writes EXCEPT ![d] = Tail(@)]
<1>3. writes' = [rest EXCEPT !["up"] = Append(@, w)]
  BY DEF WriteDone, WriteCompletes
<1> HIDE DEF w
<1>4. writes'[d] = Append(Tail(writes[d]), w)
  BY <1>1, <1>2, <1>3
<1>5. writes'[d] = Append(<<>>, w)
  BY <1>1, <1>4
<1> QED BY <1>5

\* Bytes in a buffer have a write outstanding or a closed sink.
THEOREM RestAlwaysSent == UpOnly => (Spec => []RestIsSent)
<1> SUFFICES ASSUME UpOnly PROVE Spec => []RestIsSent
  OBVIOUS
<1>1. Init => RestIsSent
  <2> SUFFICES ASSUME Init, NEW d \in Dir PROVE ~(size[d] > 0)
    BY DEF RestIsSent
  <2>1. size[d] = 0
    BY DEF Init
  <2> QED BY <2>1
<1>2. IInv /\ IInv' /\ RestIsSent /\ [Next]_vars => RestIsSent'
  <2> SUFFICES ASSUME IInv, IInv', RestIsSent, [Next]_vars PROVE RestIsSent'
    OBVIOUS
  <2>1. ASSUME NEW d \in Dir, Handler(d) PROVE RestIsSent'
    <3>1. \A s \in Side : closed[s] => closed'[s]
      <4>1. CASE \E n \in 1..Cap : ReadDone(d, n)
        BY <4>1 DEF ReadDone, ReadCompletes
      <4>2. CASE \E n \in 0..Cap : WriteDone(d, n)
        BY <4>2 DEF WriteDone, WriteCompletes
      <4> QED BY <2>1, <4>1, <4>2, ReadFailsStep, WriteFailsStep DEF Handler
    <3>2. \A e \in Dir : e # d => Same(e)
      BY <2>1, HandlerLocal
    <3>3. size'[d] > 0 => writes'[d] # <<>> \/ closed'[Sink(d)]
      <4>1. ASSUME NEW n \in 1..Cap, ReadDone(d, n) PROVE writes'[d] # <<>>
        <5> DEFINE w == [pos |-> pos[d], size |-> size'[d]]
        <5>1. writes'[d] = Append(writes[d], w) /\ writes[d] = <<>>
          <6>1. reads[d] = 1 /\ Flow(d)
            BY <4>1 DEF IInv, Flows, Types, ReadDone, ReadCompletes
          <6> QED BY <4>1, <6>1 DEF IInv, Types, ReadDone, ReadCompletes, Flow
        <5> HIDE DEF w
        <5> QED BY <5>1
      <4>2. ASSUME ReadFails(d) PROVE ~(size'[d] > 0)
        <5>1. reads[d] = 1 /\ size' = size /\ Flow(d)
          BY <4>2 DEF ReadFails, ReadFailed, buffers, IInv, Types, Flows
        <5> QED BY <5>1 DEF Flow
      <4>3. ASSUME NEW n \in 0..Cap, WriteDone(d, n), size'[d] > 0 PROVE writes'[d] # <<>>
        <5>1. size'[d] = IF n = size[d] THEN 0 ELSE (size[d] + SizeMod - n) % SizeMod
          BY <4>3 DEF WriteDone, WriteCompletes, IInv, Types
        <5> QED BY <4>3, <5>1, WriteGoesOn
      <4>4. ASSUME WriteFails(d) PROVE closed'[Sink(d)]
        BY <4>4, Ends DEF WriteFails, Close
      <4> QED BY <2>1, <4>1, <4>2, <4>3, <4>4 DEF Handler
    <3> QED BY <3>1, <3>2, <3>3, Ends DEF RestIsSent, Same
  <2>2. CASE Peers \/ UNCHANGED vars
    BY <2>2 DEF Peers, PeerSends, PeerEnds, vars, buffers, RestIsSent
  <2> QED BY <2>1, <2>2 DEF Next
<1> QED BY <1>1, <1>2, Always, PTL DEF Spec

\* A handler leaves its direction less to do.
LEMMA HandlerWorks ==
  ASSUME IInv, UpOnly, NEW d \in Dir, Handler(d)
  PROVE  Work(d)' < Work(d)
<1>1. /\ sent[d] \in Nat /\ taken[d] \in Nat /\ size[d] \in Nat /\ reads[d] \in 0..1
      /\ Flow(d) /\ Cap \in Nat
  BY SizeAssumption DEF IInv, Types, Flows
<1>2. ASSUME NEW n \in 1..Cap, ReadDone(d, n) PROVE Work(d)' < Work(d)
  <2>1. /\ reads[d] = 1 /\ writes[d] = <<>> /\ size[d] = 0 /\ n \in Nat /\ n > 0
    BY <1>1, <1>2 DEF ReadDone, ReadCompletes, Flow
  <2>2. (0 + n) % SizeMod = n
    BY <1>1, SizeAssumption, Kept
  <2>3. /\ sent'[d] = sent[d] /\ taken'[d] = taken[d] + n /\ size'[d] = n /\ reads'[d] = 0
        /\ writes'[d] = Append(<<>>, [pos |-> pos[d], size |-> n])
    BY <1>2, <2>1, <2>2 DEF ReadDone, ReadCompletes, Ended, IInv, Types
  <2>4. Len(writes'[d]) = 1 /\ Len(writes[d]) = 0
    BY <2>1, <2>3
  <2> QED BY <1>1, <2>1, <2>3, <2>4 DEF Work
<1>3. ASSUME ReadFails(d) PROVE Work(d)' < Work(d)
  <2>1. /\ reads[d] = 1 /\ writes[d] = <<>>
    BY <1>1, <1>3 DEF ReadFails, ReadFailed, Flow
  <2>2. /\ sent'[d] = sent[d] /\ taken'[d] = taken[d] /\ size'[d] = size[d] /\ reads'[d] = 0
        /\ writes'[d] = <<>>
    BY <1>3, <2>1 DEF ReadFails, ReadFailed, Ended, buffers, IInv, Types
  <2>3. Len(writes'[d]) = 0 /\ Len(writes[d]) = 0
    BY <2>1, <2>2
  <2> QED BY <1>1, <2>1, <2>2, <2>3 DEF Work
<1>4. ASSUME NEW n \in 0..Cap, WriteDone(d, n) PROVE Work(d)' < Work(d)
  <2>1. /\ writes[d] = <<[pos |-> pos[d], size |-> size[d]]>> /\ reads[d] = 0
        /\ n \in Nat /\ n > 0 /\ n <= size[d] /\ (n # size[d] => d = "up")
    BY <1>4, WriteDoneOf
  <2>2. Len(writes[d]) = 1 /\ Tail(writes[d]) = <<>>
    BY <2>1
  <2>3. sent'[d] = sent[d] /\ taken'[d] = taken[d]
    BY <1>4, WriteDoneStep
  <2>4. CASE n = size[d]
    <3>1. size'[d] = 0 /\ reads'[d] = 1 /\ writes'[d] = <<>>
      BY <1>4, <2>1, <2>2, <2>4 DEF WriteDone, WriteCompletes, Started, IInv, Types
    <3>2. Len(writes'[d]) = 0
      BY <3>1
    <3> QED BY <1>1, <2>1, <2>2, <2>3, <2>4, <3>1, <3>2 DEF Work
  <2>5. CASE n # size[d]
    <3>1. SizeMod \in Nat /\ size[d] < SizeMod
      BY SizeAssumption DEF IInv, Types
    <3>2. /\ size[d] - n \in Nat /\ size[d] - n < SizeMod
          /\ size[d] + SizeMod - n = (size[d] - n) + SizeMod
      BY <1>1, <2>1, <3>1
    <3>3. (size[d] + SizeMod - n) % SizeMod = size[d] - n
      BY <3>2, Kept
    <3>4. /\ size'[d] = (size[d] + SizeMod - n) % SizeMod
          /\ reads'[d] = 0
      BY <1>4, <2>1, <2>5 DEF WriteDone, WriteCompletes, IInv, Types
    <3>5. Len(writes'[d]) = 1
      BY <1>4, <2>5, WriteGoesOn
    <3> QED BY <1>1, <2>1, <2>2, <2>3, <3>3, <3>4, <3>5 DEF Work
  <2> QED BY <2>4, <2>5
<1>5. ASSUME WriteFails(d) PROVE Work(d)' < Work(d)
  <2>1. /\ writes[d] = <<[pos |-> pos[d], size |-> size[d]]>> /\ reads[d] = 0
    BY <1>1, <1>5 DEF WriteFails, Flow
  <2>2. Len(writes[d]) = 1 /\ Tail(writes[d]) = <<>>
    BY <2>1
  <2>3. /\ sent'[d] = sent[d] /\ taken'[d] = taken[d] /\ size'[d] = size[d] /\ reads'[d] = reads[d]
        /\ writes'[d] = <<>>
    BY <1>5, <2>2 DEF WriteFails, buffers, IInv, Types
  <2>4. Len(writes'[d]) = 0
    BY <2>3
  <2> QED BY <1>1, <2>1, <2>2, <2>3, <2>4 DEF Work
<1> QED BY <1>2, <1>3, <1>4, <1>5 DEF Handler

\* As long as its peers leave it alone, every step of a session leaves it less
\* to do.
THEOREM SessionComesToRest == UpOnly => (Spec => WorkShrinks)
<1> SUFFICES ASSUME UpOnly PROVE Spec => WorkShrinks
  OBVIOUS
<1>1. IInv /\ IInv' /\ [Next]_vars =>
        [UNCHANGED <<peer, sent>> => (Work("up") + Work("down"))' < Work("up") + Work("down")]_vars
  <2> SUFFICES ASSUME IInv, IInv', Next, UNCHANGED <<peer, sent>>
               PROVE  (Work("up") + Work("down"))' < Work("up") + Work("down")
    OBVIOUS
  <2>1. ASSUME NEW d \in Dir PROVE ~PeerSends(d)
    BY SizeAssumption DEF PeerSends, IInv, Types
  <2>2. ASSUME NEW s \in Side, NEW how \in {"fin", "reset"} PROVE ~PeerEnds(s, how)
    BY DEF PeerEnds, IInv, Types
  <2>3. PICK d \in Dir : Handler(d)
    BY <2>1, <2>2 DEF Next, Peers
  <2>4. \A e \in Dir : Work(e) \in Int /\ Work(e)' \in Int
    <3> SUFFICES ASSUME NEW e \in Dir PROVE Work(e) \in Int /\ Work(e)' \in Int
      OBVIOUS
    <3>1. /\ sent[e] \in Int /\ taken[e] \in Int /\ size[e] \in Int /\ reads[e] \in Int
          /\ Len(writes[e]) \in Int
      BY SizeAssumption DEF IInv, Types
    <3>2. /\ sent'[e] \in Int /\ taken'[e] \in Int /\ size'[e] \in Int /\ reads'[e] \in Int
          /\ Len(writes'[e]) \in Int
      BY SizeAssumption DEF IInv, Types
    <3>3. Work(e) \in Int
      BY <3>1 DEF Work
    <3>4. Work(e)' \in Int
      BY <3>2 DEF Work
    <3> QED BY <3>3, <3>4
  <2>5. Work(d)' < Work(d)
    BY <2>3, HandlerWorks
  <2>6. \A e \in Dir : e # d => Work(e)' = Work(e)
    BY <2>3, HandlerLocal DEF Same, Work
  <2>7. \A e \in Dir : e = "up" \/ e = "down"
    BY DEF Dir
  <2>8. "up" \in Dir /\ "down" \in Dir
    BY DEF Dir
  <2> HIDE DEF Work
  <2>9. CASE d = "up"
    BY <2>4, <2>5, <2>6, <2>8, <2>9
  <2>10. CASE d = "down"
    BY <2>4, <2>5, <2>6, <2>8, <2>10
  <2> QED BY <2>7, <2>9, <2>10
<1> QED BY <1>1, Always, PTL DEF Spec, WorkShrinks
=============================================================================
