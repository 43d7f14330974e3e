----------------------------- MODULE SessionTcp -----------------------------
(***************************************************************************)
(* One SessionTcp: a relay between an application ("local") and the server *)
(* it wanted ("remote").  Each direction reads into its own buffer, writes *)
(* what it read, and reads again only when all of it is written, so that a *)
(* direction has at most one operation outstanding.                        *)
(*                                                                         *)
(*   up    doReadLocal,  doWriteRemote   _buf_local,  _buf_local_pos/_size *)
(*   down  doReadRemote, doWriteLocal    _buf_remote, _buf_remote_pos/_size*)
(*                                                                         *)
(* A session is kept alive by the handlers of its outstanding operations;  *)
(* with the last of them it is destroyed, which closes both sockets.       *)
(* Byte number i that a peer sends is represented by i.                    *)
(***************************************************************************)
EXTENDS Naturals, Sequences

CONSTANTS Cap,           \* SERVER_TCP_BUFFER
          MaxBytes,      \* bound: bytes each peer sends
          SizeMod,       \* number of values of size_t, scaled down
          ShortWrites    \* directions in which a send may take less than given

Dir == {"up", "down"}
Side == {"local", "remote"}

ASSUME SizeAssumption == Cap \in Nat \ {0} /\ MaxBytes \in Nat /\ SizeMod \in Nat /\ SizeMod > Cap
ASSUME ShortAssumption == ShortWrites \subseteq Dir

VARIABLES
  peer,     \* peer[s]: what the peer of side s has done to its connection
  sent,     \* sent[d]: bytes the source of d has sent
  taken,    \* taken[d]: bytes of them the session has read
  reads,    \* reads[d]: async_receive operations outstanding
  writes,   \* writes[d]: async_send operations outstanding, as buffer ranges
  buf,      \* buf[d]: contents of the buffer, 0 where nothing was read yet
  pos,      \* pos[d]: _buf_*_pos
  size,     \* size[d]: _buf_*_size
  out,      \* out[d]: what the sink's connection has been handed
  closed    \* closed[s]: the session has closed the socket of side s

buffers == <<buf, pos, size>>
vars == <<peer, sent, taken, reads, writes, buffers, out, closed>>

\* The sides a direction leads from and to.
Source(d) == IF d = "up" THEN "local" ELSE "remote"
Sink(d) == IF d = "up" THEN "remote" ELSE "local"

Init ==
  /\ peer = [s \in Side |-> "open"]
  /\ sent = [d \in Dir |-> 0] /\ taken = [d \in Dir |-> 0]
  /\ reads = [d \in Dir |-> 1]
  /\ writes = [d \in Dir |-> <<>>]
  /\ buf = [d \in Dir |-> [i \in 0..Cap-1 |-> 0]]
  /\ pos = [d \in Dir |-> 0] /\ size = [d \in Dir |-> 0]
  /\ out = [d \in Dir |-> <<>>]
  /\ closed = [s \in Side |-> FALSE]

-----------------------------------------------------------------------------
(* The peers.                                                              *)

PeerSends(d) ==
  /\ peer[Source(d)] = "open" /\ ~closed[Source(d)] /\ sent[d] < MaxBytes
  /\ sent' = [sent EXCEPT ![d] = @ + 1]
  /\ UNCHANGED <<peer, taken, reads, writes, buffers, out, closed>>

\* A peer stops sending but still receives, or its connection is reset.
PeerEnds(s, how) ==
  /\ peer[s] # how /\ peer[s] # "reset"
  /\ peer' = [peer EXCEPT ![s] = how]
  /\ UNCHANGED <<sent, taken, reads, writes, buffers, out, closed>>

-----------------------------------------------------------------------------
(* The handlers of the session.                                            *)

\* No operation is outstanding any more: the session is destroyed.
Over == \A d \in Dir : reads[d] = 0 /\ writes[d] = <<>>

\* A handler that ends closes the sockets of sides, and with the last handler
\* the session goes and closes both.
Close(sides) == closed' = [s \in Side |-> closed[s] \/ s \in sides \/ Over']

Started(counts, d) == [counts EXCEPT ![d] = @ + 1]
Ended(counts, d) == [counts EXCEPT ![d] = @ - 1]

\* Bytes n0+1 .. n0+n in the first n places of a buffer.
Received(b, n0, n) == [i \in 0..Cap-1 |-> IF i < n THEN n0 + i + 1 ELSE b[i]]

\* doReadLocal / doReadRemote complete with n bytes, and the write of what the
\* buffer holds is started.  again: directions whose read is started too.
ReadCompletes(d, n, again) ==
  /\ reads[d] > 0 /\ ~closed[Source(d)]
  /\ n \in 1..Cap /\ n <= sent[d] - taken[d]
  /\ taken' = [taken EXCEPT ![d] = @ + n]
  /\ buf' = [buf EXCEPT ![d] = Received(@, taken[d], n)]
  /\ size' = [size EXCEPT ![d] = (@ + n) % SizeMod]
  /\ writes' = [writes EXCEPT ![d] = Append(@, [pos |-> pos[d], size |-> size'[d]])]
  /\ reads' = IF d \in again THEN reads ELSE Ended(reads, d)
  /\ UNCHANGED <<peer, sent, pos, out, closed>>

\* A read fails: end of stream, reset, or a socket the session closed itself.
\* The given sides are closed; counts are the reads outstanding afterwards.
ReadFailed(d, sides, counts) ==
  /\ reads[d] > 0
  /\ \/ closed[Source(d)] \/ peer[Source(d)] = "reset"
     \/ peer[Source(d)] = "fin" /\ taken[d] = sent[d]
  /\ reads' = counts
  /\ UNCHANGED <<peer, sent, taken, writes, buffers, out>>
  /\ Close(sides)

\* doWriteRemote / doWriteLocal complete with n bytes.  If that is not all, the
\* range moves on by step and the write of direction next is started;
\* otherwise the buffer is empty, from reset on, and the next read is started.
WriteCompletes(d, n, step, next, reset) ==
  LET w == Head(writes[d])
      rest == [writes EXCEPT ![d] = Tail(@)]
      all == n = size[d]
  IN /\ writes[d] # <<>> /\ ~closed[Sink(d)]
     /\ n = w.size \/ (d \in ShortWrites /\ n \in 1..w.size)
     /\ w.pos + n <= Cap
     /\ out' = [out EXCEPT ![d] = @ \o [i \in 1..n |-> buf[d][w.pos + i - 1]]]
     /\ pos' = [pos EXCEPT ![d] = IF all THEN reset ELSE @ + step]
     /\ size' = [size EXCEPT ![d] = IF all THEN 0 ELSE (@ + SizeMod - n) % SizeMod]
     /\ writes' = IF all THEN rest
                  ELSE [rest EXCEPT ![next] = Append(@, [pos |-> pos'[next], size |-> size'[next]])]
     /\ reads' = IF all THEN Started(reads, d) ELSE reads
     /\ UNCHANGED <<peer, sent, taken, buf, closed>>

\* Planted bugs: the read is started again while the write runs (the line
\* commented out in doReadLocal), a failed read closes nothing but is started
\* again, a short write does not move on or goes on with the other direction, a
\* finished one leaves the position.
ReadDoneReadsOn(d, n) == ReadCompletes(d, n, Dir)
ReadFailsRetries(d) == ReadFailed(d, {}, reads)
WriteDoneRepeats(d, n) == WriteCompletes(d, n, 0, d, 0)
WriteDoneTurns(d, n) == WriteCompletes(d, n, n, "down", 0)
WriteDoneKeepsPos(d, n) == WriteCompletes(d, n, n, "up", pos[d])

ReadDone(d, n) == ReadCompletes(d, n, {})

\* Only the side that failed is closed.
ReadFails(d) == ReadFailed(d, {Source(d)}, Ended(reads, d))

\* After a short write both directions go on with doWriteRemote.
WriteDone(d, n) == WriteCompletes(d, n, n, "up", 0)

\* The write fails: the peer reset the connection or the session closed it.
WriteFails(d) ==
  /\ writes[d] # <<>> /\ (closed[Sink(d)] \/ peer[Sink(d)] = "reset")
  /\ writes' = [writes EXCEPT ![d] = Tail(@)]
  /\ UNCHANGED <<peer, sent, taken, reads, buffers, out>>
  /\ Close({Sink(d)})

Peers == \/ \E d \in Dir : PeerSends(d)
         \/ \E s \in Side, how \in {"fin", "reset"} : PeerEnds(s, how)

Handler(d) == \/ \E n \in 1..Cap : ReadDone(d, n)
              \/ ReadFails(d)
              \/ \E n \in 0..Cap : WriteDone(d, n)
              \/ WriteFails(d)

Next == Peers \/ \E d \in Dir : Handler(d)

\* The io_context runs every completion, and a peer that has not reset its
\* connection goes on receiving.  No peer is obliged to send or to close.
Fairness == \A d \in Dir : WF_vars(Handler(d))

Spec == Init /\ [][Next]_vars
FairSpec == Spec /\ Fairness
-----------------------------------------------------------------------------
(* Properties.                                                             *)

\* Every variable keeps its type; in particular no operation is started on a
\* range that runs past the buffer.
TypeOK ==
  /\ peer \in [Side -> {"open", "fin", "reset"}]
  /\ sent \in [Dir -> 0..MaxBytes] /\ taken \in [Dir -> 0..MaxBytes]
  /\ reads \in [Dir -> 0..1]
  /\ \A d \in Dir : writes[d] \in Seq([pos : 0..Cap, size : 0..Cap])
  /\ buf \in [Dir -> [0..Cap-1 -> 0..MaxBytes]]
  /\ pos \in [Dir -> 0..Cap] /\ size \in [Dir -> 0..Cap]
  /\ \A d \in Dir : pos[d] + size[d] <= Cap
  /\ closed \in [Side -> BOOLEAN]

\* A direction has one operation at most, and while it reads its buffer is
\* empty: nothing overwrites bytes that are not written yet.
OneOperation == \A d \in Dir :
  /\ reads[d] + Len(writes[d]) <= 1
  /\ reads[d] = 1 => pos[d] = 0 /\ size[d] = 0
  /\ writes[d] # <<>> => Head(writes[d]) = [pos |-> pos[d], size |-> size[d]]

\* What was read and not handed on is exactly what lies in the buffer, in
\* order, whatever the sizes of the reads and of the partial writes.
BufferHoldsRest == \A d \in Dir :
  /\ taken[d] = Len(out[d]) + size[d]
  /\ \A i \in 0..size[d]-1 : buf[d][pos[d] + i] = Len(out[d]) + i + 1

\* As long as bytes are in a buffer their write is outstanding, unless the
\* sink's socket is closed ("continue sending", SessionTcp.cpp:78 and :135).
RestIsSent == \A d \in Dir : size[d] > 0 => writes[d] # <<>> \/ closed[Sink(d)]

\* A side is not closed at the end of its stream before everything it sent has
\* been handed to the other side, if that one can still take it.
DrainedBeforeClose == \A d \in Dir :
  peer[Source(d)] = "fin" /\ closed[Source(d)] /\ ~closed[Sink(d)] =>
      Len(out[d]) = sent[d] /\ writes[d] = <<>>

\* The handler steps that a direction has left at most: each byte is read and
\* written once, and each operation outstanding ends.
Work(d) == 2 * (sent[d] - taken[d]) + size[d] + reads[d] + Len(writes[d])

\* A session that its peers leave alone comes to rest: every handler leaves less
\* to do, so none is retried for ever, however small the writes and the reads,
\* and a session whose peers have ended cannot be kept busy by itself.
WorkShrinks ==
  [][UNCHANGED <<peer, sent>> => (Work("up") + Work("down"))' < Work("up") + Work("down")]_vars

\* When both peers have ended, the session goes and both sockets are closed.
SessionEnds ==
  (\A s \in Side : peer[s] # "open") ~> Over /\ (\A s \in Side : closed[s])

\* When one peer has ended, the other side is closed as well (SessionTcp.h:4:
\* the other side is closed once the data of the closing one is sent).
ClosePropagates == \A s \in Side : peer[s] # "open" ~> (\A t \in Side : closed[t])

Pipe == INSTANCE BytePipe WITH
    sourceGone <- [d \in Dir |-> closed[Source(d)]],
    sinkGone <- [d \in Dir |-> closed[Sink(d)]]

\* The session is a pair of byte pipes.
KeepsPipe == Pipe!Spec
=============================================================================
