----------------------------- MODULE EventFrame -----------------------------
(***************************************************************************)
(* The lengths in the events that carry datagrams between the two          *)
(* processes.  An event is a head, the user data that the filter wants     *)
(* back, and the datagram; its lengths are kept in 16 bits, although the   *)
(* three parts together may be longer.                                     *)
(***************************************************************************)
EXTENDS Naturals

CONSTANTS SendHead,  \* sizeof(evt_udp_send)
          RecvHead   \* sizeof(evt_udp_recv)

Width == 65536       \* of totallen, udlen, sendlen and recvlen
MaxDatagram == 65507 \* what one UDP datagram over IPv4 can carry
Length == 0..MaxDatagram

\* The filter's event for a datagram of len bytes: memory is allocated for the
\* sum before it is cut, and ClientEvent::post sends totallen bytes of it.
createUdpSendEvent(ud, len) ==
  [totallen |-> (SendHead + ud + len) % Width, udlen |-> ud % Width,
   datalen |-> len % Width, memory |-> SendHead + ud + len]

\* The proxy's event for an answer of len bytes: memory is allocated for the
\* sum after it is cut, and all len bytes are copied.
onUdpRecv(ud, len) ==
  [totallen |-> (RecvHead + ud + len) % Width, udlen |-> ud % Width,
   datalen |-> len % Width, memory |-> (RecvHead + ud + len) % Width]

\* Replay and ClientEvent::post: one UDP datagram, or an error that is ignored.
Sent(evt) == evt.totallen <= MaxDatagram

\* The receiver takes datalen bytes from where its head and udlen end: they
\* were sent with this event if they are within its totallen.
Whole(evt, head) == head + evt.udlen + evt.datalen <= evt.totallen
=============================================================================
