----------------------------- MODULE MCUdpRelay -----------------------------
(* Model values of UdpRelay for TLC: two sockets, which may use one address  *)
(* after the other; two servers, a destination without a route, and a name   *)
(* server.                                                                   *)
EXTENDS UdpRelay
CONSTANTS s1, s2, a1, a2, d1, d2, d3, dns
MCSock == {s1, s2}
MCAddr == {a1, a2}
MCDst == {d1, d2, d3, dns}
MCDns == {dns}
MCUnroutable == {d3}
=============================================================================
