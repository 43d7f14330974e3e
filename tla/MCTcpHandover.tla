--------------------------- MODULE MCTcpHandover ----------------------------
(* Model values of TcpHandover for TLC: three connects, one of them over     *)
(* IPv6, share two local ports.                                              *)
EXTENDS TcpHandover, TLC
CONSTANTS c1, c2, c3, p1, p2
MCConn == {c1, c2, c3}
MCPort == {p1, p2}
MCV6 == {c3}
=============================================================================
