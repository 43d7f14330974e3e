------------------------------ MODULE SockAddr ------------------------------
(***************************************************************************)
(* How the proxy compares addresses (sockaddr_full) and flows (conn_info), *)
(* which are the keys of its flow table, a std::map.                       *)
(*                                                                         *)
(* A sockaddr_full is a union of the two kinds of socket address.  Its     *)
(* operator != reads the IPv4 fields whatever the family is; in an IPv6    *)
(* address they are the flow info, which fillConnInfo leaves 0, and the    *)
(* port.  Numbers stand for the integers that the code compares, whatever  *)
(* their byte order.                                                       *)
(***************************************************************************)
EXTENDS Naturals

AF_INET == 2
AF_INET6 == 23

\* ip: sin_addr and, at the same place, sin6_flowinfo; words: sin6_addr.
Words == [1..4 -> Nat]
NoWords == [i \in 1..4 |-> 0]
SockAddrs == [family : {AF_INET, AF_INET6}, ip : Nat, words : Words, port : Nat]

V4(a) == [family |-> AF_INET, ip |-> a.ip, words |-> NoWords, port |-> a.port]
V6(a) == [family |-> AF_INET6, ip |-> 0, words |-> a.words, port |-> a.port]

\* The part of two addresses that their flow is filed under.
fillConnInfo(family, src, dst) ==
  IF family = AF_INET THEN [src |-> V4(src), dst |-> V4(dst)]
                      ELSE [src |-> V6(src), dst |-> V6(dst)]

\* sockaddr_full::operator<
Less(a, b) ==
  \/ a.family < b.family
  \/ /\ a.family = b.family /\ a.family = AF_INET
     /\ a.ip < b.ip \/ (a.ip = b.ip /\ a.port < b.port)
  \/ /\ a.family = b.family /\ a.family = AF_INET6
     /\ (\E i \in 1..4 : a.words[i] < b.words[i]) \/ a.port < b.port

\* sockaddr_full::operator!=
Differ(a, b) == a.family # b.family \/ a.ip # b.ip \/ a.port # b.port

\* conn_info::operator<
ConnLess(c, d) == IF Differ(c.src, d.src) THEN Less(c.src, d.src) ELSE Less(c.dst, d.dst)
=============================================================================
