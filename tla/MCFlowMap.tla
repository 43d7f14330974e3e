----------------------------- MODULE MCFlowMap ------------------------------
(* Flows of FlowMap for TLC: one local IPv6 socket, and destinations whose   *)
(* addresses differ in their first two words.                                *)
EXTENDS FlowMap
Addr(w1, w2, port) ==
  [family |-> AF_INET6, ip |-> 0, words |-> <<w1, w2, 0, 0>>, port |-> port]
MCFlow == {fillConnInfo(AF_INET6, Addr(9, 9, 1), Addr(v, w, p)) :
             v \in 1..2, w \in 1..2, p \in 1..2}
=============================================================================
