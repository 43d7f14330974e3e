----------------------------- MODULE FlowTable ------------------------------
(***************************************************************************)
(* What ServerUdp needs of its flow table, with nothing of how flows are   *)
(* compared: a flow has one processor at most, every datagram of the flow  *)
(* leaves through it until it is closed, and no other flow's datagram ever *)
(* does.                                                                   *)
(***************************************************************************)
EXTENDS Naturals

CONSTANT Flow

VARIABLES filed,  \* filed[c]: the id of the processor of flow c, {} if it has none
          used    \* the latest datagram: its flow and the processor it left through

vars == <<filed, used>>

Init == filed = [c \in Flow |-> {}] /\ used = {}

\* A datagram opens its flow if need be.
Send(c) == \E id \in Nat :
  /\ IF filed[c] = {} THEN \A d \in Flow : id \notin filed[d] ELSE id \in filed[c]
  /\ filed' = [filed EXCEPT ![c] = {id}]
  /\ used' = {[conn |-> c, id |-> id]}

\* The flow's timer closes it.
Close(c) ==
  /\ filed[c] # {}
  /\ filed' = [filed EXCEPT ![c] = {}]
  /\ UNCHANGED used

Next == \E c \in Flow : Send(c) \/ Close(c)

Spec == Init /\ [][Next]_vars
=============================================================================
